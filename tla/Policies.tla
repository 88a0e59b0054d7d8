------------------------------ MODULE Policies ------------------------------
(***************************************************************************)
(* Policies: the endpoints of api/v1/policies.py that create, change,      *)
(* delete and assign them, the groups of api/v1/groups.py they may be      *)
(* assigned to, the push of an assigned policy to the agents, and what     *)
(* execute_policy of the agent's executor.py makes of it.                  *)
(*                                                                         *)
(* A policy is pushed when it is assigned and at no other time.  Its       *)
(* priority and is_active are stored and looked at by nothing; they are    *)
(* left out, and an update of them alone is one without a config.          *)
(***************************************************************************)
EXTENDS Naturals, Sequences, SequencesExt, FiniteSets

CONSTANTS
    Device,
    Group,
    Unknown,      \* ids of devices that are not there
    Policy,
    policyType,   \* the type of each policy, set when it is created
    Config,       \* the configurations an administrator may write
    NoConfig,
    Body,         \* what assign_policy is called with: sequences of targets
    Members,      \* what add_devices_to_group is called with: sequences of devices
    RuleName,     \* names of firewall rules
    RegistryName, \* values of the registry
    Request,      \* bounds the requests served at a time
    MaxVersion,   \* bounds the updates
    MaxWire       \* bounds the pushes under way

Target == Device \cup Group \cup Unknown

ASSUME PolicyAssumption ==
    /\ NoConfig \notin Config
    /\ Group \cap (Device \cup Unknown) = {}
    /\ Body \subseteq Seq(Target)
    /\ Members \subseteq Seq(Device \cup Unknown)
    /\ MaxVersion \in Nat \ {0}

-----------------------------------------------------------------------------
(* What the scripts of executor.py set, by policy type.                    *)
Setting ==
    {"password", "lockout"} \cup {"idle", "console lock", "screen saver"}
    \cup {"Domain", "Private", "Public"} \cup RuleName
    \cup {"USBSTOR Start", "WriteProtect"} \cup RegistryName \cup {"BitLocker"}

PasswordPolicy(c) == [n \in {"password", "lockout"} |-> c[n]]

ScreenLock(c) ==
    [n \in {"idle", "console lock", "screen saver"} |-> IF n = "idle" THEN c.idle ELSE "on"]

\* A rule is only added under a name there is none of yet.
FirewallPolicy(c, now) ==
    [n \in {"Domain", "Private", "Public"} \cup {x \in DOMAIN c.rules : now[x] = "off"} |->
        IF n \in RuleName THEN c.rules[n] ELSE c[n]]

\* Each of the three writes one value; none takes back what another wrote.
UsbPolicy(c) ==
    IF c.block_all_usb THEN [n \in {"USBSTOR Start"} |-> "disabled"]
    ELSE IF c.block_removable_storage THEN [n \in {"WriteProtect"} |-> "on"]
    ELSE [n \in {"USBSTOR Start"} |-> "enabled"]

RegistryPolicy(c) == c.entries

BitlockerPolicy(c) == [n \in IF c.require_encryption THEN {"BitLocker"} ELSE {} |-> "on"]

Script(type, c, now) ==
    CASE type = "password" -> PasswordPolicy(c)
      [] type = "screen_lock" -> ScreenLock(c)
      [] type = "firewall" -> FirewallPolicy(c, now)
      [] type = "usb" -> UsbPolicy(c)
      [] type = "registry" -> RegistryPolicy(c)
      [] type = "bitlocker" -> BitlockerPolicy(c)
      [] OTHER -> <<>>

(* execute_policy: a statement that fails does not keep the next from      *)
(* running, a timeout or an exception does; none is taken back.  Nothing   *)
(* is done on another system than Windows.                                 *)
Outcomes(type, c, now) ==
    LET script == Script(type, c, now) IN
    {[n \in DOMAIN now |-> IF n \in done THEN script[n] ELSE now[n]] : done \in SUBSET DOMAIN script}
-----------------------------------------------------------------------------
VARIABLES
    policy,       \* the row of each policy: [config, version], or NoPolicy
    assigned,     \* how many rows assign each policy to each target
    groups,       \* the groups that exist
    member,       \* the devices of each group
    request,      \* the requests being served
    connected,    \* the agents registered with the workers that serve them
    wire,         \* the pushes on the way to each agent
    running,      \* the row each agent was sent last of each policy
    settings,     \* what is set on each device
    configs,      \* history: the configurations each policy had
    raced         \* history: the policies of which an update was lost

database == <<policy, assigned, groups, member>>
agents == <<connected, wire, running, settings>>
vars == <<database, request, agents, configs, raced>>

NoPolicy == [config |-> NoConfig, version |-> 0]
Idle == [at |-> "idle"]
Exists(p) == policy[p] # NoPolicy

Initially == [n \in Setting |-> "off"]

Push == [policy : Policy, config : Config, version : 1 .. MaxVersion, stale : BOOLEAN]

TypeOK ==
    /\ policy \in [Policy -> [config : Config, version : 1 .. MaxVersion] \cup {NoPolicy}]
    /\ \A p \in Policy : Exists(p) => policy[p].config \in configs[p]
    /\ \A p \in Policy, t \in Target : assigned[p][t] > 0 => Exists(p) /\ t \in Device \cup groups
    /\ groups \subseteq Group
    /\ member \in [Group -> SUBSET Device]
    /\ \A r \in Request :
          request[r].at \in {"idle", "updating", "assigning", "pushing", "adding"}
    /\ connected \subseteq Device
    /\ wire \in [Device -> Seq(Push)]
    /\ running \in [Device -> [Policy -> [config : Config, version : 1 .. MaxVersion] \cup {NoPolicy}]]
    /\ DOMAIN settings = Device
    /\ raced \subseteq Policy

Init ==
    /\ policy = [p \in Policy |-> NoPolicy]
    /\ assigned = [p \in Policy |-> [t \in Target |-> 0]]
    /\ groups = {}
    /\ member = [g \in Group |-> {}]
    /\ request = [r \in Request |-> Idle]
    /\ connected = {}
    /\ wire = [d \in Device |-> <<>>]
    /\ running = [d \in Device |-> [p \in Policy |-> NoPolicy]]
    /\ settings = [d \in Device |-> Initially]
    /\ configs = [p \in Policy |-> {}]
    /\ raced = {}

-----------------------------------------------------------------------------
(* create_policy.  Every policy has a UUID of its own.                     *)
CreatePolicy(p) ==
    /\ configs[p] = {}
    /\ \E c \in Config :
          /\ policy' = [policy EXCEPT ![p] = [config |-> c, version |-> 1]]
          /\ configs' = [configs EXCEPT ![p] = {c}]
    /\ UNCHANGED <<assigned, groups, member, request, agents, raced>>

\* Variant: without the cascade.
DeletePolicyAlone(p) ==
    /\ Exists(p)
    /\ policy' = [policy EXCEPT ![p] = NoPolicy]
    /\ UNCHANGED <<assigned, groups, member, request, agents, configs, raced>>

(* delete_policy; the assignments go with it, what was pushed stays.       *)
DeletePolicy(p) ==
    /\ Exists(p)
    /\ policy' = [policy EXCEPT ![p] = NoPolicy]
    /\ assigned' = [assigned EXCEPT ![p] = [t \in Target |-> 0]]
    /\ UNCHANGED <<groups, member, request, agents, configs, raced>>

(* update_policy: the select, and later the commit.                        *)
LoadUpdate(r, p) ==
    /\ request[r] = Idle
    /\ Exists(p)
    /\ policy[p].version < MaxVersion
    /\ \E c \in Config \cup {NoConfig} :
          request' = [request EXCEPT ![r] =
              [at |-> "updating", policy |-> p, loaded |-> policy[p], config |-> c]]
    /\ UNCHANGED <<database, agents, configs, raced>>

\* The version is written in any case, the config if it differs from the one
\* that was read.  Without the row the commit fails.
CommitUpdate(r) ==
    LET q == request[r]
        config == IF q.config \in {NoConfig, q.loaded.config} THEN policy[q.policy].config ELSE q.config
    IN
    /\ q.at = "updating"
    /\ request' = [request EXCEPT ![r] = Idle]
    /\ IF Exists(q.policy)
       THEN /\ policy' = [policy EXCEPT ![q.policy] =
                             [config |-> config, version |-> q.loaded.version + 1]]
            /\ configs' = [configs EXCEPT ![q.policy] = @ \cup {config}]
            /\ raced' = IF policy[q.policy].version = q.loaded.version THEN raced
                        ELSE raced \cup {q.policy}
       ELSE UNCHANGED <<policy, configs, raced>>
    /\ UNCHANGED <<assigned, groups, member, agents>>

-----------------------------------------------------------------------------
(* create_group and add_devices_to_group; a device twice in a list, or     *)
(* added by another request meanwhile, violates uq_group_device.           *)
CreateGroup(g) ==
    /\ groups' = groups \cup {g}
    /\ g \notin groups
    /\ UNCHANGED <<policy, assigned, member, request, agents, configs, raced>>

SelectMembers(r, g) ==
    /\ request[r] = Idle
    /\ g \in groups
    /\ \E ds \in Members :
          request' = [request EXCEPT ![r] =
              [at |-> "adding", group |-> g, new |-> SelectSeq(ds, LAMBDA d : d \notin member[g])]]
    /\ UNCHANGED <<database, agents, configs, raced>>

CommitMembers(r) ==
    LET q == request[r]
        new == ToSet(q.new)
    IN
    /\ q.at = "adding"
    /\ request' = [request EXCEPT ![r] = Idle]
    /\ member' = IF IsInjective(q.new) /\ new \subseteq Device \ member[q.group]
                 THEN [member EXCEPT ![q.group] = @ \cup new] ELSE member
    /\ UNCHANGED <<policy, assigned, groups, agents, configs, raced>>

-----------------------------------------------------------------------------
(* assign_policy reads the policy once and then every target: is it        *)
(* assigned already, and which devices are meant.                          *)
LoadAssign(r, p) ==
    /\ request[r] = Idle
    /\ Exists(p)
    /\ \E targets \in Body :
          request' = [request EXCEPT ![r] =
              [at |-> "assigning", policy |-> p, loaded |-> policy[p], todo |-> targets,
               new |-> <<>>, devices |-> {}]]
    /\ UNCHANGED <<database, agents, configs, raced>>

\* The session does not flush by itself: it does not see its own new rows.
\* scalar_one_or_none raises if there are two.
SelectAssignment(r) ==
    LET q == request[r]
        t == Head(q.todo)
        known == assigned[q.policy][t]
    IN
    /\ q.at = "assigning"
    /\ q.todo # <<>>
    /\ request' = [request EXCEPT ![r] =
          IF known > 1 THEN Idle
          ELSE [q EXCEPT !.todo = Tail(@),
                         !.new = IF known = 0 THEN Append(@, t) ELSE @,
                         !.devices = @ \cup (IF t \in Group THEN member[t] ELSE {t})]]
    /\ UNCHANGED <<database, agents, configs, raced>>

\* Variant: the devices are told before the commit.
CommitAssignLater(r) ==
    LET q == request[r] IN
    /\ q.at = "assigning"
    /\ q.todo = <<>>
    /\ request' = [request EXCEPT ![r].at = "pushing"]
    /\ UNCHANGED <<database, agents, configs, raced>>

\* The policy, a device or a group that is not there violates a foreign key.
CommitAssign(r) ==
    LET q == request[r] IN
    /\ q.at = "assigning"
    /\ q.todo = <<>>
    /\ IF Exists(q.policy) /\ ToSet(q.new) \subseteq Device \cup groups
       THEN /\ assigned' = [assigned EXCEPT ![q.policy] =
                  [t \in Target |-> @[t] + Cardinality({k \in DOMAIN q.new : q.new[k] = t})]]
            /\ request' = [request EXCEPT ![r].at = "pushing"]
       ELSE /\ request' = [request EXCEPT ![r] = Idle]
            /\ UNCHANGED assigned
    /\ UNCHANGED <<policy, groups, member, agents, configs, raced>>

(* The push to each device, of the policy as it was read.  Who is not      *)
(* connected is left out, for good.                                        *)
SendPolicy(r, d) ==
    LET q == request[r]
        push == [policy |-> q.policy, config |-> q.loaded.config, version |-> q.loaded.version,
                 stale |-> policy[q.policy] # q.loaded]
    IN
    /\ q.at = "pushing"
    /\ d \in q.devices
    /\ request' = [request EXCEPT ![r] =
                      IF q.devices = {d} THEN Idle ELSE [q EXCEPT !.devices = @ \ {d}]]
    /\ d \in connected => Len(wire[d]) < MaxWire
    /\ wire' = IF d \in connected THEN [wire EXCEPT ![d] = Append(@, push)] ELSE wire
    /\ UNCHANGED <<database, connected, running, settings, configs, raced>>

\* An empty group has nobody to push to.
NobodyToPush(r) ==
    /\ request[r].at = "pushing"
    /\ request[r].devices = {}
    /\ request' = [request EXCEPT ![r] = Idle]
    /\ UNCHANGED <<database, agents, configs, raced>>

(* The worker dies in the middle, or the request is cut off.               *)
RequestDies(r) ==
    /\ request[r] # Idle
    /\ request' = [request EXCEPT ![r] = Idle]
    /\ UNCHANGED <<database, agents, configs, raced>>

-----------------------------------------------------------------------------
Connects(d) ==
    /\ connected' = connected \cup {d}
    /\ d \notin connected
    /\ UNCHANGED <<database, request, wire, running, settings, configs, raced>>

(* What is on the way is lost with the connection.                         *)
Disconnects(d) ==
    /\ d \in connected
    /\ connected' = connected \ {d}
    /\ wire' = [wire EXCEPT ![d] = <<>>]
    /\ UNCHANGED <<database, request, running, settings, configs, raced>>

Execute(d, k) ==
    LET push == wire[d][k] IN
    /\ wire' = [wire EXCEPT ![d] = RemoveAt(@, k)]
    /\ running' = [running EXCEPT ![d][push.policy] =
                      [config |-> push.config, version |-> push.version]]
    /\ \E s \in Outcomes(policyType[push.policy], push.config, settings[d]) :
          settings' = [settings EXCEPT ![d] = s]
    /\ UNCHANGED <<database, request, connected, configs, raced>>

\* Variant: in a thread each.
HandlePolicyInThreads(d) == \E k \in DOMAIN wire[d] : Execute(d, k)

(* _handle_policy: a task for each push.  The tasks run in the order they  *)
(* were made and each to its end: subprocess.run lets no other run.        *)
HandlePolicy(d) == wire[d] # <<>> /\ Execute(d, 1)

-----------------------------------------------------------------------------
Next ==
    \/ \E p \in Policy : CreatePolicy(p) \/ DeletePolicy(p)
    \/ \E g \in Group : CreateGroup(g)
    \/ \E r \in Request :
          \/ \E p \in Policy : LoadUpdate(r, p) \/ LoadAssign(r, p)
          \/ \E g \in Group : SelectMembers(r, g)
          \/ CommitUpdate(r) \/ CommitMembers(r)
          \/ SelectAssignment(r) \/ CommitAssign(r) \/ NobodyToPush(r) \/ RequestDies(r)
          \/ \E d \in Device \cup Unknown : SendPolicy(r, d)
    \/ \E d \in Device : Connects(d) \/ Disconnects(d) \/ HandlePolicy(d)

Spec == Init /\ [][Next]_vars

-----------------------------------------------------------------------------
AssignedTo(p, d) ==
    assigned[p][d] > 0 \/ \E g \in groups : assigned[p][g] > 0 /\ d \in member[g]

(* What is set on a device is what it was before, or what a configuration  *)
(* says that was committed, of a policy the device is assigned to, or was  *)
(* until the policy was deleted.  An assignment that fails half way sets   *)
(* nothing anywhere.                                                       *)
SettingsAreAssigned ==
    \A d \in Device : \A n \in Setting :
       settings[d][n] # Initially[n] =>
          \E p \in Policy :
             /\ Exists(p) => AssignedTo(p, d)
             /\ \E c \in configs[p] :
                   LET script == Script(policyType[p], c, Initially) IN
                   n \in DOMAIN script /\ script[n] = settings[d][n]

(* A device goes from a policy to an older version of it, or to another    *)
(* configuration with the same number, only if an update of the policy was *)
(* lost to another one, or if the push was sent by a request that had read *)
(* the policy before it was changed.                                       *)
NeverBack ==
    [][\A d \in Device : \A p \in Policy :
          \/ running'[d][p] = running[d][p]
          \/ running'[d][p].version > running[d][p].version
          \/ p \in raced
          \/ \E k \in DOMAIN wire[d] : wire[d][k].policy = p /\ wire[d][k].stale]_vars
=============================================================================
