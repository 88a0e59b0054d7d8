--------------------------- MODULE PoliciesProofs ---------------------------
(***************************************************************************)
(* Proofs about Policies, for every set of devices, groups, policies,      *)
(* configurations, requests and bodies of requests: its types, that what   *)
(* is set on a device comes from a policy assigned to it, and that a       *)
(* device goes back to an older version only for the reasons NeverBack     *)
(* names.                                                                  *)
(***************************************************************************)
EXTENDS Policies, FiniteSetTheorems, SequenceTheorems, TLAPS

PolicyRow == [config : Config, version : 1 .. MaxVersion]

(* What the records of the requests hold, by what they are at.             *)
Updating ==
    {q \in [at : {"updating"}, policy : Policy, loaded : PolicyRow, config : Config \cup {NoConfig}] :
        q.loaded.version < MaxVersion}
Assigning ==
    [at : {"assigning", "pushing"}, policy : Policy, loaded : PolicyRow, todo : Seq(Target),
     new : Seq(Target), devices : SUBSET (Device \cup Unknown)]

RequestOK(q, known) ==
    \/ q = Idle
    \/ q \in Updating \cup Assigning /\ q.loaded.config \in known[q.policy]
    \/ q.at = "adding" /\ q.group \in Group

(* The policy of a request, a push or a device's row had the configuration *)
(* that goes with it.  A policy that never had one is referred to nowhere. *)
RequestsOK ==
    /\ DOMAIN request = Request
    /\ \A r \in Request : RequestOK(request[r], configs)

AgentsOK ==
    /\ \A d \in Device : \A k \in DOMAIN wire[d] : wire[d][k].config \in configs[wire[d][k].policy]
    /\ \A d \in Device, p \in Policy :
          running[d][p] # NoPolicy => running[d][p].config \in configs[p]
    /\ \A d \in Device : settings[d] = [n \in Setting |-> settings[d][n]]

Types ==
    /\ TypeOK
    /\ assigned \in [Policy -> [Target -> Nat]]
    /\ configs \in [Policy -> SUBSET Config]
    /\ RequestsOK
    /\ AgentsOK

(* A device may have what a policy says: it is assigned to it, or was      *)
(* until the policy was deleted.                                           *)
Entitled(p, d) == configs[p] # {} /\ (Exists(p) => AssignedTo(p, d))

(* A request that assigns a policy means the devices of targets that have  *)
(* it or will have it with the commit, and pushes to those that have it.   *)
Meant(t, d) == IF t \in Group THEN d \in member[t] ELSE d = t

MeantOK(q) ==
    \A d \in Device : d \in q.devices =>
       IF q.at = "pushing" THEN Entitled(q.policy, d)
       ELSE Exists(q.policy) =>
               \E t \in Target : Meant(t, d) /\ (assigned[q.policy][t] > 0 \/ t \in ToSet(q.new))

DevicesMeant == \A r \in Request, q \in Assigning : request[r] = q => MeantOK(q)

PushedAreEntitled ==
    \A d \in Device, push \in Push :
       (\E k \in DOMAIN wire[d] : wire[d][k] = push) => Entitled(push.policy, d)

AssignedInv == Types /\ DevicesMeant /\ PushedAreEntitled /\ SettingsAreAssigned

(* The rows of a policy there are copies of.                               *)
RowOf(push) == [config |-> push.config, version |-> push.version]
Copies(p) ==
    {policy[p]} \cup {running[d][p] : d \in Device}
    \cup {x \in PolicyRow :
            \/ \E r \in Request : /\ request[r] \in Updating \cup Assigning
                                  /\ request[r].policy = p /\ request[r].loaded = x
            \/ \E d \in Device : \E k \in DOMAIN wire[d] : wire[d][k].policy = p /\ RowOf(wire[d][k]) = x}

(* Of a policy of which no update was lost every version is one row, and   *)
(* the one in the database is the newest; a push that was not stale when   *)
(* it was sent is not older than what the device was sent before it.       *)
OneRowPerVersion ==
    \A p \in Policy \ raced : \A x, y \in Copies(p) :
        /\ x.version = y.version => x = y
        /\ Exists(p) => x.version <= policy[p].version

FreshPushes ==
    \A p \in Policy \ raced, d \in Device : \A j \in DOMAIN wire[d] :
        wire[d][j].policy = p /\ ~wire[d][j].stale =>
           /\ running[d][p].version <= wire[d][j].version
           /\ \A i \in 1 .. j - 1 :
                 wire[d][i].policy = p => wire[d][i].version <= wire[d][j].version

VersionsInv == Types /\ OneRowPerVersion /\ FreshPushes

-----------------------------------------------------------------------------
(* Sequences of pushes.                                                    *)

LEMMA FirstRemoved ==
    ASSUME NEW S, NEW s \in Seq(S), s # <<>>
    PROVE  /\ RemoveAt(s, 1) \in Seq(S)
           /\ 1 \in DOMAIN s /\ s[1] \in S
           /\ \A k \in DOMAIN RemoveAt(s, 1) : k + 1 \in DOMAIN s /\ RemoveAt(s, 1)[k] = s[k + 1]
<1>1. SubSeq(s, 1, 0) = <<>>
  BY SubSeqEmpty
<1>2. Tail(s) \in Seq(S) /\ Tail(s) = SubSeq(s, 2, Len(s))
  BY HeadTailProperties, TailIsSubSeq
<1>3. RemoveAt(s, 1) = Tail(s)
  BY <1>1, <1>2, ConcatEmptySeq DEF RemoveAt
<1>4. /\ 1 \in DOMAIN s /\ s[1] \in S
      /\ \A k \in DOMAIN Tail(s) : k + 1 \in DOMAIN s /\ Tail(s)[k] = s[k + 1]
  OBVIOUS
<1> QED
  BY <1>2, <1>3, <1>4

LEMMA AppendOne ==
    ASSUME NEW S, NEW s \in Seq(S), NEW x \in S
    PROVE  /\ Append(s, x) \in Seq(S)
           /\ \A k \in DOMAIN Append(s, x) :
                 \/ k \in DOMAIN s /\ Append(s, x)[k] = s[k]
                 \/ k = Len(s) + 1 /\ Append(s, x)[k] = x
OBVIOUS

LEMMA InToSet ==
    ASSUME NEW S, NEW s \in Seq(S), NEW x \in S
    PROVE  /\ x \in ToSet(Append(s, x))
           /\ \A y : y \in ToSet(s) => y \in S /\ y \in ToSet(Append(s, x))
           /\ \A y \in S : y \in ToSet(s) <=> \E k \in DOMAIN s : s[k] = y
<1>1. x \in ToSet(Append(s, x))
  <2>1. Len(s) + 1 \in DOMAIN Append(s, x) /\ Append(s, x)[Len(s) + 1] = x
    OBVIOUS
  <2> QED
    BY <2>1 DEF ToSet
<1>2. ASSUME NEW y, y \in ToSet(s)
      PROVE  y \in S /\ y \in ToSet(Append(s, x))
  <2>1. PICK k \in DOMAIN s : s[k] = y
    BY <1>2 DEF ToSet
  <2>2. k \in DOMAIN Append(s, x) /\ Append(s, x)[k] = y /\ y \in S
    BY <2>1
  <2> QED
    BY <2>2 DEF ToSet
<1> QED
  BY <1>1, <1>2 DEF ToSet

(* Rows that a commit adds to those there are.                             *)
LEMMA RowsAdded ==
    ASSUME NEW s \in Seq(Target), NEW t \in Target
    PROVE  /\ Cardinality({k \in DOMAIN s : s[k] = t}) \in Nat
           /\ Cardinality({k \in DOMAIN s : s[k] = t}) > 0 <=> t \in ToSet(s)
<1> DEFINE K == {k \in DOMAIN s : s[k] = t}
<1>1. IsFiniteSet(K)
  <2>1. Len(s) \in Int /\ K \subseteq 1 .. Len(s)
    OBVIOUS
  <2>2. IsFiniteSet(1 .. Len(s))
    BY <2>1, FS_Interval
  <2> HIDE DEF K
  <2> QED
    BY <2>1, <2>2, FS_Subset
<1>2. Cardinality(K) \in Nat /\ (Cardinality(K) = 0 <=> K = {})
  BY <1>1, FS_CardinalityType, FS_EmptySet
<1>3. K # {} <=> t \in ToSet(s)
  BY DEF ToSet
<1> QED
  BY <1>2, <1>3

(* What a script sets on a device it would set on a new one.               *)
LEMMA ScriptFromStart ==
    ASSUME NEW type, NEW c, NEW now, NEW n \in Setting, n \in DOMAIN Script(type, c, now)
    PROVE  /\ n \in DOMAIN Script(type, c, Initially)
           /\ Script(type, c, now)[n] = Script(type, c, Initially)[n]
<1>1. CASE type = "firewall"
  BY <1>1 DEF Script, FirewallPolicy, Initially
<1>2. CASE type # "firewall"
  BY <1>2 DEF Script
<1> QED
  BY <1>1, <1>2

(* What is set afterwards was set before or is what the script says.       *)
LEMMA OutcomeFacts ==
    ASSUME NEW type, NEW c, NEW now, now = [n \in Setting |-> now[n]],
           NEW s \in Outcomes(type, c, now)
    PROVE  /\ s = [n \in Setting |-> s[n]]
           /\ \A n \in Setting :
                 \/ s[n] = now[n]
                 \/ /\ n \in DOMAIN Script(type, c, Initially)
                    /\ s[n] = Script(type, c, Initially)[n]
<1> DEFINE script == Script(type, c, now)
<1>1. PICK done \in SUBSET DOMAIN script :
         s = [n \in DOMAIN now |-> IF n \in done THEN script[n] ELSE now[n]]
  BY DEF Outcomes
<1>2. DOMAIN now = Setting
  OBVIOUS
<1>3. s = [n \in Setting |-> IF n \in done THEN script[n] ELSE now[n]]
  BY <1>1, <1>2
<1> HIDE DEF script
<1>4. \A n \in Setting : s[n] = IF n \in done THEN script[n] ELSE now[n]
  BY <1>3
<1>5. s = [n \in Setting |-> s[n]]
  BY <1>3
<1>6. ASSUME NEW n \in Setting, n \in done
      PROVE  /\ n \in DOMAIN Script(type, c, Initially)
             /\ s[n] = Script(type, c, Initially)[n]
  BY <1>1, <1>4, <1>6, ScriptFromStart DEF script
<1> QED
  BY <1>4, <1>5, <1>6

-----------------------------------------------------------------------------
(* Types.                                                                  *)

LEMMA RowFacts ==
    /\ NoPolicy \notin PolicyRow
    /\ \A x \in PolicyRow : x.config \in Config /\ x.version \in 1 .. MaxVersion
    /\ \A c \in Config, v \in 1 .. MaxVersion : [config |-> c, version |-> v] \in PolicyRow
BY PolicyAssumption DEF NoPolicy, PolicyRow

LEMMA TypesInit == Init => Types
<1> SUFFICES ASSUME Init PROVE Types
  OBVIOUS
<1>1. TypeOK
  BY DEF Init, TypeOK, Exists, Idle
<1>2. RequestsOK
  BY DEF Init, RequestsOK, RequestOK
<1>3. AgentsOK
  BY DEF Init, AgentsOK, Initially
<1> QED
  BY <1>1, <1>2, <1>3 DEF Init, Types

(* A request that moves on, is done or fails keeps the others as they are. *)
LEMMA RequestFacts ==
    ASSUME NEW q, NEW known, RequestOK(q, known)
    PROVE  /\ q.at \in {"idle", "updating", "assigning", "pushing", "adding"}
           /\ q.at = "adding" => q.group \in Group
           /\ q.at = "updating" => q \in Updating
           /\ q.at \in {"assigning", "pushing"} => q \in Assigning
           /\ q.at \in {"updating", "assigning", "pushing"} =>
                 /\ q.policy \in Policy /\ q.loaded \in PolicyRow
                 /\ q.loaded.config \in known[q.policy]
BY DEF RequestOK, Idle, Updating, Assigning

LEMMA RequestMoves ==
    ASSUME Types, NEW r \in Request, NEW q, RequestOK(q, configs'),
           request' = [request EXCEPT ![r] = q],
           \A p \in Policy : configs[p] \subseteq configs'[p]
    PROVE  /\ RequestsOK'
           /\ \A s \in Request :
                 request'[s].at \in {"idle", "updating", "assigning", "pushing", "adding"}
           /\ request'[r] = q /\ \A s \in Request \ {r} : request'[s] = request[s]
<1>1. DOMAIN request' = Request
  BY DEF Types, RequestsOK
<1>2. request'[r] = q /\ \A s \in Request \ {r} : request'[s] = request[s]
  BY DEF Types, RequestsOK
<1>3. ASSUME NEW s \in Request
      PROVE  RequestOK(request'[s], configs')
  <2>1. CASE s = r
    BY <1>2, <2>1
  <2>2. CASE s # r
    <3>1. RequestOK(request[s], configs)
      BY DEF Types, RequestsOK
    <3>2. RequestOK(request[s], configs')
      BY <3>1 DEF RequestOK, Updating, Assigning
    <3> QED
      BY <1>2, <2>2, <3>2
  <2> QED
    BY <2>1, <2>2
<1>4. RequestsOK'
  BY <1>1, <1>3 DEF RequestsOK
<1>5. \A s \in Request :
         request'[s].at \in {"idle", "updating", "assigning", "pushing", "adding"}
  BY <1>3, RequestFacts
<1> QED
  BY <1>2, <1>4, <1>5

LEMMA RequestsWait ==
    ASSUME Types, UNCHANGED request, \A p \in Policy : configs[p] \subseteq configs'[p]
    PROVE  RequestsOK'
<1>1. ASSUME NEW s \in Request
      PROVE  RequestOK(request[s], configs')
  <2>1. RequestOK(request[s], configs)
    BY DEF Types, RequestsOK
  <2> QED
    BY <2>1 DEF RequestOK, Updating, Assigning
<1> QED
  BY <1>1 DEF RequestsOK, Types

(* A step of a request that writes nothing but its own record.             *)
LEMMA OnlyRequest ==
    ASSUME Types, NEW r \in Request, NEW q, RequestOK(q, configs),
           request' = [request EXCEPT ![r] = q],
           UNCHANGED <<database, agents, configs, raced>>
    PROVE  Types'
<1>1. configs' = configs /\ \A p \in Policy : configs[p] \subseteq configs'[p]
  OBVIOUS
<1>2. RequestsOK'
  BY <1>1, RequestMoves
<1>3. \A s \in Request :
         request'[s].at \in {"idle", "updating", "assigning", "pushing", "adding"}
  BY <1>1, RequestMoves
<1>4. TypeOK'
  BY <1>3 DEF Types, TypeOK, Exists, database, agents
<1>5. AgentsOK'
  BY DEF Types, AgentsOK, agents
<1> QED
  BY <1>2, <1>4, <1>5 DEF Types, database

(* What the types say of a push on the way.                                *)
LEMMA PushFacts ==
    ASSUME Types, NEW d \in Device
    PROVE  /\ wire[d] \in Seq(Push)
           /\ \A k \in DOMAIN wire[d] :
                 /\ wire[d][k] \in Push /\ wire[d][k].policy \in Policy
                 /\ RowOf(wire[d][k]) \in PolicyRow
                 /\ wire[d][k].config \in configs[wire[d][k].policy]
<1>1. wire[d] \in Seq(Push)
  BY DEF Types, TypeOK
<1>2. ASSUME NEW k \in DOMAIN wire[d]
      PROVE  /\ wire[d][k] \in Push
             /\ wire[d][k].config \in configs[wire[d][k].policy]
  <2>1. wire[d][k] \in Push
    BY <1>1
  <2> QED
    BY <2>1 DEF Types, AgentsOK
<1>3. \A x \in Push : x.policy \in Policy /\ RowOf(x) \in PolicyRow
  BY DEF Push, RowOf, PolicyRow
<1> QED
  BY <1>1, <1>2, <1>3

LEMMA AgentsWait ==
    ASSUME Types, UNCHANGED <<wire, running, settings>>,
           \A p \in Policy : configs[p] \subseteq configs'[p]
    PROVE  AgentsOK'
<1>1. \A d \in Device : \A k \in DOMAIN wire[d] : wire[d][k].policy \in Policy
  BY PushFacts
<1> QED
  BY <1>1 DEF Types, AgentsOK

LEMMA CreatePolicyTypes ==
    ASSUME Types, NEW p \in Policy, CreatePolicy(p)
    PROVE  Types'
<1>1. PICK c \in Config :
         /\ policy' = [policy EXCEPT ![p] = [config |-> c, version |-> 1]]
         /\ configs' = [configs EXCEPT ![p] = {c}]
  BY DEF CreatePolicy
<1>2. /\ configs[p] = {} /\ UNCHANGED <<assigned, groups, member, request, agents, raced>>
  BY DEF CreatePolicy
<1>3. \A x \in Policy : configs[x] \subseteq configs'[x]
  BY <1>1, <1>2 DEF Types
<1>4. 1 \in 1 .. MaxVersion
  BY PolicyAssumption
<1>5. TypeOK'
  <2>1. [config |-> c, version |-> 1] \in PolicyRow
    BY <1>4, RowFacts
  <2>2. /\ policy' \in [Policy -> PolicyRow \cup {NoPolicy}]
        /\ policy'[p] = [config |-> c, version |-> 1] /\ \A x \in Policy \ {p} : policy'[x] = policy[x]
        /\ policy'[p] # NoPolicy
    BY <1>1, <2>1, RowFacts DEF Types, TypeOK, PolicyRow
  <2>3. configs'[p] = {c} /\ \A x \in Policy \ {p} : configs'[x] = configs[x]
    BY <1>1 DEF Types
  <2>4. \A x \in Policy : Exists(x)' => policy'[x].config \in configs'[x]
    <3>1. \A x \in Policy : Exists(x) => policy[x].config \in configs[x]
      BY DEF Types, TypeOK
    <3>2. policy'[p].config \in configs'[p]
      BY <2>2, <2>3
    <3> QED
      BY <2>2, <2>3, <3>1, <3>2 DEF Exists
  <2>5. \A x \in Policy, t \in Target : assigned'[x][t] > 0 => Exists(x)' /\ t \in Device \cup groups'
    BY <1>2, <2>2 DEF Types, TypeOK, Exists
  <2> QED
    BY <1>2, <2>2, <2>4, <2>5 DEF Types, TypeOK, agents, PolicyRow
<1>6. AgentsOK'
  BY <1>2, <1>3, AgentsWait DEF agents
<1>7. RequestsOK'
  BY <1>2, <1>3, RequestsWait
<1>8. configs' \in [Policy -> SUBSET Config]
  BY <1>1 DEF Types
<1> QED
  BY <1>2, <1>5, <1>6, <1>7, <1>8 DEF Types

LEMMA DeletePolicyTypes ==
    ASSUME Types, NEW p \in Policy, DeletePolicy(p)
    PROVE  Types'
<1>1. /\ policy' = [policy EXCEPT ![p] = NoPolicy]
      /\ assigned' = [assigned EXCEPT ![p] = [t \in Target |-> 0]]
      /\ UNCHANGED <<groups, member, request, agents, configs, raced>>
  BY DEF DeletePolicy
<1>2. RequestsOK' /\ AgentsOK'
  BY <1>1, RequestsWait, AgentsWait DEF agents
<1>3. /\ assigned' \in [Policy -> [Target -> Nat]]
      /\ \A t \in Target : assigned'[p][t] = 0
      /\ \A x \in Policy \ {p} : assigned'[x] = assigned[x] /\ policy'[x] = policy[x]
      /\ policy' \in [Policy -> PolicyRow \cup {NoPolicy}] /\ policy'[p] = NoPolicy
  BY <1>1 DEF Types, TypeOK, PolicyRow
<1>4. TypeOK'
  <2>1. \A x \in Policy : Exists(x)' => Exists(x) /\ policy'[x].config \in configs'[x]
    BY <1>1, <1>3 DEF Types, TypeOK, Exists
  <2>2. \A x \in Policy, t \in Target : assigned'[x][t] > 0 => Exists(x)' /\ t \in Device \cup groups'
    BY <1>1, <1>3 DEF Types, TypeOK, Exists
  <2> QED
    BY <1>1, <1>3, <2>1, <2>2 DEF Types, TypeOK, agents, PolicyRow
<1> QED
  BY <1>1, <1>2, <1>3, <1>4 DEF Types

LEMMA LoadUpdateTypes ==
    ASSUME Types, NEW r \in Request, NEW p \in Policy, LoadUpdate(r, p)
    PROVE  Types'
<1>1. PICK c \in Config \cup {NoConfig} :
         request' = [request EXCEPT ![r] =
                        [at |-> "updating", policy |-> p, loaded |-> policy[p], config |-> c]]
  BY DEF LoadUpdate
<1>2. policy[p] \in PolicyRow /\ policy[p].version < MaxVersion /\ policy[p].config \in configs[p]
  BY DEF LoadUpdate, Types, TypeOK, Exists, PolicyRow
<1>3. RequestOK([at |-> "updating", policy |-> p, loaded |-> policy[p], config |-> c], configs)
  BY <1>2 DEF RequestOK, Updating
<1> QED
  BY <1>1, <1>3, OnlyRequest DEF LoadUpdate

LEMMA SelectMembersTypes ==
    ASSUME Types, NEW r \in Request, NEW g \in Group, SelectMembers(r, g)
    PROVE  Types'
<1>1. PICK ds \in Members :
         request' = [request EXCEPT ![r] =
            [at |-> "adding", group |-> g, new |-> SelectSeq(ds, LAMBDA d : d \notin member[g])]]
  BY DEF SelectMembers
<1> DEFINE new == SelectSeq(ds, LAMBDA d : d \notin member[g])
<1> HIDE DEF new
<1>2. request' = [request EXCEPT ![r] = [at |-> "adding", group |-> g, new |-> new]]
  BY <1>1 DEF new
<1>3. RequestOK([at |-> "adding", group |-> g, new |-> new], configs)
  BY DEF RequestOK
<1> QED
  BY <1>2, <1>3, OnlyRequest DEF SelectMembers

LEMMA LoadAssignTypes ==
    ASSUME Types, NEW r \in Request, NEW p \in Policy, LoadAssign(r, p)
    PROVE  Types'
<1>1. PICK targets \in Body :
         request' = [request EXCEPT ![r] =
            [at |-> "assigning", policy |-> p, loaded |-> policy[p], todo |-> targets,
             new |-> <<>>, devices |-> {}]]
  BY DEF LoadAssign
<1>2. policy[p] \in PolicyRow /\ policy[p].config \in configs[p]
  BY DEF LoadAssign, Types, TypeOK, Exists, PolicyRow
<1>3. targets \in Seq(Target) /\ <<>> \in Seq(Target)
  BY PolicyAssumption
<1>4. RequestOK([at |-> "assigning", policy |-> p, loaded |-> policy[p], todo |-> targets,
                 new |-> <<>>, devices |-> {}], configs)
  BY <1>2, <1>3 DEF RequestOK, Assigning
<1> QED
  BY <1>1, <1>4, OnlyRequest DEF LoadAssign

LEMMA RequestEndsTypes ==
    ASSUME Types, NEW r \in Request, NobodyToPush(r) \/ RequestDies(r)
    PROVE  Types'
<1>1. RequestOK(Idle, configs)
  BY DEF RequestOK
<1> QED
  BY <1>1, OnlyRequest DEF NobodyToPush, RequestDies

(* What a request of assign_policy is after a step of its own.             *)
LEMMA AssigningFacts ==
    ASSUME Types, NEW r \in Request, request[r].at \in {"assigning", "pushing"}
    PROVE  /\ request[r] \in Assigning
           /\ request[r].policy \in Policy /\ request[r].loaded \in PolicyRow
           /\ request[r].loaded.config \in configs[request[r].policy]
           /\ request[r].todo \in Seq(Target) /\ request[r].new \in Seq(Target)
           /\ request[r].devices \subseteq Device \cup Unknown
<1>1. RequestOK(request[r], configs)
  BY DEF Types, RequestsOK
<1>2. request[r] \in Assigning
  BY <1>1, RequestFacts
<1> QED
  BY <1>1, <1>2, RequestFacts DEF Assigning

(* A target names devices: its members if it is a group, else itself.      *)
LEMMA TargetFacts ==
    ASSUME Types, NEW t \in Target
    PROVE  (IF t \in Group THEN member[t] ELSE {t}) \subseteq Device \cup Unknown
BY DEF Types, TypeOK, Target

LEMMA SelectAssignmentTypes ==
    ASSUME Types, NEW r \in Request, SelectAssignment(r)
    PROVE  Types'
<1> DEFINE q == request[r]
           t == Head(q.todo)
           more == [q EXCEPT !.todo = Tail(@),
                             !.new = IF assigned[q.policy][t] = 0 THEN Append(@, t) ELSE @,
                             !.devices = @ \cup (IF t \in Group THEN member[t] ELSE {t})]
<1>1. /\ q.at = "assigning" /\ q.todo # <<>>
      /\ request' = [request EXCEPT ![r] = IF assigned[q.policy][t] > 1 THEN Idle ELSE more]
      /\ UNCHANGED <<database, agents, configs, raced>>
  BY DEF SelectAssignment
<1>2. q \in Assigning /\ q.loaded.config \in configs[q.policy] /\ q.todo \in Seq(Target)
      /\ q.new \in Seq(Target) /\ q.devices \subseteq Device \cup Unknown
  BY <1>1, AssigningFacts
<1>3. t \in Target /\ Tail(q.todo) \in Seq(Target) /\ Append(q.new, t) \in Seq(Target)
  BY <1>1, <1>2
<1>4. RequestOK(more, configs)
  <2>1. (IF t \in Group THEN member[t] ELSE {t}) \subseteq Device \cup Unknown
    BY <1>3, TargetFacts
  <2>2. more \in Assigning /\ more.policy = q.policy /\ more.loaded = q.loaded
    <3> HIDE DEF t
    <3> QED
      BY <1>2, <1>3, <2>1 DEF Assigning
  <2> QED
    BY <1>2, <2>2 DEF RequestOK
<1>5. RequestOK(Idle, configs)
  BY DEF RequestOK
<1> HIDE DEF more
<1> QED
  BY <1>1, <1>4, <1>5, OnlyRequest

(* A commit of update_policy, of a policy that is still there.             *)
LEMMA UpdateFacts ==
    ASSUME Types, NEW r \in Request, request[r].at = "updating", Exists(request[r].policy)
    PROVE  LET q == request[r]
               config == IF q.config \in {NoConfig, q.loaded.config}
                         THEN policy[q.policy].config ELSE q.config
           IN  /\ q.policy \in Policy /\ config \in Config
               /\ [config |-> config, version |-> q.loaded.version + 1] \in PolicyRow
<1> DEFINE q == request[r]
           config == IF q.config \in {NoConfig, q.loaded.config}
                     THEN policy[q.policy].config ELSE q.config
<1>1. q \in Updating
  BY RequestFacts DEF Types, RequestsOK
<1>2. /\ q.policy \in Policy /\ q.config \in Config \cup {NoConfig}
      /\ q.loaded.version \in 1 .. MaxVersion /\ q.loaded.version < MaxVersion
  BY <1>1 DEF Updating, PolicyRow
<1>3. policy[q.policy] \in PolicyRow
  BY <1>2 DEF Types, TypeOK, Exists, PolicyRow
<1>4. config \in Config
  BY <1>2, <1>3, RowFacts
<1>5. q.loaded.version + 1 \in 1 .. MaxVersion
  BY <1>2, PolicyAssumption
<1> HIDE DEF config
<1>6. [config |-> config, version |-> q.loaded.version + 1] \in PolicyRow
  BY <1>4, <1>5, RowFacts
<1> QED
  BY <1>2, <1>4, <1>6 DEF config

LEMMA CommitUpdateTypes ==
    ASSUME Types, NEW r \in Request, CommitUpdate(r)
    PROVE  Types'
<1> DEFINE q == request[r]
           config == IF q.config \in {NoConfig, q.loaded.config}
                     THEN policy[q.policy].config ELSE q.config
           row == [config |-> config, version |-> q.loaded.version + 1]
<1>1. /\ q.at = "updating" /\ request' = [request EXCEPT ![r] = Idle]
      /\ UNCHANGED <<assigned, groups, member, agents>>
  BY DEF CommitUpdate
<1>2. \A s \in Request : RequestOK(Idle, configs')
  BY DEF RequestOK
<1>3. CASE ~Exists(q.policy)
  <2>1. UNCHANGED <<policy, configs, raced>>
    BY <1>3 DEF CommitUpdate
  <2> QED
    BY <1>1, <1>2, <2>1, OnlyRequest DEF database
<1>4. CASE Exists(q.policy)
  <2>1. /\ policy' = [policy EXCEPT ![q.policy] = row]
        /\ configs' = [configs EXCEPT ![q.policy] = @ \cup {config}]
        /\ raced' \in {raced, raced \cup {q.policy}}
    BY <1>4 DEF CommitUpdate
  <2>2. q.policy \in Policy /\ config \in Config /\ row \in PolicyRow
    BY <1>1, <1>4, UpdateFacts
  <2>3. row.config = config
    OBVIOUS
  <2> HIDE DEF config, row
  <2>4. /\ configs' \in [Policy -> SUBSET Config]
        /\ configs'[q.policy] = configs[q.policy] \cup {config}
        /\ \A x \in Policy \ {q.policy} : configs'[x] = configs[x] /\ policy'[x] = policy[x]
        /\ policy' \in [Policy -> PolicyRow \cup {NoPolicy}]
        /\ policy'[q.policy] = row /\ row # NoPolicy
    BY <2>1, <2>2, RowFacts DEF Types, TypeOK, PolicyRow
  <2>5. \A x \in Policy : configs[x] \subseteq configs'[x]
    BY <2>4
  <2>6. RequestsOK' /\ AgentsOK'
        /\ \A s \in Request :
              request'[s].at \in {"idle", "updating", "assigning", "pushing", "adding"}
    BY <1>1, <1>2, <2>5, RequestMoves, AgentsWait DEF agents
  <2>7. TypeOK'
    <3>1. \A x \in Policy : Exists(x)' => policy'[x].config \in configs'[x]
      <4>1. \A x \in Policy : Exists(x) => policy[x].config \in configs[x]
        BY DEF Types, TypeOK
      <4> QED
        BY <2>3, <2>4, <4>1 DEF Exists
    <3>2. \A x \in Policy, t \in Target : assigned'[x][t] > 0 => Exists(x)' /\ t \in Device \cup groups'
      BY <1>1, <2>4 DEF Types, TypeOK, Exists
    <3> QED
      BY <1>1, <2>1, <2>2, <2>4, <2>6, <3>1, <3>2 DEF Types, TypeOK, agents, PolicyRow
  <2> QED
    BY <1>1, <2>4, <2>6, <2>7 DEF Types
<1> QED
  BY <1>3, <1>4

LEMMA CreateGroupTypes ==
    ASSUME Types, NEW g \in Group, CreateGroup(g)
    PROVE  Types'
<1>1. groups' = groups \cup {g} /\ UNCHANGED <<policy, assigned, member, request, agents, configs, raced>>
  BY DEF CreateGroup
<1>2. RequestsOK' /\ AgentsOK'
  BY <1>1, RequestsWait, AgentsWait DEF agents
<1>3. TypeOK'
  BY <1>1 DEF Types, TypeOK, Exists, agents
<1> QED
  BY <1>1, <1>2, <1>3 DEF Types

LEMMA CommitMembersTypes ==
    ASSUME Types, NEW r \in Request, CommitMembers(r)
    PROVE  Types' /\ \A g \in Group : member[g] \subseteq member'[g]
<1> DEFINE q == request[r]
           new == ToSet(q.new)
<1>1. /\ q.at = "adding" /\ request' = [request EXCEPT ![r] = Idle]
      /\ UNCHANGED <<policy, assigned, groups, agents, configs, raced>>
      /\ \/ member' = member
         \/ /\ new \subseteq Device \ member[q.group]
            /\ member' = [member EXCEPT ![q.group] = @ \cup new]
  BY DEF CommitMembers
<1> HIDE DEF new
<1>2. member' \in [Group -> SUBSET Device] /\ \A g \in Group : member[g] \subseteq member'[g]
  <2>1. q.group \in Group
    BY <1>1, RequestFacts DEF Types, RequestsOK
  <2>2. member \in [Group -> SUBSET Device]
    BY DEF Types, TypeOK
  <2>3. CASE member' = member
    BY <2>2, <2>3
  <2>4. CASE /\ new \subseteq Device \ member[q.group]
             /\ member' = [member EXCEPT ![q.group] = @ \cup new]
    BY <2>1, <2>2, <2>4
  <2> QED
    BY <1>1, <2>3, <2>4
<1>3. RequestOK(Idle, configs')
  BY DEF RequestOK
<1>4. RequestsOK' /\ AgentsOK'
      /\ \A s \in Request :
            request'[s].at \in {"idle", "updating", "assigning", "pushing", "adding"}
  BY <1>1, <1>3, RequestMoves, AgentsWait DEF agents
<1>5. TypeOK'
  BY <1>1, <1>2, <1>4 DEF Types, TypeOK, Exists, agents
<1> QED
  BY <1>1, <1>2, <1>4, <1>5 DEF Types

(* The commit of assign_policy, if no foreign key is violated.             *)
LEMMA CommitAssignFacts ==
    ASSUME Types, NEW r \in Request, CommitAssign(r), request'[r] # Idle
    PROVE  LET q == request[r] IN
           /\ Exists(q.policy) /\ ToSet(q.new) \subseteq Device \cup groups
           /\ request' = [request EXCEPT ![r] = [q EXCEPT !.at = "pushing"]]
           /\ assigned' \in [Policy -> [Target -> Nat]]
           /\ \A x \in Policy \ {q.policy} : assigned'[x] = assigned[x]
           /\ \A t \in Target : assigned'[q.policy][t] > 0 <=>
                                   assigned[q.policy][t] > 0 \/ t \in ToSet(q.new)
<1> DEFINE q == request[r]
           rows(t) == Cardinality({k \in DOMAIN q.new : q.new[k] = t})
<1>1. /\ Exists(q.policy) /\ ToSet(q.new) \subseteq Device \cup groups
      /\ assigned' = [assigned EXCEPT ![q.policy] = [t \in Target |-> @[t] + rows(t)]]
      /\ request' = [request EXCEPT ![r].at = "pushing"]
  BY DEF CommitAssign, Types, RequestsOK
<1>2. q \in Assigning /\ q.policy \in Policy /\ q.new \in Seq(Target)
  BY AssigningFacts DEF CommitAssign
<1>3. \A t \in Target : rows(t) \in Nat /\ (rows(t) > 0 <=> t \in ToSet(q.new))
  BY <1>2, RowsAdded
<1> HIDE DEF rows
<1>4. assigned[q.policy] \in [Target -> Nat]
  BY <1>2 DEF Types
<1>5. [t \in Target |-> assigned[q.policy][t] + rows(t)] \in [Target -> Nat]
  BY <1>3, <1>4
<1>6. /\ assigned' \in [Policy -> [Target -> Nat]]
      /\ \A x \in Policy \ {q.policy} : assigned'[x] = assigned[x]
      /\ assigned'[q.policy] = [t \in Target |-> assigned[q.policy][t] + rows(t)]
  BY <1>1, <1>2, <1>5 DEF Types
<1>7. ASSUME NEW t \in Target
      PROVE  assigned'[q.policy][t] > 0 <=> assigned[q.policy][t] > 0 \/ t \in ToSet(q.new)
  <2>1. assigned'[q.policy][t] = assigned[q.policy][t] + rows(t) /\ assigned[q.policy][t] \in Nat
    BY <1>4, <1>6
  <2> QED
    BY <1>3, <2>1
<1> QED
  BY <1>1, <1>6, <1>7

LEMMA CommitAssignTypes ==
    ASSUME Types, NEW r \in Request, CommitAssign(r)
    PROVE  Types'
<1> DEFINE q == request[r]
<1>1. q.at = "assigning" /\ UNCHANGED <<policy, groups, member, agents, configs, raced>>
  BY DEF CommitAssign
<1>2. q \in Assigning /\ q.policy \in Policy /\ q.loaded.config \in configs[q.policy]
  BY <1>1, AssigningFacts
<1>3. CASE request'[r] = Idle
  <2>1. request' = [request EXCEPT ![r] = Idle] /\ assigned' = assigned
    <3>1. [q EXCEPT !.at = "pushing"] # Idle
      BY DEF Idle
    <3>2. request' # [request EXCEPT ![r].at = "pushing"]
      BY <1>3, <3>1 DEF Types, RequestsOK
    <3> QED
      BY <3>2 DEF CommitAssign
  <2>2. RequestOK(Idle, configs)
    BY DEF RequestOK
  <2> QED
    BY <1>1, <2>1, <2>2, OnlyRequest DEF database
<1>4. CASE request'[r] # Idle
  <2>1. /\ Exists(q.policy) /\ ToSet(q.new) \subseteq Device \cup groups
        /\ request' = [request EXCEPT ![r] = [q EXCEPT !.at = "pushing"]]
        /\ assigned' \in [Policy -> [Target -> Nat]]
        /\ \A x \in Policy \ {q.policy} : assigned'[x] = assigned[x]
        /\ \A t \in Target : assigned'[q.policy][t] > 0 <=>
                                assigned[q.policy][t] > 0 \/ t \in ToSet(q.new)
    BY <1>4, CommitAssignFacts
  <2>2. RequestOK([q EXCEPT !.at = "pushing"], configs')
    BY <1>1, <1>2 DEF RequestOK, Assigning
  <2>3. RequestsOK' /\ AgentsOK'
        /\ \A s \in Request :
              request'[s].at \in {"idle", "updating", "assigning", "pushing", "adding"}
    BY <1>1, <2>1, <2>2, RequestMoves, AgentsWait DEF agents
  <2>4. \A x \in Policy, t \in Target : assigned'[x][t] > 0 => Exists(x)' /\ t \in Device \cup groups'
    BY <1>1, <2>1 DEF Types, TypeOK, Exists
  <2>5. TypeOK'
    BY <1>1, <2>3, <2>4 DEF Types, TypeOK, Exists, agents
  <2> QED
    BY <1>1, <2>1, <2>3, <2>5 DEF Types
<1> QED
  BY <1>3, <1>4

(* A push to a device: the request forgets the device, and an agent that   *)
(* is connected gets the row that was read.                                *)
LEMMA SendPolicyFacts ==
    ASSUME Types, NEW r \in Request, NEW d \in Device \cup Unknown, SendPolicy(r, d)
    PROVE  LET q == request[r]
               push == [policy |-> q.policy, config |-> q.loaded.config,
                        version |-> q.loaded.version, stale |-> policy[q.policy] # q.loaded]
           IN  /\ q.at = "pushing" /\ q \in Assigning /\ d \in q.devices
               /\ q.policy \in Policy /\ push \in Push /\ RowOf(push) = q.loaded
               /\ push.config \in configs[q.policy]
               /\ \/ request' = [request EXCEPT ![r] = Idle]
                  \/ request' = [request EXCEPT ![r] = [q EXCEPT !.devices = @ \ {d}]]
               /\ \/ wire' = wire
                  \/ d \in Device /\ wire' = [wire EXCEPT ![d] = Append(@, push)]
<1> DEFINE q == request[r]
           push == [policy |-> q.policy, config |-> q.loaded.config,
                    version |-> q.loaded.version, stale |-> policy[q.policy] # q.loaded]
<1>1. /\ q.at = "pushing" /\ d \in q.devices
      /\ \/ request' = [request EXCEPT ![r] = Idle]
         \/ request' = [request EXCEPT ![r] = [q EXCEPT !.devices = @ \ {d}]]
  BY DEF SendPolicy
<1>2. /\ q \in Assigning /\ q.policy \in Policy /\ q.loaded \in PolicyRow
      /\ q.loaded.config \in configs[q.policy]
  BY <1>1, AssigningFacts
<1>3. push \in Push /\ push.config = q.loaded.config /\ RowOf(push) = q.loaded
  BY <1>2 DEF Push, PolicyRow, RowOf
<1> HIDE DEF push
<1>4. wire' = wire \/ (d \in connected /\ wire' = [wire EXCEPT ![d] = Append(@, push)])
  BY DEF SendPolicy, push
<1>5. connected \subseteq Device
  BY DEF Types, TypeOK
<1> QED
  BY <1>1, <1>2, <1>3, <1>4, <1>5 DEF push

(* What is on the way to a device afterwards was, or is the new push.      *)
LEMMA WireGrows ==
    ASSUME Types, NEW d \in Device, NEW push \in Push, wire' = [wire EXCEPT ![d] = Append(@, push)]
    PROVE  /\ wire' \in [Device -> Seq(Push)]
           /\ \A e \in Device \ {d} : wire'[e] = wire[e]
           /\ Len(wire'[d]) = Len(wire[d]) + 1
           /\ \A k \in DOMAIN wire'[d] :
                 \/ k \in DOMAIN wire[d] /\ wire'[d][k] = wire[d][k]
                 \/ k = Len(wire[d]) + 1 /\ wire'[d][k] = push
<1>1. wire \in [Device -> Seq(Push)]
  BY DEF Types, TypeOK
<1>2. wire'[d] = Append(wire[d], push) /\ \A e \in Device \ {d} : wire'[e] = wire[e]
  BY <1>1
<1>3. wire[d] \in Seq(Push)
  BY <1>1
<1>4. Append(wire[d], push) \in Seq(Push) /\ Len(Append(wire[d], push)) = Len(wire[d]) + 1
  BY <1>3
<1>5. \A k \in DOMAIN Append(wire[d], push) :
         \/ k \in DOMAIN wire[d] /\ Append(wire[d], push)[k] = wire[d][k]
         \/ k = Len(wire[d]) + 1 /\ Append(wire[d], push)[k] = push
  BY <1>3, AppendOne
<1> QED
  BY <1>1, <1>2, <1>4, <1>5

LEMMA SendPolicyTypes ==
    ASSUME Types, NEW r \in Request, NEW d \in Device \cup Unknown, SendPolicy(r, d)
    PROVE  Types'
<1> DEFINE q == request[r]
           push == [policy |-> q.policy, config |-> q.loaded.config,
                    version |-> q.loaded.version, stale |-> policy[q.policy] # q.loaded]
<1>1. UNCHANGED <<database, connected, running, settings, configs, raced>>
  BY DEF SendPolicy
<1>2. /\ q \in Assigning /\ q.policy \in Policy /\ q.loaded.config \in configs[q.policy]
      /\ push \in Push /\ push.config \in configs[q.policy]
      /\ \/ request' = [request EXCEPT ![r] = Idle]
         \/ request' = [request EXCEPT ![r] = [q EXCEPT !.devices = @ \ {d}]]
      /\ \/ wire' = wire
         \/ d \in Device /\ wire' = [wire EXCEPT ![d] = Append(@, push)]
  BY SendPolicyFacts, AssigningFacts
<1>3. push.policy = q.policy
  OBVIOUS
<1> HIDE DEF push
<1>4. RequestOK(Idle, configs') /\ RequestOK([q EXCEPT !.devices = @ \ {d}], configs')
  <2>1. [q EXCEPT !.devices = @ \ {d}] \in Assigning
    BY <1>2 DEF Assigning
  <2>2. /\ [q EXCEPT !.devices = @ \ {d}].loaded = q.loaded
        /\ [q EXCEPT !.devices = @ \ {d}].policy = q.policy
    BY <1>2 DEF Assigning
  <2> QED
    BY <1>1, <1>2, <2>1, <2>2 DEF RequestOK
<1>5. RequestsOK' /\ \A s \in Request :
         request'[s].at \in {"idle", "updating", "assigning", "pushing", "adding"}
  BY <1>1, <1>2, <1>4, RequestMoves
<1>6. /\ wire' \in [Device -> Seq(Push)]
      /\ \A e \in Device : \A k \in DOMAIN wire'[e] : wire'[e][k].config \in configs[wire'[e][k].policy]
  <2>1. CASE wire' = wire
    BY <2>1, PushFacts DEF Types, TypeOK
  <2>2. CASE d \in Device /\ wire' = [wire EXCEPT ![d] = Append(@, push)]
    <3>1. /\ wire' \in [Device -> Seq(Push)]
          /\ \A e \in Device \ {d} : wire'[e] = wire[e]
          /\ \A k \in DOMAIN wire'[d] :
                \/ k \in DOMAIN wire[d] /\ wire'[d][k] = wire[d][k]
                \/ wire'[d][k] = push
      <4>1. PICK x \in Push : x = push
        BY <1>2
      <4>2. Types /\ d \in Device /\ wire' = [wire EXCEPT ![d] = Append(@, x)]
        BY <2>2, <4>1
      <4>3. /\ wire' \in [Device -> Seq(Push)]
            /\ \A e \in Device \ {d} : wire'[e] = wire[e]
            /\ \A k \in DOMAIN wire'[d] :
                  \/ k \in DOMAIN wire[d] /\ wire'[d][k] = wire[d][k]
                  \/ k = Len(wire[d]) + 1 /\ wire'[d][k] = x
        BY <4>2, WireGrows, ZenonT(60)
      <4> QED
        BY <4>1, <4>3
    <3> QED
      BY <1>2, <1>3, <3>1, PushFacts, ZenonT(60)
  <2> QED
    BY <1>2, <2>1, <2>2
<1>7. TypeOK'
  BY <1>1, <1>5, <1>6 DEF Types, TypeOK, Exists, database
<1>8. AgentsOK'
  BY <1>1, <1>6 DEF Types, AgentsOK
<1> QED
  BY <1>1, <1>5, <1>7, <1>8 DEF Types, database

LEMMA ConnectsTypes ==
    ASSUME Types, NEW d \in Device, Connects(d)
    PROVE  Types'
<1>1. connected' = connected \cup {d}
      /\ UNCHANGED <<database, request, wire, running, settings, configs, raced>>
  BY DEF Connects
<1>2. RequestsOK' /\ AgentsOK'
  BY <1>1, RequestsWait, AgentsWait
<1>3. TypeOK'
  BY <1>1 DEF Types, TypeOK, Exists, database
<1> QED
  BY <1>1, <1>2, <1>3 DEF Types, database

LEMMA DisconnectsTypes ==
    ASSUME Types, NEW d \in Device, Disconnects(d)
    PROVE  Types'
<1>1. connected' = connected \ {d} /\ wire' = [wire EXCEPT ![d] = <<>>]
      /\ UNCHANGED <<database, request, running, settings, configs, raced>>
  BY DEF Disconnects
<1>2. /\ wire' \in [Device -> Seq(Push)] /\ wire'[d] = <<>>
      /\ \A e \in Device \ {d} : wire'[e] = wire[e]
  BY <1>1 DEF Types, TypeOK
<1>3. RequestsOK'
  BY <1>1, RequestsWait
<1>4. AgentsOK'
  BY <1>1, <1>2 DEF Types, AgentsOK
<1>5. TypeOK'
  BY <1>1, <1>2 DEF Types, TypeOK, Exists, database
<1> QED
  BY <1>1, <1>3, <1>4, <1>5 DEF Types, database

(* The first push is taken off and executed.                               *)
LEMMA HandlePolicyFacts ==
    ASSUME Types, NEW d \in Device, HandlePolicy(d)
    PROVE  /\ 1 \in DOMAIN wire[d] /\ wire[d][1] \in Push /\ wire[d][1].policy \in Policy
           /\ wire' \in [Device -> Seq(Push)]
           /\ \A e \in Device \ {d} : wire'[e] = wire[e]
           /\ \A k \in DOMAIN wire'[d] : k + 1 \in DOMAIN wire[d] /\ wire'[d][k] = wire[d][k + 1]
           /\ running' \in [Device -> [Policy -> PolicyRow \cup {NoPolicy}]]
           /\ running'[d][wire[d][1].policy] = RowOf(wire[d][1])
           /\ \A e \in Device, p \in Policy :
                 ~(e = d /\ p = wire[d][1].policy) => running'[e][p] = running[e][p]
           /\ \E s \in Outcomes(policyType[wire[d][1].policy], wire[d][1].config, settings[d]) :
                 settings' = [settings EXCEPT ![d] = s]
           /\ UNCHANGED <<database, request, connected, configs, raced>>
<1> DEFINE push == wire[d][1]
<1>1. /\ wire[d] # <<>> /\ wire' = [wire EXCEPT ![d] = RemoveAt(@, 1)]
      /\ running' = [running EXCEPT ![d][push.policy] = RowOf(push)]
      /\ \E s \in Outcomes(policyType[push.policy], push.config, settings[d]) :
            settings' = [settings EXCEPT ![d] = s]
      /\ UNCHANGED <<database, request, connected, configs, raced>>
  BY DEF HandlePolicy, Execute, RowOf
<1>2. /\ wire \in [Device -> Seq(Push)] /\ wire[d] \in Seq(Push)
      /\ running \in [Device -> [Policy -> PolicyRow \cup {NoPolicy}]]
  BY DEF Types, TypeOK, PolicyRow
<1>3. /\ RemoveAt(wire[d], 1) \in Seq(Push) /\ 1 \in DOMAIN wire[d]
      /\ \A k \in DOMAIN RemoveAt(wire[d], 1) :
            k + 1 \in DOMAIN wire[d] /\ RemoveAt(wire[d], 1)[k] = wire[d][k + 1]
  BY <1>1, <1>2, FirstRemoved
<1>4. /\ wire' \in [Device -> Seq(Push)] /\ wire'[d] = RemoveAt(wire[d], 1)
      /\ \A e \in Device \ {d} : wire'[e] = wire[e]
  BY <1>1, <1>2, <1>3
<1>5. push \in Push /\ push.policy \in Policy /\ RowOf(push) \in PolicyRow
  BY <1>3, PushFacts
<1> HIDE DEF push
<1>6. /\ running' \in [Device -> [Policy -> PolicyRow \cup {NoPolicy}]]
      /\ running'[d][push.policy] = RowOf(push)
      /\ \A e \in Device, p \in Policy :
            ~(e = d /\ p = push.policy) => running'[e][p] = running[e][p]
  BY <1>1, <1>2, <1>5
<1> QED
  BY <1>1, <1>3, <1>4, <1>5, <1>6 DEF push

LEMMA HandlePolicyTypes ==
    ASSUME Types, NEW d \in Device, HandlePolicy(d)
    PROVE  Types'
<1>1. /\ UNCHANGED <<database, request, connected, configs, raced>>
      /\ wire' \in [Device -> Seq(Push)]
      /\ running' \in [Device -> [Policy -> PolicyRow \cup {NoPolicy}]]
  BY HandlePolicyFacts
<1>2. PICK s \in Outcomes(policyType[wire[d][1].policy], wire[d][1].config, settings[d]) :
         settings' = [settings EXCEPT ![d] = s]
  BY HandlePolicyFacts
<1>3. s = [n \in Setting |-> s[n]]
  <2>1. settings[d] = [n \in Setting |-> settings[d][n]]
    BY DEF Types, AgentsOK
  <2> QED
    BY <2>1, OutcomeFacts
<1>4. /\ DOMAIN settings' = Device /\ settings'[d] = s
      /\ \A e \in Device \ {d} : settings'[e] = settings[e]
  BY <1>2 DEF Types, TypeOK
<1>5. \A e \in Device : settings'[e] = [n \in Setting |-> settings'[e][n]]
  <2>1. \A e \in Device : settings[e] = [n \in Setting |-> settings[e][n]]
    BY DEF Types, AgentsOK
  <2> QED
    BY <1>3, <1>4, <2>1
<1>6. \A e \in Device : \A k \in DOMAIN wire'[e] : wire'[e][k].config \in configs[wire'[e][k].policy]
  BY HandlePolicyFacts, PushFacts, SMTT(60)
<1>7. \A e \in Device, p \in Policy :
         running'[e][p] # NoPolicy => running'[e][p].config \in configs[p]
  <2>1. RowOf(wire[d][1]).config \in configs[wire[d][1].policy]
    BY HandlePolicyFacts, PushFacts DEF RowOf
  <2>2. \A e \in Device, p \in Policy :
           running[e][p] # NoPolicy => running[e][p].config \in configs[p]
    BY DEF Types, AgentsOK
  <2>3. /\ running'[d][wire[d][1].policy] = RowOf(wire[d][1])
        /\ \A e \in Device, p \in Policy :
              ~(e = d /\ p = wire[d][1].policy) => running'[e][p] = running[e][p]
    BY HandlePolicyFacts, Zenon
  <2> SUFFICES ASSUME NEW e \in Device, NEW p \in Policy, running'[e][p] # NoPolicy
               PROVE  running'[e][p].config \in configs[p]
    OBVIOUS
  <2>4. CASE e = d /\ p = wire[d][1].policy
    BY <2>1, <2>3, <2>4
  <2>5. CASE ~(e = d /\ p = wire[d][1].policy)
    BY <2>2, <2>3, <2>5
  <2> QED
    BY <2>4, <2>5
<1>8. AgentsOK'
  BY <1>1, <1>5, <1>6, <1>7 DEF AgentsOK
<1>9. RequestsOK'
  BY <1>1, RequestsWait
<1>10. TypeOK'
  BY <1>1, <1>4 DEF Types, TypeOK, Exists, database, PolicyRow
<1> QED
  BY <1>1, <1>8, <1>9, <1>10 DEF Types, database

LEMMA TypesStep ==
    ASSUME Types, [Next]_vars
    PROVE  Types'
<1>1. CASE UNCHANGED vars
  <2>1. RequestsOK' /\ AgentsOK'
    BY <1>1, RequestsWait, AgentsWait DEF vars, agents
  <2>2. TypeOK'
    BY <1>1 DEF vars, database, agents, Types, TypeOK, Exists
  <2> QED
    BY <1>1, <2>1, <2>2 DEF vars, database, Types
<1>2. CASE Next
  BY <1>2, CreatePolicyTypes, DeletePolicyTypes, CreateGroupTypes, LoadUpdateTypes,
     LoadAssignTypes, SelectMembersTypes, CommitUpdateTypes, CommitMembersTypes,
     SelectAssignmentTypes, CommitAssignTypes, RequestEndsTypes, SendPolicyTypes,
     ConnectsTypes, DisconnectsTypes, HandlePolicyTypes DEF Next
<1> QED
  BY <1>1, <1>2

(* Whatever requests interleave, a row of an assignment names a policy and *)
(* a target that exist, the row of a policy holds a configuration that was *)
(* committed for it, and every variable keeps its type.                    *)
THEOREM TypeCorrect == Spec => []TypeOK
<1>1. Types => TypeOK
  BY SMTT(60) DEF Types
<1> QED
  BY <1>1, TypesInit, TypesStep, PTL DEF Spec

-----------------------------------------------------------------------------
(* What is set is assigned.                                                *)

(* A policy that had a configuration does not come back once it is gone;   *)
(* until then it keeps its targets, and these keep their devices.          *)
LEMMA Grows ==
    ASSUME Types, [Next]_vars
    PROVE  /\ \A p \in Policy : configs[p] \subseteq configs'[p]
           /\ \A p \in Policy : configs[p] # {} /\ Exists(p)' =>
                 /\ Exists(p)
                 /\ \A t \in Target : assigned[p][t] > 0 => assigned'[p][t] > 0
           /\ groups \subseteq groups'
           /\ \A g \in Group : member[g] \subseteq member'[g]
<1> DEFINE Goal == /\ \A p \in Policy : configs[p] \subseteq configs'[p]
                   /\ \A p \in Policy : configs[p] # {} /\ Exists(p)' =>
                         /\ Exists(p)
                         /\ \A t \in Target : assigned[p][t] > 0 => assigned'[p][t] > 0
                   /\ groups \subseteq groups'
                   /\ \A g \in Group : member[g] \subseteq member'[g]
<1>1. CASE UNCHANGED <<database, configs>>
  BY <1>1 DEF database, Exists
<1>2. ASSUME NEW p \in Policy, CreatePolicy(p)
      PROVE  Goal
  <2>1. PICK c \in Config :
           /\ policy' = [policy EXCEPT ![p] = [config |-> c, version |-> 1]]
           /\ configs' = [configs EXCEPT ![p] = {c}]
    BY <1>2 DEF CreatePolicy
  <2>2. configs[p] = {} /\ UNCHANGED <<assigned, groups, member>>
    BY <1>2 DEF CreatePolicy
  <2>3. \A x \in Policy \ {p} : configs'[x] = configs[x] /\ policy'[x] = policy[x]
    BY <2>1 DEF Types, TypeOK
  <2> QED
    BY <2>2, <2>3 DEF Exists
<1>3. ASSUME NEW p \in Policy, DeletePolicy(p)
      PROVE  Goal
  <2>1. /\ policy' = [policy EXCEPT ![p] = NoPolicy]
        /\ assigned' = [assigned EXCEPT ![p] = [t \in Target |-> 0]]
        /\ UNCHANGED <<groups, member, configs>>
    BY <1>3 DEF DeletePolicy
  <2>2. /\ policy'[p] = NoPolicy
        /\ \A x \in Policy \ {p} : assigned'[x] = assigned[x] /\ policy'[x] = policy[x]
    BY <2>1 DEF Types, TypeOK
  <2> QED
    BY <2>1, <2>2 DEF Exists
<1>4. ASSUME NEW r \in Request, CommitUpdate(r)
      PROVE  Goal
  <2> DEFINE q == request[r]
  <2>1. UNCHANGED <<assigned, groups, member>> /\ q.at = "updating"
    BY <1>4 DEF CommitUpdate
  <2>2. CASE ~Exists(q.policy)
    BY <1>4, <2>1, <2>2 DEF CommitUpdate, Exists
  <2>3. CASE Exists(q.policy)
    <3>1. PICK config, row : /\ policy' = [policy EXCEPT ![q.policy] = row]
                             /\ configs' = [configs EXCEPT ![q.policy] = @ \cup {config}]
      BY <1>4, <2>3 DEF CommitUpdate
    <3>2. q.policy \in Policy
      BY <2>1, <2>3, UpdateFacts
    <3>3. /\ configs[q.policy] \subseteq configs'[q.policy]
          /\ \A x \in Policy \ {q.policy} : configs'[x] = configs[x] /\ policy'[x] = policy[x]
      BY <3>1, <3>2 DEF Types, TypeOK
    <3> QED
      BY <2>1, <2>3, <3>3 DEF Exists
  <2> QED
    BY <2>2, <2>3
<1>5. ASSUME NEW g \in Group, CreateGroup(g)
      PROVE  Goal
  BY <1>5 DEF CreateGroup, Exists
<1>6. ASSUME NEW r \in Request, CommitMembers(r)
      PROVE  Goal
  BY <1>6, CommitMembersTypes DEF CommitMembers, Exists
<1>7. ASSUME NEW r \in Request, CommitAssign(r)
      PROVE  Goal
  <2>1. UNCHANGED <<policy, groups, member, configs>>
    BY <1>7 DEF CommitAssign
  <2>2. CASE assigned' = assigned
    BY <2>1, <2>2 DEF Exists
  <2>3. CASE assigned' # assigned
    <3>1. request'[r] # Idle
      <4>1. request' = [request EXCEPT ![r].at = "pushing"]
        BY <1>7, <2>3 DEF CommitAssign
      <4>2. request'[r] = [request[r] EXCEPT !.at = "pushing"] /\ request[r] \in Assigning
        BY <1>7, <4>1, AssigningFacts DEF CommitAssign, Types, RequestsOK
      <4>3. request'[r] \in Assigning
        BY <4>2 DEF Assigning
      <4> QED
        BY <4>3 DEF Assigning, Idle
    <3>2. /\ \A x \in Policy \ {request[r].policy} : assigned'[x] = assigned[x]
          /\ \A t \in Target : assigned[request[r].policy][t] > 0 => assigned'[request[r].policy][t] > 0
      BY <1>7, <3>1, CommitAssignFacts
    <3> QED
      BY <2>1, <3>2 DEF Exists
  <2> QED
    BY <2>2, <2>3
<1> QED
  BY <1>1, <1>2, <1>3, <1>4, <1>5, <1>6, <1>7 DEF Next, vars, LoadUpdate, LoadAssign,
     SelectMembers, SelectAssignment, NobodyToPush, RequestDies, SendPolicy, Connects,
     Disconnects, HandlePolicy, Execute

(* Who may have what a policy says may have it from then on.               *)
LEMMA EntitledStays ==
    ASSUME Types, [Next]_vars, NEW p \in Policy, NEW d \in Device, Entitled(p, d)
    PROVE  Entitled(p, d)'
<1>1. configs'[p] # {}
  BY Grows DEF Entitled
<1>2. ASSUME Exists(p)'
      PROVE  AssignedTo(p, d)'
  <2>1. /\ \A t \in Target : assigned[p][t] > 0 => assigned'[p][t] > 0
        /\ AssignedTo(p, d)
        /\ groups \subseteq groups' /\ \A g \in Group : member[g] \subseteq member'[g]
    BY <1>2, Grows DEF Entitled
  <2>2. groups \subseteq Group
    BY DEF Types, TypeOK
  <2> QED
    BY <2>1, <2>2 DEF AssignedTo, Target
<1> QED
  BY <1>1, <1>2 DEF Entitled

LEMMA MeantStays ==
    ASSUME Types, [Next]_vars, NEW q \in Assigning, configs[q.policy] # {}, MeantOK(q)
    PROVE  MeantOK(q)'
<1>1. q.policy \in Policy
  BY DEF Assigning
<1>2. SUFFICES ASSUME NEW d \in Device, d \in q.devices
               PROVE  IF q.at = "pushing" THEN Entitled(q.policy, d)'
                      ELSE Exists(q.policy)' =>
                              \E t \in Target : Meant(t, d)'
                                 /\ (assigned'[q.policy][t] > 0 \/ t \in ToSet(q.new))
  BY DEF MeantOK
<1>3. CASE q.at = "pushing"
  BY <1>1, <1>2, <1>3, EntitledStays DEF MeantOK
<1>4. CASE q.at # "pushing"
  <2> SUFFICES ASSUME Exists(q.policy)'
               PROVE  \E t \in Target : Meant(t, d)'
                         /\ (assigned'[q.policy][t] > 0 \/ t \in ToSet(q.new))
    BY <1>4
  <2>1. /\ Exists(q.policy)
        /\ \A t \in Target : assigned[q.policy][t] > 0 => assigned'[q.policy][t] > 0
        /\ \A g \in Group : member[g] \subseteq member'[g]
    BY <1>1, Grows
  <2>2. PICK t \in Target : Meant(t, d) /\ (assigned[q.policy][t] > 0 \/ t \in ToSet(q.new))
    BY <1>2, <1>4, <2>1 DEF MeantOK
  <2>3. Meant(t, d)'
    BY <2>1, <2>2 DEF Meant
  <2> QED
    BY <2>1, <2>2, <2>3
<1> QED
  BY <1>3, <1>4

(* The requests that a step leaves as they are go on meaning what they     *)
(* meant; r is the one that takes the step.                                *)
LEMMA OthersMeant ==
    ASSUME Types, DevicesMeant, [Next]_vars, NEW r \in Request,
           \A s \in Request \ {r} : request'[s] = request[s],
           \A q \in Assigning : request'[r] = q => MeantOK(q)'
    PROVE  DevicesMeant'
<1> SUFFICES ASSUME NEW s \in Request, NEW q \in Assigning, request'[s] = q
             PROVE  MeantOK(q)'
  BY DEF DevicesMeant
<1>1. CASE s = r
  BY <1>1
<1>2. CASE s # r
  <2>1. request[s] = q
    BY <1>2
  <2>2. configs[q.policy] # {}
    <3>1. RequestOK(request[s], configs) /\ request[s].at \in {"assigning", "pushing"}
      BY <2>1 DEF Types, RequestsOK, Assigning
    <3> QED
      BY <2>1, <3>1, RequestFacts
  <2> QED
    BY <2>1, <2>2, MeantStays DEF DevicesMeant
<1> QED
  BY <1>1, <1>2

LEMMA SelectAssignmentMeant ==
    ASSUME Types, DevicesMeant, NEW r \in Request, SelectAssignment(r),
           NEW more \in Assigning, request'[r] = more
    PROVE  MeantOK(more)'
<1>1. PICK q \in Assigning : q = request[r]
  BY AssigningFacts DEF SelectAssignment
<1> DEFINE t == Head(q.todo)
           named == IF t \in Group THEN member[t] ELSE {t}
<1>2. /\ q.at = "assigning" /\ q.todo # <<>> /\ UNCHANGED <<policy, assigned, groups, member, configs>>
  BY <1>1 DEF SelectAssignment, database
<1>3. q.policy \in Policy /\ q.todo \in Seq(Target) /\ q.new \in Seq(Target)
  BY DEF Assigning
<1>4. t \in Target
  BY <1>2, <1>3
<1>5. /\ more.at = "assigning" /\ more.policy = q.policy /\ more.devices = q.devices \cup named
      /\ more.new = IF assigned[q.policy][t] = 0 THEN Append(q.new, t) ELSE q.new
  <2>1. request'[r] = IF assigned[q.policy][t] > 1 THEN Idle
                      ELSE [q EXCEPT !.todo = Tail(@),
                                     !.new = IF assigned[q.policy][t] = 0 THEN Append(@, t) ELSE @,
                                     !.devices = @ \cup named]
    BY <1>1 DEF SelectAssignment, Types, RequestsOK
  <2>2. more # Idle
    BY DEF Assigning, Idle
  <2>3. more = [q EXCEPT !.todo = Tail(@),
                         !.new = IF assigned[q.policy][t] = 0 THEN Append(@, t) ELSE @,
                         !.devices = @ \cup named]
    BY <2>1, <2>2
  <2> HIDE DEF t, named
  <2> QED
    BY <1>2, <2>3 DEF Assigning
<1>6. assigned[q.policy][t] \in Nat
  BY <1>3, <1>4 DEF Types
<1> HIDE DEF t
<1>7. /\ \A x : x \in ToSet(q.new) => x \in ToSet(more.new)
      /\ assigned[q.policy][t] > 0 \/ t \in ToSet(more.new)
  BY <1>3, <1>4, <1>5, <1>6, InToSet
<1>8. ASSUME NEW d \in Device, d \in more.devices, Exists(q.policy)
      PROVE  \E x \in Target : Meant(x, d) /\ (assigned[q.policy][x] > 0 \/ x \in ToSet(more.new))
  <2>1. CASE d \in q.devices
    <3>1. \E x \in Target : Meant(x, d) /\ (assigned[q.policy][x] > 0 \/ x \in ToSet(q.new))
      BY <1>1, <1>2, <1>8, <2>1 DEF DevicesMeant, MeantOK
    <3> QED
      BY <1>7, <3>1
  <2>2. CASE d \in named
    BY <1>4, <1>7, <2>2 DEF Meant
  <2> QED
    BY <1>5, <1>8, <2>1, <2>2
<1>9. \A x \in Target, d \in Device : Meant(x, d)' <=> Meant(x, d)
  BY <1>2 DEF Meant
<1> QED
  BY <1>2, <1>5, <1>8, <1>9 DEF MeantOK, Exists

(* The commit assigns the policy to the devices the request has gathered.  *)
LEMMA CommitAssignMeant ==
    ASSUME Types, DevicesMeant, NEW r \in Request, CommitAssign(r),
           NEW pushing \in Assigning, request'[r] = pushing
    PROVE  MeantOK(pushing)'
<1>1. PICK q \in Assigning : q = request[r]
  BY AssigningFacts DEF CommitAssign
<1>2. q.at = "assigning" /\ UNCHANGED <<policy, groups, member, configs>>
  BY <1>1 DEF CommitAssign
<1>3. request'[r] # Idle
  BY DEF Assigning, Idle
<1>4. /\ Exists(q.policy) /\ ToSet(q.new) \subseteq Device \cup groups
      /\ request' = [request EXCEPT ![r] = [q EXCEPT !.at = "pushing"]]
      /\ \A t \in Target : assigned'[q.policy][t] > 0 <=>
                              assigned[q.policy][t] > 0 \/ t \in ToSet(q.new)
  BY <1>1, <1>3, CommitAssignFacts
<1>5. pushing.at = "pushing" /\ pushing.policy = q.policy /\ pushing.devices = q.devices
  <2>1. pushing = [q EXCEPT !.at = "pushing"]
    BY <1>4 DEF Types, RequestsOK
  <2> QED
    BY <2>1 DEF Assigning
<1>6. q.policy \in Policy /\ q.loaded.config \in configs[q.policy]
  BY <1>1, <1>2, AssigningFacts
<1>7. ASSUME NEW d \in Device, d \in q.devices
      PROVE  Entitled(q.policy, d)'
  <2>1. PICK t \in Target : Meant(t, d) /\ (assigned[q.policy][t] > 0 \/ t \in ToSet(q.new))
    BY <1>1, <1>2, <1>4, <1>7 DEF DevicesMeant, MeantOK
  <2>2. assigned'[q.policy][t] > 0
    BY <1>4, <2>1
  <2>3. t \in Device \cup groups
    BY <1>4, <1>6, <2>1 DEF Types, TypeOK
  <2>4. CASE t \in Group
    BY <1>2, <1>6, <2>1, <2>2, <2>3, <2>4, PolicyAssumption DEF Meant, AssignedTo, Entitled
  <2>5. CASE t \notin Group
    BY <2>1, <2>2, <2>5, <1>2, <1>6 DEF Meant, AssignedTo, Entitled
  <2> QED
    BY <2>4, <2>5
<1> QED
  BY <1>5, <1>7 DEF MeantOK

LEMMA SendPolicyMeant ==
    ASSUME Types, DevicesMeant, NEW r \in Request, NEW e \in Device \cup Unknown, SendPolicy(r, e),
           NEW left \in Assigning, request'[r] = left
    PROVE  MeantOK(left)'
<1>1. PICK q \in Assigning : q = request[r]
  BY SendPolicyFacts
<1>2. /\ q.at = "pushing" /\ UNCHANGED <<policy, assigned, groups, member, configs>>
      /\ \/ request' = [request EXCEPT ![r] = Idle]
         \/ request' = [request EXCEPT ![r] = [q EXCEPT !.devices = @ \ {e}]]
  BY <1>1, SendPolicyFacts DEF SendPolicy, database
<1>3. left # Idle
  BY DEF Assigning, Idle
<1>4. left = [q EXCEPT !.devices = @ \ {e}]
  BY <1>2, <1>3 DEF Types, RequestsOK
<1>5. left.at = "pushing" /\ left.policy = q.policy /\ left.devices \subseteq q.devices
  BY <1>2, <1>4 DEF Assigning
<1>6. \A d \in Device : d \in q.devices => Entitled(q.policy, d)
  BY <1>1, <1>2 DEF DevicesMeant, MeantOK
<1>7. \A d \in Device : Entitled(q.policy, d)' <=> Entitled(q.policy, d)
  BY <1>2 DEF Entitled, Exists, AssignedTo
<1> QED
  BY <1>5, <1>6, <1>7 DEF MeantOK

LEMMA DevicesMeantStep ==
    ASSUME Types, DevicesMeant, [Next]_vars
    PROVE  DevicesMeant'
<1> USE DEF RequestsOK
<1>1. CASE UNCHANGED request
  <2>1. CASE Request = {}
    BY <2>1 DEF DevicesMeant
  <2>2. CASE Request # {}
    <3>1. PICK r \in Request : TRUE
      BY <2>2
    <3>2. ASSUME NEW q \in Assigning, request'[r] = q
          PROVE  MeantOK(q)'
      <4>1. request[r] = q
        BY <1>1, <3>2
      <4>2. configs[q.policy] # {}
        BY <4>1, AssigningFacts DEF Assigning
      <4> QED
        BY <4>1, <4>2, MeantStays DEF DevicesMeant
    <3> QED
      BY <1>1, <3>1, <3>2, OthersMeant
  <2> QED
    BY <2>1, <2>2
<1>2. ASSUME NEW r \in Request, \A s \in Request \ {r} : request'[s] = request[s],
             request'[r].at \in {"idle", "updating", "adding"}
      PROVE  DevicesMeant'
  <2>1. \A q \in Assigning : request'[r] # q
    BY <1>2 DEF Assigning
  <2> QED
    BY <1>2, <2>1, OthersMeant
<1>3. ASSUME NEW r \in Request, NEW p \in Policy, LoadUpdate(r, p)
      PROVE  DevicesMeant'
  <2>1. PICK c \in Config \cup {NoConfig} :
           request' = [request EXCEPT ![r] =
                          [at |-> "updating", policy |-> p, loaded |-> policy[p], config |-> c]]
    BY <1>3 DEF LoadUpdate
  <2> QED
    BY <1>2, <2>1 DEF Types
<1>4. ASSUME NEW r \in Request, NEW g \in Group, SelectMembers(r, g)
      PROVE  DevicesMeant'
  <2>1. PICK new : request' = [request EXCEPT ![r] = [at |-> "adding", group |-> g, new |-> new]]
    BY <1>4 DEF SelectMembers
  <2> QED
    BY <1>2, <2>1 DEF Types
<1>5. ASSUME NEW r \in Request, CommitUpdate(r) \/ CommitMembers(r) \/ NobodyToPush(r) \/ RequestDies(r)
      PROVE  DevicesMeant'
  <2>1. request' = [request EXCEPT ![r] = Idle]
    BY <1>5 DEF CommitUpdate, CommitMembers, NobodyToPush, RequestDies
  <2> QED
    BY <1>2, <2>1 DEF Types, Idle
<1>6. ASSUME NEW r \in Request, NEW p \in Policy, LoadAssign(r, p)
      PROVE  DevicesMeant'
  <2>1. PICK targets \in Body :
           request' = [request EXCEPT ![r] =
              [at |-> "assigning", policy |-> p, loaded |-> policy[p], todo |-> targets,
               new |-> <<>>, devices |-> {}]]
    BY <1>6 DEF LoadAssign
  <2>2. request'[r].devices = {} /\ \A s \in Request \ {r} : request'[s] = request[s]
    BY <2>1 DEF Types
  <2>3. \A q \in Assigning : request'[r] = q => MeantOK(q)'
    BY <2>2 DEF MeantOK
  <2> QED
    BY <2>2, <2>3, OthersMeant
<1>7. ASSUME NEW r \in Request, SelectAssignment(r)
      PROVE  DevicesMeant'
  <2>1. \A s \in Request \ {r} : request'[s] = request[s]
    BY <1>7 DEF SelectAssignment, Types
  <2> QED
    BY <1>7, <2>1, SelectAssignmentMeant, OthersMeant
<1>8. ASSUME NEW r \in Request, CommitAssign(r)
      PROVE  DevicesMeant'
  <2>1. \A s \in Request \ {r} : request'[s] = request[s]
    BY <1>8 DEF CommitAssign, Types
  <2> QED
    BY <1>8, <2>1, CommitAssignMeant, OthersMeant
<1>9. ASSUME NEW r \in Request, NEW d \in Device \cup Unknown, SendPolicy(r, d)
      PROVE  DevicesMeant'
  <2>1. \A s \in Request \ {r} : request'[s] = request[s]
    BY <1>9, SMTT(60) DEF SendPolicy, Types
  <2> QED
    BY <1>9, <2>1, SendPolicyMeant, OthersMeant
<1> QED
  BY <1>1, <1>3, <1>4, <1>5, <1>6, <1>7, <1>8, <1>9 DEF Next, vars, CreatePolicy, DeletePolicy,
     CreateGroup, Connects, Disconnects, HandlePolicy, Execute

(* What is under way after a step was under way before it, or is the push  *)
(* of a request to a device it means.                                      *)
LEMMA WireFrom ==
    ASSUME Types, [Next]_vars, NEW d \in Device, NEW k \in DOMAIN wire'[d]
    PROVE  \/ \E j \in DOMAIN wire[d] : wire'[d][k] = wire[d][j]
           \/ \E r \in Request :
                 /\ request[r] \in Assigning /\ request[r].at = "pushing" /\ d \in request[r].devices
                 /\ wire'[d][k].policy = request[r].policy /\ RowOf(wire'[d][k]) = request[r].loaded
                 /\ wire'[d][k].stale <=> policy[request[r].policy] # request[r].loaded
<1> DEFINE Goal == \/ \E j \in DOMAIN wire[d] : wire'[d][k] = wire[d][j]
                   \/ \E r \in Request :
                         /\ request[r] \in Assigning /\ request[r].at = "pushing"
                         /\ d \in request[r].devices
                         /\ wire'[d][k].policy = request[r].policy
                         /\ RowOf(wire'[d][k]) = request[r].loaded
                         /\ wire'[d][k].stale <=> policy[request[r].policy] # request[r].loaded
<1>1. CASE UNCHANGED wire
  BY <1>1
<1>2. ASSUME NEW e \in Device, Disconnects(e)
      PROVE  Goal
  <2>1. wire'[e] = <<>> /\ \A x \in Device \ {e} : wire'[x] = wire[x]
    BY <1>2 DEF Disconnects, Types, TypeOK
  <2> QED
    BY <2>1
<1>3. ASSUME NEW e \in Device, HandlePolicy(e)
      PROVE  Goal
  <2>1. /\ \A x \in Device \ {e} : wire'[x] = wire[x]
        /\ \A i \in DOMAIN wire'[e] : i + 1 \in DOMAIN wire[e] /\ wire'[e][i] = wire[e][i + 1]
    BY <1>3, HandlePolicyFacts
  <2> QED
    BY <2>1
<1>4. ASSUME NEW r \in Request, NEW e \in Device \cup Unknown, SendPolicy(r, e)
      PROVE  Goal
  <2>1. PICK push \in Push :
           push = [policy |-> request[r].policy, config |-> request[r].loaded.config,
                   version |-> request[r].loaded.version,
                   stale |-> policy[request[r].policy] # request[r].loaded]
    BY <1>4, SendPolicyFacts
  <2>2. /\ request[r] \in Assigning /\ request[r].at = "pushing" /\ e \in request[r].devices
        /\ RowOf(push) = request[r].loaded
        /\ \/ wire' = wire
           \/ e \in Device /\ wire' = [wire EXCEPT ![e] = Append(@, push)]
    BY <1>4, <2>1, SendPolicyFacts
  <2>3. push.policy = request[r].policy /\ (push.stale <=> policy[request[r].policy] # request[r].loaded)
    BY <2>1
  <2>4. CASE e \in Device /\ wire' = [wire EXCEPT ![e] = Append(@, push)]
    <3>1. /\ \A x \in Device \ {e} : wire'[x] = wire[x]
          /\ \A i \in DOMAIN wire'[e] :
                \/ i \in DOMAIN wire[e] /\ wire'[e][i] = wire[e][i]
                \/ i = Len(wire[e]) + 1 /\ wire'[e][i] = push
      <4>1. e \in Device /\ wire' = [wire EXCEPT ![e] = Append(@, push)]
        BY <2>4
      <4>2. \A x \in Device \ {e} : wire'[x] = wire[x]
        BY <4>1 DEF Types, TypeOK
      <4>3. \A i \in DOMAIN wire'[e] :
               \/ i \in DOMAIN wire[e] /\ wire'[e][i] = wire[e][i]
               \/ i = Len(wire[e]) + 1 /\ wire'[e][i] = push
        BY <4>1, WireGrows
      <4> QED
        BY <4>2, <4>3
    <3> QED
      BY <2>2, <2>3, <3>1
  <2> QED
    BY <1>1, <2>2, <2>4
<1> QED
  BY <1>1, <1>2, <1>3, <1>4 DEF Next, vars, agents, CreatePolicy, DeletePolicy, CreateGroup,
     LoadUpdate, LoadAssign, SelectMembers, CommitUpdate, CommitMembers, SelectAssignment,
     CommitAssign, NobodyToPush, RequestDies, Connects

LEMMA PushedStep ==
    ASSUME Types, DevicesMeant, PushedAreEntitled, [Next]_vars
    PROVE  PushedAreEntitled'
<1> SUFFICES ASSUME NEW d \in Device, NEW push \in Push, NEW k \in DOMAIN wire'[d], wire'[d][k] = push
             PROVE  Entitled(push.policy, d)'
  BY DEF PushedAreEntitled
<1>1. push.policy \in Policy
  BY DEF Push
<1>2. Entitled(push.policy, d)
  <2>1. CASE \E j \in DOMAIN wire[d] : wire'[d][k] = wire[d][j]
    BY <2>1 DEF PushedAreEntitled
  <2>2. CASE \E r \in Request :
                /\ request[r] \in Assigning /\ request[r].at = "pushing" /\ d \in request[r].devices
                /\ wire'[d][k].policy = request[r].policy
    BY <2>2 DEF DevicesMeant, MeantOK
  <2> QED
    BY <2>1, <2>2, WireFrom
<1> QED
  BY <1>1, <1>2, EntitledStays

LEMMA SettingsStep ==
    ASSUME AssignedInv, [Next]_vars
    PROVE  SettingsAreAssigned'
<1> DEFINE Says(p, c, n, v) == LET script == Script(policyType[p], c, Initially) IN
                               n \in DOMAIN script /\ script[n] = v
<1> USE DEF AssignedInv
<1> SUFFICES ASSUME NEW d \in Device, NEW n \in Setting, settings'[d][n] # Initially[n]
             PROVE  \E p \in Policy : /\ Exists(p)' => AssignedTo(p, d)'
                                      /\ \E c \in configs'[p] : Says(p, c, n, settings'[d][n])
  BY DEF SettingsAreAssigned
<1>1. SUFFICES \E p \in Policy : Entitled(p, d) /\ \E c \in configs[p] : Says(p, c, n, settings'[d][n])
  <2>1. PICK p \in Policy : Entitled(p, d) /\ \E c \in configs[p] : Says(p, c, n, settings'[d][n])
    BY <1>1
  <2>2. Entitled(p, d)' /\ configs[p] \subseteq configs'[p]
    BY <2>1, EntitledStays, Grows
  <2> HIDE DEF Says
  <2> QED
    BY <2>1, <2>2 DEF Entitled
<1>2. CASE settings'[d][n] = settings[d][n]
  <2>1. PICK p \in Policy : /\ Exists(p) => AssignedTo(p, d)
                            /\ \E c \in configs[p] : Says(p, c, n, settings[d][n])
    BY <1>2 DEF SettingsAreAssigned
  <2> HIDE DEF Says
  <2> QED
    BY <1>2, <2>1 DEF Entitled
<1>3. ASSUME NEW e \in Device, HandlePolicy(e), settings'[d][n] # settings[d][n]
      PROVE  \E p \in Policy : Entitled(p, d) /\ \E c \in configs[p] : Says(p, c, n, settings'[d][n])
  <2>1. PICK push \in Push : push = wire[e][1]
    BY <1>3, HandlePolicyFacts
  <2>2. /\ 1 \in DOMAIN wire[e] /\ push.policy \in Policy /\ push.config \in configs[push.policy]
    BY <1>3, <2>1, HandlePolicyFacts, PushFacts
  <2>3. PICK s \in Outcomes(policyType[push.policy], push.config, settings[e]) :
           settings' = [settings EXCEPT ![e] = s]
    BY <1>3, <2>1, HandlePolicyFacts
  <2>4. d = e /\ settings'[d] = s
    BY <1>3, <2>3 DEF Types, TypeOK
  <2>5. settings[e] = [x \in Setting |-> settings[e][x]]
    BY DEF Types, AgentsOK
  <2>6. Says(push.policy, push.config, n, s[n])
    BY <1>3, <2>3, <2>4, <2>5, OutcomeFacts
  <2>7. Entitled(push.policy, d)
    BY <2>1, <2>2, <2>4, SMTT(60) DEF PushedAreEntitled
  <2> HIDE DEF Says
  <2> QED
    BY <2>2, <2>4, <2>6, <2>7
<1>4. UNCHANGED settings \/ \E e \in Device : HandlePolicy(e)
  BY DEF Next, vars, agents, CreatePolicy, DeletePolicy, CreateGroup,
     LoadUpdate, LoadAssign, SelectMembers, CommitUpdate, CommitMembers, SelectAssignment,
     CommitAssign, SendPolicy, NobodyToPush, RequestDies, Connects, Disconnects
<1> QED
  BY <1>2, <1>3, <1>4

LEMMA AssignedInit == Init => AssignedInv
<1> SUFFICES ASSUME Init PROVE AssignedInv
  OBVIOUS
<1>1. Types
  BY TypesInit
<1>2. DevicesMeant
  BY DEF Init, DevicesMeant, Idle, Assigning
<1>3. PushedAreEntitled
  BY DEF Init, PushedAreEntitled
<1>4. SettingsAreAssigned
  BY DEF Init, SettingsAreAssigned
<1> QED
  BY <1>1, <1>2, <1>3, <1>4 DEF AssignedInv

(* A setting of a device differs from what it was at first only because a  *)
(* policy that has been assigned to the device, and still is unless it was *)
(* deleted, says so in a configuration that was committed: whatever        *)
(* requests are cut off, fail at their commit, or overlap with others that *)
(* change the policy, the groups and the assignments, and whatever part of *)
(* a script fails.                                                         *)
THEOREM OnlyWhatIsAssigned == Spec => []SettingsAreAssigned
<1>1. AssignedInv /\ [Next]_vars => AssignedInv'
  BY TypesStep, DevicesMeantStep, PushedStep, SettingsStep DEF AssignedInv
<1>2. AssignedInv => SettingsAreAssigned
  BY DEF AssignedInv
<1> QED
  BY <1>1, <1>2, AssignedInit, PTL DEF Spec

-----------------------------------------------------------------------------
(* Versions.                                                               *)

LEMMA CopiesFacts ==
    ASSUME Types, NEW p \in Policy
    PROVE  /\ policy[p] \in Copies(p) /\ Copies(p) \subseteq PolicyRow \cup {NoPolicy}
           /\ \A d \in Device : running[d][p] \in Copies(p)
           /\ \A r \in Request : request[r] \in Updating \cup Assigning /\ request[r].policy = p =>
                 request[r].loaded \in Copies(p)
           /\ \A d \in Device : \A k \in DOMAIN wire[d] :
                 wire[d][k].policy = p => RowOf(wire[d][k]) \in Copies(p)
<1>1. /\ policy[p] \in PolicyRow \cup {NoPolicy}
      /\ \A d \in Device : running[d][p] \in PolicyRow \cup {NoPolicy}
  BY DEF Types, TypeOK, PolicyRow
<1>2. \A r \in Request : request[r] \in Updating \cup Assigning => request[r].loaded \in PolicyRow
  BY DEF Updating, Assigning
<1>3. \A d \in Device : \A k \in DOMAIN wire[d] : RowOf(wire[d][k]) \in PolicyRow
  BY PushFacts
<1>4. policy[p] \in Copies(p) /\ Copies(p) \subseteq PolicyRow \cup {NoPolicy}
  BY <1>1 DEF Copies
<1>5. \A d \in Device : running[d][p] \in Copies(p)
  BY DEF Copies
<1>6. \A r \in Request : request[r] \in Updating \cup Assigning /\ request[r].policy = p =>
         request[r].loaded \in Copies(p)
  BY <1>2 DEF Copies
<1>7. \A d \in Device : \A k \in DOMAIN wire[d] :
         wire[d][k].policy = p => RowOf(wire[d][k]) \in Copies(p)
  BY <1>3 DEF Copies
<1> QED
  BY <1>4, <1>5, <1>6, <1>7

(* A policy that is not there yet has no copies.                           *)
LEMMA NoCopies ==
    ASSUME Types, NEW p \in Policy, configs[p] = {}
    PROVE  Copies(p) \subseteq {NoPolicy}
<1>1. policy[p] = NoPolicy /\ \A d \in Device : running[d][p] = NoPolicy
  BY DEF Types, TypeOK, Exists, AgentsOK
<1>2. ASSUME NEW r \in Request, request[r] \in Updating \cup Assigning
      PROVE  request[r].policy # p
  <2>1. request[r].loaded.config \in configs[request[r].policy]
    <3>1. RequestOK(request[r], configs) /\ request[r].at \in {"updating", "assigning", "pushing"}
      BY <1>2 DEF Types, RequestsOK, Updating, Assigning
    <3> QED
      BY <3>1, RequestFacts
  <2> QED
    BY <2>1
<1>3. \A d \in Device : \A k \in DOMAIN wire[d] : wire[d][k].policy # p
  BY PushFacts
<1> QED
  BY <1>1, <1>2, <1>3 DEF Copies

(* A request reads the row it works with from the database.                *)
LEMMA RequestFrom ==
    ASSUME Types, [Next]_vars, NEW r \in Request, request'[r] \in Updating \cup Assigning
    PROVE  \/ request'[r].loaded = policy[request'[r].policy]
           \/ /\ request[r] \in Updating \cup Assigning
              /\ request[r].policy = request'[r].policy /\ request[r].loaded = request'[r].loaded
<1> DEFINE Goal == \/ request'[r].loaded = policy[request'[r].policy]
                   \/ /\ request[r] \in Updating \cup Assigning
                      /\ request[r].policy = request'[r].policy
                      /\ request[r].loaded = request'[r].loaded
<1> USE DEF RequestsOK
<1>1. Idle \notin Updating \cup Assigning
  BY DEF Idle, Updating, Assigning
<1>2. CASE request'[r] = request[r]
  BY <1>2
<1>3. ASSUME NEW s \in Request, NEW p \in Policy, LoadUpdate(s, p) PROVE Goal
  <2>1. PICK c \in Config \cup {NoConfig} :
           request' = [request EXCEPT ![s] =
                          [at |-> "updating", policy |-> p, loaded |-> policy[p], config |-> c]]
    BY <1>3 DEF LoadUpdate
  <2> QED
    BY <1>2, <2>1 DEF Types
<1>4. ASSUME NEW s \in Request, NEW p \in Policy, LoadAssign(s, p) PROVE Goal
  <2>1. PICK targets \in Body :
           request' = [request EXCEPT ![s] =
              [at |-> "assigning", policy |-> p, loaded |-> policy[p], todo |-> targets,
               new |-> <<>>, devices |-> {}]]
    BY <1>4 DEF LoadAssign
  <2> QED
    BY <1>2, <2>1 DEF Types
<1>5. ASSUME NEW s \in Request, NEW g \in Group, SelectMembers(s, g) PROVE Goal
  <2>1. PICK new : request' = [request EXCEPT ![s] = [at |-> "adding", group |-> g, new |-> new]]
    BY <1>5 DEF SelectMembers
  <2>2. CASE s = r
    BY <2>1, <2>2 DEF Types, Updating, Assigning
  <2>3. CASE s # r
    BY <1>2, <2>1, <2>3 DEF Types
  <2> QED
    BY <2>2, <2>3
<1>6. ASSUME NEW s \in Request, CommitUpdate(s) \/ CommitMembers(s) \/ NobodyToPush(s) \/ RequestDies(s)
      PROVE  Goal
  <2>1. request' = [request EXCEPT ![s] = Idle]
    BY <1>6 DEF CommitUpdate, CommitMembers, NobodyToPush, RequestDies
  <2> QED
    BY <1>1, <1>2, <2>1 DEF Types
<1>7. ASSUME NEW s \in Request, NEW q, NEW todo, NEW new, NEW devices, q = request[s],
             q.at \in {"assigning", "pushing"},
             \/ request' = [request EXCEPT ![s] = Idle]
             \/ request' = [request EXCEPT ![s] = [q EXCEPT !.at = "pushing"]]
             \/ request' = [request EXCEPT ![s] = [q EXCEPT !.devices = devices]]
             \/ request' = [request EXCEPT ![s] =
                               [q EXCEPT !.todo = todo, !.new = new, !.devices = devices]]
      PROVE  Goal
  <2>1. q \in Assigning
    BY <1>7, AssigningFacts
  <2>2. CASE s = r
    <3>1. \/ request'[r] = [q EXCEPT !.at = "pushing"]
          \/ request'[r] = [q EXCEPT !.devices = devices]
          \/ request'[r] = [q EXCEPT !.todo = todo, !.new = new, !.devices = devices]
      BY <1>1, <1>7, <2>2 DEF Types
    <3>2. request'[r].policy = q.policy /\ request'[r].loaded = q.loaded
      BY <2>1, <3>1 DEF Assigning
    <3> QED
      BY <1>7, <2>1, <2>2, <3>2
  <2>3. CASE s # r
    BY <1>2, <1>7, <2>3 DEF Types
  <2> QED
    BY <2>2, <2>3
<1>8. ASSUME NEW s \in Request, SelectAssignment(s) PROVE Goal
  <2>1. PICK q : q = request[s] OBVIOUS
  <2>2. PICK todo, new, devices :
           \/ request' = [request EXCEPT ![s] = Idle]
           \/ request' = [request EXCEPT ![s] =
                             [q EXCEPT !.todo = todo, !.new = new, !.devices = devices]]
    BY <1>8, <2>1 DEF SelectAssignment
  <2> QED
    BY <1>7, <1>8, <2>1, <2>2 DEF SelectAssignment
<1>9. ASSUME NEW s \in Request, CommitAssign(s) PROVE Goal
  <2>1. PICK q : q = request[s] OBVIOUS
  <2>2. \/ request' = [request EXCEPT ![s] = Idle]
        \/ request' = [request EXCEPT ![s] = [q EXCEPT !.at = "pushing"]]
    BY <1>9, <2>1, SMTT(60) DEF CommitAssign, Types
  <2> QED
    BY <1>7, <1>9, <2>1, <2>2 DEF CommitAssign
<1>10. ASSUME NEW s \in Request, NEW d \in Device \cup Unknown, SendPolicy(s, d) PROVE Goal
  <2>1. PICK q : q = request[s] OBVIOUS
  <2>2. PICK devices :
           \/ request' = [request EXCEPT ![s] = Idle]
           \/ request' = [request EXCEPT ![s] = [q EXCEPT !.devices = devices]]
    BY <1>10, <2>1 DEF SendPolicy
  <2> QED
    BY <1>7, <1>10, <2>1, <2>2 DEF SendPolicy
<1> QED
  BY <1>2, <1>3, <1>4, <1>5, <1>6, <1>8, <1>9, <1>10 DEF Next, vars, CreatePolicy, DeletePolicy,
     CreateGroup, Connects, Disconnects, HandlePolicy, Execute

(* The copies after a step are copies of before, or of the row as it is.   *)
LEMMA CopiesFrom ==
    ASSUME Types, [Next]_vars, NEW p \in Policy, NEW x \in Copies(p)'
    PROVE  x \in Copies(p) \/ x = policy'[p]
<1> USE CopiesFacts
<1>1. ASSUME NEW d \in Device, x = running'[d][p]
      PROVE  x \in Copies(p)
  <2>1. CASE running' = running
    BY <1>1, <2>1
  <2>2. ASSUME NEW e \in Device, HandlePolicy(e)
        PROVE  x \in Copies(p)
    <3>1. 1 \in DOMAIN wire[e] /\ running'[e][wire[e][1].policy] = RowOf(wire[e][1])
      BY <2>2, HandlePolicyFacts
    <3>2. \A y \in Device, z \in Policy :
             ~(y = e /\ z = wire[e][1].policy) => running'[y][z] = running[y][z]
      BY <2>2, HandlePolicyFacts
    <3> QED
      BY <1>1, <3>1, <3>2
  <2> QED
    BY <2>1, <2>2 DEF Next, vars, agents, CreatePolicy, DeletePolicy, CreateGroup, LoadUpdate,
       LoadAssign, SelectMembers, CommitUpdate, CommitMembers, SelectAssignment, CommitAssign,
       SendPolicy, NobodyToPush, RequestDies, Connects, Disconnects
<1>2. ASSUME NEW r \in Request, request'[r] \in Updating \cup Assigning,
             request'[r].policy = p, request'[r].loaded = x
      PROVE  x \in Copies(p)
  BY <1>2, RequestFrom
<1>3. ASSUME NEW d \in Device, NEW k \in DOMAIN wire'[d], wire'[d][k].policy = p, RowOf(wire'[d][k]) = x
      PROVE  x \in Copies(p)
  <2>1. CASE \E j \in DOMAIN wire[d] : wire'[d][k] = wire[d][j]
    BY <1>3, <2>1
  <2>2. CASE \E r \in Request : /\ request[r] \in Assigning
                                /\ wire'[d][k].policy = request[r].policy
                                /\ RowOf(wire'[d][k]) = request[r].loaded
    BY <1>3, <2>2
  <2> QED
    BY <2>1, <2>2, WireFrom
<1>4. \/ x = policy'[p] \/ \E d \in Device : x = running'[d][p]
      \/ \E r \in Request : /\ request'[r] \in Updating \cup Assigning
                            /\ request'[r].policy = p /\ request'[r].loaded = x
      \/ \E d \in Device : \E k \in DOMAIN wire'[d] : wire'[d][k].policy = p /\ RowOf(wire'[d][k]) = x
  BY SMTT(60) DEF Copies, RowOf
<1> QED
  BY <1>1, <1>2, <1>3, <1>4

(* The row of a policy is created, deleted, or updated: to a newer version *)
(* than any other unless the update overwrites another one.                *)
LEMMA RowMoves ==
    ASSUME VersionsInv, [Next]_vars, NEW p \in Policy, p \notin raced', policy'[p] # policy[p]
    PROVE  \/ policy'[p] = NoPolicy
           \/ policy'[p] \in PolicyRow /\ \A x \in Copies(p) : x.version < policy'[p].version
<1> DEFINE Goal == \/ policy'[p] = NoPolicy
                   \/ policy'[p] \in PolicyRow /\ \A x \in Copies(p) : x.version < policy'[p].version
<1> USE DEF VersionsInv
<1>1. ASSUME NEW o \in Policy, CreatePolicy(o)
      PROVE  Goal
  <2>1. PICK c \in Config : policy' = [policy EXCEPT ![o] = [config |-> c, version |-> 1]]
    BY <1>1 DEF CreatePolicy
  <2>2. o = p /\ policy'[p] = [config |-> c, version |-> 1] /\ configs[p] = {}
    BY <1>1, <2>1 DEF Types, TypeOK, CreatePolicy
  <2>3. 1 \in 1 .. MaxVersion
    BY PolicyAssumption
  <2>4. policy'[p] \in PolicyRow /\ policy'[p].version = 1
    BY <2>2, <2>3, RowFacts
  <2>5. \A x \in Copies(p) : x.version = 0
    BY <2>2, NoCopies DEF NoPolicy
  <2> QED
    BY <2>4, <2>5
<1>2. ASSUME NEW o \in Policy, DeletePolicy(o)
      PROVE  Goal
  BY <1>2 DEF DeletePolicy, Types, TypeOK
<1>3. ASSUME NEW r \in Request, CommitUpdate(r)
      PROVE  Goal
  <2> DEFINE q == request[r]
  <2>1. q.at = "updating"
    BY <1>3 DEF CommitUpdate
  <2>2. Exists(q.policy)
    BY <1>3 DEF CommitUpdate
  <2>3. PICK row : /\ policy' = [policy EXCEPT ![q.policy] = row]
                   /\ row \in PolicyRow /\ row.version = q.loaded.version + 1
    <3>1. PICK config : /\ policy' = [policy EXCEPT ![q.policy] =
                                         [config |-> config, version |-> q.loaded.version + 1]]
                        /\ config = IF q.config \in {NoConfig, q.loaded.config}
                                    THEN policy[q.policy].config ELSE q.config
      BY <1>3, <2>2 DEF CommitUpdate
    <3>2. [config |-> config, version |-> q.loaded.version + 1] \in PolicyRow
      BY <2>1, <2>2, <3>1, UpdateFacts
    <3>3. PICK row : row = [config |-> config, version |-> q.loaded.version + 1]
      OBVIOUS
    <3>4. policy' = [policy EXCEPT ![q.policy] = row] /\ row.version = q.loaded.version + 1
      BY <3>1, <3>3
    <3> QED
      BY <3>2, <3>3, <3>4
  <2>4. q.policy = p /\ policy'[p] = row
    BY <2>3 DEF Types, TypeOK
  <2>5. policy[p].version = q.loaded.version
    BY <1>3, <2>2, <2>4 DEF CommitUpdate
  <2>6. p \notin raced
    BY <1>3, <2>2 DEF CommitUpdate
  <2>7. /\ \A x \in Copies(p) : x.version <= policy[p].version
        /\ \A x \in Copies(p) \cup {policy[p]} : x.version \in Nat
    <3>1. \A x \in PolicyRow \cup {NoPolicy} : x.version \in Nat
      BY SMTT(60) DEF PolicyRow, NoPolicy
    <3> QED
      BY <2>2, <2>4, <2>6, <3>1, CopiesFacts DEF OneRowPerVersion
  <2> QED
    BY <2>3, <2>4, <2>5, <2>7
<1> QED
  BY <1>1, <1>2, <1>3 DEF Next, vars, database, CreateGroup, LoadUpdate, LoadAssign, SelectMembers,
     CommitMembers, SelectAssignment, CommitAssign, SendPolicy, NobodyToPush, RequestDies, Connects,
     Disconnects, HandlePolicy, Execute

LEMMA RacedGrows ==
    ASSUME [Next]_vars
    PROVE  raced \subseteq raced'
BY DEF Next, vars, CreatePolicy, DeletePolicy, CreateGroup, LoadUpdate, LoadAssign, SelectMembers,
   CommitUpdate, CommitMembers, SelectAssignment, CommitAssign, SendPolicy, NobodyToPush,
   RequestDies, Connects, Disconnects, HandlePolicy, Execute

LEMMA OneRowStep ==
    ASSUME VersionsInv, [Next]_vars
    PROVE  OneRowPerVersion'
<1> USE DEF VersionsInv
<1> SUFFICES ASSUME NEW p \in Policy, p \notin raced', NEW x \in Copies(p)', NEW y \in Copies(p)'
             PROVE  /\ x.version = y.version => x = y
                    /\ Exists(p)' => x.version <= policy'[p].version
  BY DEF OneRowPerVersion
<1>1. p \notin raced
  BY RacedGrows
<1>2. \A a \in PolicyRow \cup {NoPolicy} : a.version \in Nat /\ (a.version = 0 <=> a = NoPolicy)
  BY DEF PolicyRow, NoPolicy
<1>3. /\ x \in Copies(p) \/ x = policy'[p]
      /\ y \in Copies(p) \/ y = policy'[p]
      /\ policy[p] \in Copies(p) /\ Copies(p) \subseteq PolicyRow \cup {NoPolicy}
  BY CopiesFrom, CopiesFacts
<1>4. \A a, b \in Copies(p) :
         /\ a.version = b.version => a = b
         /\ Exists(p) => a.version <= policy[p].version
  BY <1>1 DEF OneRowPerVersion
<1>5. CASE policy'[p] = policy[p]
  BY <1>3, <1>4, <1>5 DEF Exists
<1>6. CASE policy'[p] = NoPolicy
  BY <1>2, <1>3, <1>4, <1>6 DEF Exists
<1>7. CASE policy'[p] \in PolicyRow /\ \A a \in Copies(p) : a.version < policy'[p].version
  BY <1>2, <1>3, <1>4, <1>7
<1> QED
  BY <1>5, <1>6, <1>7, RowMoves

(* The version of a push and the row it carries.                           *)
LEMMA PushVersions ==
    ASSUME Types, NEW p \in Policy, NEW d \in Device
    PROVE  /\ running[d][p].version \in Nat
           /\ \A k \in DOMAIN wire[d] :
                 /\ wire[d][k].version \in Nat
                 /\ RowOf(wire[d][k]).version = wire[d][k].version
<1>1. running[d][p] \in PolicyRow \cup {NoPolicy}
  BY CopiesFacts
<1>2. \A k \in DOMAIN wire[d] : wire[d][k] \in Push
  BY PushFacts
<1> QED
  BY <1>1, <1>2 DEF PolicyRow, NoPolicy, Push, RowOf

(* A push of the row as it is is not older than what was sent before it.   *)
LEMMA SendPolicyFresh ==
    ASSUME VersionsInv, NEW r \in Request, NEW e \in Device \cup Unknown, SendPolicy(r, e)
    PROVE  FreshPushes'
<1> USE DEF VersionsInv
<1>1. PICK push \in Push :
         push = [policy |-> request[r].policy, config |-> request[r].loaded.config,
                 version |-> request[r].loaded.version,
                 stale |-> policy[request[r].policy] # request[r].loaded]
  BY SendPolicyFacts
<1>2. /\ RowOf(push) = request[r].loaded /\ request[r].loaded \in PolicyRow
      /\ \/ wire' = wire
         \/ e \in Device /\ wire' = [wire EXCEPT ![e] = Append(@, push)]
  BY <1>1, SendPolicyFacts, AssigningFacts
<1>3. UNCHANGED <<policy, running, raced>>
  BY DEF SendPolicy, database
<1>4. CASE wire' = wire
  BY <1>3, <1>4 DEF FreshPushes
<1>5. CASE e \in Device /\ wire' = [wire EXCEPT ![e] = Append(@, push)]
  <2>1. /\ \A x \in Device \ {e} : wire'[x] = wire[x]
        /\ \A k \in DOMAIN wire'[e] :
              \/ k \in DOMAIN wire[e] /\ wire'[e][k] = wire[e][k]
              \/ k = Len(wire[e]) + 1 /\ wire'[e][k] = push
    <3>1. e \in Device /\ wire' = [wire EXCEPT ![e] = Append(@, push)]
      BY <1>5
    <3> QED
      BY <3>1, WireGrows, ZenonT(60)
  <2>2. wire[e] \in Seq(Push)
    BY <1>5, PushFacts
  <2>3. \A i \in 1 .. Len(wire[e]) : wire'[e][i] = wire[e][i]
    BY <1>5, <2>2 DEF Types, TypeOK
  <2> SUFFICES ASSUME NEW p \in Policy, p \notin raced, NEW d \in Device, NEW j \in DOMAIN wire'[d],
                      wire'[d][j].policy = p, ~wire'[d][j].stale
               PROVE  /\ running[d][p].version <= wire'[d][j].version
                      /\ \A i \in 1 .. j - 1 :
                            wire'[d][i].policy = p => wire'[d][i].version <= wire'[d][j].version
    BY <1>3 DEF FreshPushes
  <2>4. CASE d # e
    BY <2>1, <2>4 DEF FreshPushes
  <2>5. CASE d = e /\ j \in DOMAIN wire[e] /\ wire'[e][j] = wire[e][j]
    <3>1. \A i \in 1 .. j - 1 : i \in 1 .. Len(wire[e])
      BY <2>2, <2>5
    <3> QED
      BY <2>3, <2>5, <3>1 DEF FreshPushes
  <2>6. CASE d = e /\ j = Len(wire[e]) + 1 /\ wire'[e][j] = push
    <3>1. push.policy = p /\ ~push.stale
      BY <2>6
    <3>2. policy[p] = RowOf(push) /\ Exists(p)
      BY <1>1, <1>2, <3>1, RowFacts DEF Exists
    <3>3. \A x \in Copies(p) : x.version <= push.version
      BY <3>2 DEF OneRowPerVersion, RowOf
    <3>4. running[d][p].version <= push.version
      BY <3>3, CopiesFacts
    <3>5. ASSUME NEW i \in 1 .. Len(wire[e]), wire[e][i].policy = p
          PROVE  wire[e][i].version <= push.version
      <4>1. i \in DOMAIN wire[e]
        BY <2>2
      <4> QED
        BY <1>5, <3>3, <3>5, <4>1, CopiesFacts, PushVersions
    <3>6. \A i \in 1 .. j - 1 : i \in 1 .. Len(wire[e])
      BY <2>2, <2>6
    <3> QED
      BY <2>3, <2>6, <3>4, <3>5, <3>6
  <2> QED
    BY <2>1, <2>4, <2>5, <2>6
<1> QED
  BY <1>2, <1>4, <1>5

LEMMA HandlePolicyFresh ==
    ASSUME VersionsInv, NEW e \in Device, HandlePolicy(e)
    PROVE  FreshPushes'
<1> USE DEF VersionsInv
<1>1. PICK push \in Push : push = wire[e][1]
  BY HandlePolicyFacts
<1>2. /\ 1 \in DOMAIN wire[e] /\ push.policy \in Policy /\ raced' = raced
      /\ \A x \in Device \ {e} : wire'[x] = wire[x]
      /\ \A k \in DOMAIN wire'[e] : k + 1 \in DOMAIN wire[e] /\ wire'[e][k] = wire[e][k + 1]
  BY <1>1, HandlePolicyFacts
<1>3. /\ running'[e][push.policy] = RowOf(push)
      /\ \A x \in Device, p \in Policy :
            ~(x = e /\ p = push.policy) => running'[x][p] = running[x][p]
  BY <1>1, HandlePolicyFacts
<1>4. wire'[e] \in Seq(Push)
  BY HandlePolicyFacts
<1> SUFFICES ASSUME NEW p \in Policy, p \notin raced, NEW d \in Device, NEW j \in DOMAIN wire'[d],
                    wire'[d][j].policy = p, ~wire'[d][j].stale
             PROVE  /\ running'[d][p].version <= wire'[d][j].version
                    /\ \A i \in 1 .. j - 1 :
                          wire'[d][i].policy = p => wire'[d][i].version <= wire'[d][j].version
  BY <1>2 DEF FreshPushes
<1>5. CASE d # e
  BY <1>2, <1>3, <1>5 DEF FreshPushes
<1>6. CASE d = e
  <2>1. /\ j \in Nat \ {0} /\ j + 1 \in DOMAIN wire[e] /\ wire'[e][j] = wire[e][j + 1]
        /\ \A i \in 1 .. j - 1 : i \in DOMAIN wire'[e]
    BY <1>2, <1>4, <1>6
  <2>2. /\ running[e][p].version <= wire[e][j + 1].version
        /\ \A i \in 1 .. (j + 1) - 1 :
              wire[e][i].policy = p => wire[e][i].version <= wire[e][j + 1].version
    BY <1>6, <2>1 DEF FreshPushes
  <2>3. running'[e][p].version <= wire[e][j + 1].version
    <3>1. CASE p = push.policy
      <4>1. running'[e][p].version = wire[e][1].version
        BY <1>1, <1>3, <3>1 DEF RowOf
      <4>2. 1 \in 1 .. (j + 1) - 1
        BY <2>1
      <4> QED
        BY <1>1, <2>2, <3>1, <4>1, <4>2
    <3>2. CASE p # push.policy
      BY <1>3, <2>2, <3>2
    <3> QED
      BY <3>1, <3>2
  <2>4. ASSUME NEW i \in 1 .. j - 1, wire'[e][i].policy = p
        PROVE  wire'[e][i].version <= wire[e][j + 1].version
    <3>1. wire'[e][i] = wire[e][i + 1] /\ i + 1 \in 1 .. (j + 1) - 1
      BY <1>2, <2>1
    <3> QED
      BY <2>2, <2>4, <3>1
  <2> QED
    BY <1>6, <2>1, <2>3, <2>4
<1> QED
  BY <1>5, <1>6

LEMMA FreshStep ==
    ASSUME VersionsInv, [Next]_vars
    PROVE  FreshPushes'
<1> USE DEF VersionsInv
<1>1. CASE UNCHANGED <<wire, running>>
  BY <1>1, RacedGrows DEF FreshPushes
<1>2. ASSUME NEW e \in Device, Disconnects(e)
      PROVE  FreshPushes'
  <2>1. /\ wire'[e] = <<>> /\ \A x \in Device \ {e} : wire'[x] = wire[x]
        /\ UNCHANGED <<running, raced>>
    BY <1>2 DEF Disconnects, Types, TypeOK
  <2> QED
    BY <2>1 DEF FreshPushes
<1> QED
  BY <1>1, <1>2, SendPolicyFresh, HandlePolicyFresh DEF Next, vars, agents, CreatePolicy,
     DeletePolicy, CreateGroup, LoadUpdate, LoadAssign, SelectMembers, CommitUpdate, CommitMembers,
     SelectAssignment, CommitAssign, NobodyToPush, RequestDies, Connects

LEMMA VersionsInit == Init => VersionsInv
<1> SUFFICES ASSUME Init PROVE VersionsInv
  OBVIOUS
<1>1. Types
  BY TypesInit
<1>2. OneRowPerVersion
  <2>1. \A p \in Policy : Copies(p) \subseteq {NoPolicy} /\ ~Exists(p)
    BY <1>1, NoCopies DEF Init, Exists
  <2> QED
    BY <2>1 DEF OneRowPerVersion
<1>3. FreshPushes
  BY DEF Init, FreshPushes
<1> QED
  BY <1>1, <1>2, <1>3 DEF VersionsInv

(* A device that executes a push gets a newer version of the policy than   *)
(* the one it has, or that one again, unless an update of the policy was   *)
(* lost or the push was sent by a request that had read an older row.      *)
LEMMA HandlePolicyNotBack ==
    ASSUME VersionsInv, NEW e \in Device, HandlePolicy(e), NEW d \in Device, NEW p \in Policy
    PROVE  \/ running'[d][p] = running[d][p]
           \/ running'[d][p].version > running[d][p].version
           \/ p \in raced
           \/ \E k \in DOMAIN wire[d] : wire[d][k].policy = p /\ wire[d][k].stale
<1> USE DEF VersionsInv
<1>1. /\ 1 \in DOMAIN wire[e] /\ running'[e][wire[e][1].policy] = RowOf(wire[e][1])
      /\ ~(d = e /\ p = wire[e][1].policy) => running'[d][p] = running[d][p]
  BY HandlePolicyFacts
<1>2. CASE d = e /\ p = wire[e][1].policy /\ ~wire[e][1].stale /\ p \notin raced
  <2>1. running[e][p].version <= wire[e][1].version
    BY <1>1, <1>2 DEF FreshPushes
  <2>2. /\ running[e][p] \in Copies(p) /\ RowOf(wire[e][1]) \in Copies(p)
        /\ RowOf(wire[e][1]).version = wire[e][1].version
        /\ running[e][p].version \in Nat /\ wire[e][1].version \in Nat
    BY <1>1, <1>2, CopiesFacts, PushVersions
  <2>3. running[e][p].version = wire[e][1].version => running[e][p] = RowOf(wire[e][1])
    BY <1>2, <2>2 DEF OneRowPerVersion
  <2> QED
    BY <1>1, <1>2, <2>1, <2>2, <2>3
<1> QED
  BY <1>1, <1>2

(* No interleaving of updates, deletions, assignments, pushes, losses of   *)
(* the connection and executions takes a device back to an older version   *)
(* of a policy, or to another configuration under the same number, but for *)
(* a lost update or a push of a row that was no longer the current one.    *)
THEOREM NotBack == Spec => NeverBack
<1>1. VersionsInv /\ [Next]_vars => VersionsInv'
  BY TypesStep, OneRowStep, FreshStep DEF VersionsInv
<1>2. VersionsInv /\ [Next]_vars =>
         [\A d \in Device : \A p \in Policy :
             \/ running'[d][p] = running[d][p]
             \/ running'[d][p].version > running[d][p].version
             \/ p \in raced
             \/ \E k \in DOMAIN wire[d] : wire[d][k].policy = p /\ wire[d][k].stale]_vars
  <2>1. [Next]_vars => running' = running \/ \E e \in Device : HandlePolicy(e)
    BY DEF Next, vars, agents, CreatePolicy, DeletePolicy, CreateGroup, LoadUpdate, LoadAssign,
       SelectMembers, CommitUpdate, CommitMembers, SelectAssignment, CommitAssign, SendPolicy,
       NobodyToPush, RequestDies, Connects, Disconnects
  <2> QED
    BY <2>1, HandlePolicyNotBack, SMTT(60)
<1> QED
  BY <1>1, <1>2, VersionsInit, PTL DEF Spec, NeverBack
=============================================================================
