---------------------------- MODULE RolloutProofs ----------------------------
(***************************************************************************)
(* Theorems about Rollout, for any sets of workers, devices, packages,     *)
(* updates and requests and any bounds.                                    *)
(***************************************************************************)
EXTENDS Rollout, TLAPS

Deploying ==
    [at : {"deploying"}, worker : Worker, package : Package, action : Action,
     todo : Seq(Device \cup Unknown), rows : UNION {[S -> Flushed] : S \in SUBSET RowId}]

(* A request that deploys has found its package, and the rows it has       *)
(* flushed are its own.                                                    *)
RequestsOK ==
    /\ request \in [Request -> Deploying \cup {Idle}]
    /\ \A r \in Request : request[r] # Idle => package[request[r].package] # NoPackage
    /\ \A r \in Request : \A i \in DOMAIN request[r].rows :
          i <= flushed /\ request[r].rows[i].package = request[r].package
    /\ \A r, s \in Request : \A i \in DOMAIN request[r].rows :
          i \in DOMAIN request[s].rows => r = s

(* What was sent to a device stands in line: first what was run, then the  *)
(* tasks of the agent, then what is on the wire, each in the order of      *)
(* sending; n deployments were flushed.                                    *)
Earlier(a, b) == Dispatched(a) /\ Dispatched(b) => a.id < b.id

InLine(onWire, made, done, n) ==
    /\ \A j, k \in 1 .. Len(onWire) : j < k => Earlier(onWire[j], onWire[k])
    /\ \A j, k \in 1 .. Len(made) : j < k => Earlier(made[j], made[k])
    /\ \A j, k \in 1 .. Len(done) : j < k => done[j] < done[k]
    /\ \A j \in 1 .. Len(made), k \in 1 .. Len(onWire) : Earlier(made[j], onWire[k])
    /\ \A j \in 1 .. Len(done), k \in 1 .. Len(onWire) :
          Dispatched(onWire[k]) => done[j] < onWire[k].id
    /\ \A j \in 1 .. Len(done), k \in 1 .. Len(made) :
          Dispatched(made[k]) => done[j] < made[k].id
    /\ \A k \in 1 .. Len(onWire) : Dispatched(onWire[k]) => onWire[k].id <= n
    /\ \A k \in 1 .. Len(made) : Dispatched(made[k]) => made[k].id <= n
    /\ \A k \in 1 .. Len(done) : done[k] <= n

OrderOK == \A d \in Device : InLine(wire[d], tasks[d], ran[d], flushed)

Inv == TypeOK /\ RequestsOK /\ OrderOK

-----------------------------------------------------------------------------
LEMMA IdleType == Idle.rows = <<>> /\ DOMAIN Idle.rows = {} /\ Idle.at = "idle"
  BY DEF Idle

\* The number of a deployment, and where messages have one.
LEMMA MessageId ==
    \A m \in Message : Dispatched(m) => m.id \in RowId /\ m.id \in Nat /\ m.package \in Package
  BY DEF Message, Dispatched, RowId

LEMMA Queue ==
    ASSUME NEW S, NEW s \in Seq(S)
    PROVE  /\ Len(s) \in Nat
           /\ \A k \in 1 .. Len(s) : s[k] \in S
           /\ s # <<>> => /\ Head(s) = s[1] /\ Head(s) \in S /\ 1 \in 1 .. Len(s)
                          /\ Tail(s) \in Seq(S) /\ Len(Tail(s)) = Len(s) - 1
                          /\ \A k \in 1 .. Len(Tail(s)) :
                                k \in 1 .. Len(s) /\ k + 1 \in 1 .. Len(s) /\ Tail(s)[k] = s[k + 1]
           /\ \A x \in S : /\ Append(s, x) \in Seq(S) /\ Len(Append(s, x)) = Len(s) + 1
                           /\ \A k \in 1 .. Len(Append(s, x)) :
                                 \/ k \in 1 .. Len(s) /\ Append(s, x)[k] = s[k]
                                 \/ k = Len(s) + 1 /\ Append(s, x)[k] = x
  OBVIOUS

-----------------------------------------------------------------------------
(* What each move does to the line.                                        *)

\* A message is sent: it is the last one.
LEMMA LineSend ==
    ASSUME NEW w \in Seq(Message), NEW t \in Seq(Message), NEW r \in Seq(RowId),
           NEW n \in Nat, NEW p \in Nat, n <= p, InLine(w, t, r, n),
           NEW m \in Message, Dispatched(m) => n < m.id /\ m.id <= p
    PROVE  InLine(Append(w, m), t, r, p)
  <1> DEFINE v == Append(w, m)
  <1>1. \A k \in 1 .. Len(v) : (k \in 1 .. Len(w) /\ v[k] = w[k]) \/ (k = Len(w) + 1 /\ v[k] = m)
    BY Queue
  <1>2. Len(w) \in Nat /\ Len(r) \in Nat /\ \A k \in 1 .. Len(r) : r[k] \in Nat
    <2>1. Len(w) \in Nat
      BY Queue
    <2>2. Len(r) \in Nat /\ \A k \in 1 .. Len(r) : r[k] \in RowId
      BY Queue
    <2> QED BY <2>1, <2>2 DEF RowId
  <1>3. /\ \A k \in 1 .. Len(w) : Dispatched(w[k]) => w[k].id \in Nat
        /\ \A k \in 1 .. Len(t) : Dispatched(t[k]) => t[k].id \in Nat
        /\ Dispatched(m) => m.id \in Nat
    BY Queue, MessageId
  <1> HIDE DEF v
  <1>4. \A j, k \in 1 .. Len(v) : j < k => Earlier(v[j], v[k])
    <2> SUFFICES ASSUME NEW j \in 1 .. Len(v), NEW k \in 1 .. Len(v), j < k
                 PROVE  Earlier(v[j], v[k])
      OBVIOUS
    <2>1. j \in 1 .. Len(w) /\ v[j] = w[j]
      BY <1>1, <1>2
    <2>2. CASE k \in 1 .. Len(w) /\ v[k] = w[k]
      BY <2>1, <2>2 DEF InLine
    <2>3. CASE v[k] = m
      BY <1>3, <2>1, <2>3 DEF InLine, Earlier
    <2> QED BY <1>1, <2>2, <2>3
  <1>5. \A j \in 1 .. Len(t), k \in 1 .. Len(v) : Earlier(t[j], v[k])
    <2> SUFFICES ASSUME NEW j \in 1 .. Len(t), NEW k \in 1 .. Len(v)
                 PROVE  Earlier(t[j], v[k])
      OBVIOUS
    <2>1. CASE k \in 1 .. Len(w) /\ v[k] = w[k]
      BY <2>1 DEF InLine
    <2>2. CASE v[k] = m
      <3>1. Dispatched(t[j]) => t[j].id \in Nat /\ t[j].id <= n
        BY <1>3 DEF InLine
      <3> QED BY <1>3, <2>2, <3>1 DEF Earlier
    <2> QED BY <1>1, <2>1, <2>2
  <1>6. \A j \in 1 .. Len(r), k \in 1 .. Len(v) : Dispatched(v[k]) => r[j] < v[k].id
    <2> SUFFICES ASSUME NEW j \in 1 .. Len(r), NEW k \in 1 .. Len(v), Dispatched(v[k])
                 PROVE  r[j] < v[k].id
      OBVIOUS
    <2>1. CASE k \in 1 .. Len(w) /\ v[k] = w[k]
      BY <2>1 DEF InLine
    <2>2. CASE v[k] = m
      <3>1. r[j] \in Nat /\ r[j] <= n /\ m.id \in Nat /\ n < m.id
        BY <1>2, <1>3, <2>2 DEF InLine
      <3> QED BY <2>2, <3>1
    <2> QED BY <1>1, <2>1, <2>2
  <1>7. \A k \in 1 .. Len(v) : Dispatched(v[k]) => v[k].id <= p
    <2> SUFFICES ASSUME NEW k \in 1 .. Len(v), Dispatched(v[k])
                 PROVE  v[k].id <= p
      OBVIOUS
    <2>1. CASE k \in 1 .. Len(w) /\ v[k] = w[k]
      <3>1. v[k].id \in Nat /\ v[k].id <= n
        BY <1>3, <2>1 DEF InLine
      <3> QED BY <3>1
    <2>2. CASE v[k] = m
      BY <2>2
    <2> QED BY <1>1, <2>1, <2>2
  <1>8. /\ \A k \in 1 .. Len(t) : Dispatched(t[k]) => t[k].id <= p
        /\ \A k \in 1 .. Len(r) : r[k] <= p
    <2>1. ASSUME NEW k \in 1 .. Len(t), Dispatched(t[k]) PROVE t[k].id <= p
      <3>1. t[k].id \in Nat /\ t[k].id <= n
        BY <1>3, <2>1 DEF InLine
      <3> QED BY <3>1
    <2>2. ASSUME NEW k \in 1 .. Len(r) PROVE r[k] <= p
      <3>1. r[k] \in Nat /\ r[k] <= n
        BY <1>2, <2>2 DEF InLine
      <3> QED BY <3>1
    <2> QED BY <2>1, <2>2
  <1>9. InLine(v, t, r, p)
    BY <1>4, <1>5, <1>6, <1>7, <1>8 DEF InLine
  <1> QED BY <1>9 DEF v

\* A deployment is flushed and sent to nobody.
LEMMA LineFlush ==
    ASSUME NEW w \in Seq(Message), NEW t \in Seq(Message), NEW r \in Seq(RowId),
           NEW n \in Nat, InLine(w, t, r, n)
    PROVE  InLine(w, t, r, n + 1)
  <1>1. /\ \A k \in 1 .. Len(w) : Dispatched(w[k]) => w[k].id \in Nat
        /\ \A k \in 1 .. Len(t) : Dispatched(t[k]) => t[k].id \in Nat
    BY Queue, MessageId
  <1>2. \A k \in 1 .. Len(r) : r[k] \in RowId
    BY Queue
  <1>3. /\ \A k \in 1 .. Len(w) : Dispatched(w[k]) => w[k].id <= n + 1
        /\ \A k \in 1 .. Len(t) : Dispatched(t[k]) => t[k].id <= n + 1
    BY <1>1 DEF InLine
  <1>4. \A k \in 1 .. Len(r) : r[k] <= n + 1
    BY <1>2 DEF InLine, RowId
  <1> QED BY <1>3, <1>4 DEF InLine

\* What is on the wire, or in the agent's memory, is lost.
LEMMA LineLost ==
    ASSUME NEW w, NEW t, NEW r, NEW n, InLine(w, t, r, n)
    PROVE  InLine(<<>>, t, r, n) /\ InLine(<<>>, <<>>, r, n)
  BY DEF InLine

\* The agent makes a task of the next message.
LEMMA LineReceive ==
    ASSUME NEW w \in Seq(Message), NEW t \in Seq(Message), NEW r \in Seq(RowId),
           NEW n \in Nat, InLine(w, t, r, n), w # <<>>
    PROVE  InLine(Tail(w), Append(t, Head(w)), r, n)
  <1> DEFINE v == Tail(w)
             u == Append(t, Head(w))
  <1>1. /\ Head(w) = w[1] /\ 1 \in 1 .. Len(w) /\ Head(w) \in Message
        /\ \A k \in 1 .. Len(v) : k + 1 \in 1 .. Len(w) /\ v[k] = w[k + 1]
    BY Queue
  <1>2. \A k \in 1 .. Len(u) : (k \in 1 .. Len(t) /\ u[k] = t[k]) \/ (k = Len(t) + 1 /\ u[k] = w[1])
    BY <1>1, Queue
  <1>3. Len(t) \in Nat
    BY Queue
  <1> HIDE DEF v, u
  <1>4. \A j, k \in 1 .. Len(v) : j < k => Earlier(v[j], v[k])
    <2> SUFFICES ASSUME NEW j \in 1 .. Len(v), NEW k \in 1 .. Len(v), j < k
                 PROVE  Earlier(v[j], v[k])
      OBVIOUS
    <2>1. j + 1 \in 1 .. Len(w) /\ k + 1 \in 1 .. Len(w) /\ j + 1 < k + 1
      BY <1>1
    <2>2. Earlier(w[j + 1], w[k + 1])
      BY <2>1 DEF InLine
    <2> QED BY <1>1, <2>2
  <1>5. \A j, k \in 1 .. Len(u) : j < k => Earlier(u[j], u[k])
    <2> SUFFICES ASSUME NEW j \in 1 .. Len(u), NEW k \in 1 .. Len(u), j < k
                 PROVE  Earlier(u[j], u[k])
      OBVIOUS
    <2>1. j \in 1 .. Len(t) /\ u[j] = t[j]
      BY <1>2, <1>3
    <2> QED BY <1>1, <1>2, <2>1 DEF InLine
  <1>6. \A j \in 1 .. Len(u), k \in 1 .. Len(v) : Earlier(u[j], v[k])
    <2> SUFFICES ASSUME NEW j \in 1 .. Len(u), NEW k \in 1 .. Len(v)
                 PROVE  Earlier(u[j], v[k])
      OBVIOUS
    <2>1. k + 1 \in 1 .. Len(w) /\ v[k] = w[k + 1] /\ 1 < k + 1
      BY <1>1
    <2>2. CASE j \in 1 .. Len(t) /\ u[j] = t[j]
      BY <2>1, <2>2 DEF InLine
    <2>3. CASE u[j] = w[1]
      <3>1. Earlier(w[1], w[k + 1])
        BY <1>1, <2>1 DEF InLine
      <3> QED BY <2>1, <2>3, <3>1
    <2> QED BY <1>2, <2>2, <2>3
  <1>7. /\ \A j \in 1 .. Len(r), k \in 1 .. Len(v) : Dispatched(v[k]) => r[j] < v[k].id
        /\ \A k \in 1 .. Len(v) : Dispatched(v[k]) => v[k].id <= n
    BY <1>1 DEF InLine
  <1>8. /\ \A j \in 1 .. Len(r), k \in 1 .. Len(u) : Dispatched(u[k]) => r[j] < u[k].id
        /\ \A k \in 1 .. Len(u) : Dispatched(u[k]) => u[k].id <= n
    BY <1>1, <1>2 DEF InLine
  <1>9. InLine(v, u, r, n)
    BY <1>4, <1>5, <1>6, <1>7, <1>8 DEF InLine
  <1> QED BY <1>9 DEF v, u

\* A task begins: it goes out of the line, or to its end if it is run.
LEMMA LineBegin ==
    ASSUME NEW w \in Seq(Message), NEW t \in Seq(Message), NEW r \in Seq(RowId),
           NEW n \in Nat, InLine(w, t, r, n), t # <<>>
    PROVE  /\ InLine(w, Tail(t), r, n)
           /\ Dispatched(Head(t)) => InLine(w, Tail(t), Append(r, Head(t).id), n)
  <1> DEFINE u == Tail(t)
  <1>1. /\ Head(t) = t[1] /\ 1 \in 1 .. Len(t) /\ Head(t) \in Message
        /\ \A k \in 1 .. Len(u) : k + 1 \in 1 .. Len(t) /\ u[k] = t[k + 1]
    BY Queue
  <1> HIDE DEF u
  <1>2. \A j, k \in 1 .. Len(u) : j < k => Earlier(u[j], u[k])
    <2> SUFFICES ASSUME NEW j \in 1 .. Len(u), NEW k \in 1 .. Len(u), j < k
                 PROVE  Earlier(u[j], u[k])
      OBVIOUS
    <2>1. j + 1 \in 1 .. Len(t) /\ k + 1 \in 1 .. Len(t) /\ j + 1 < k + 1
      BY <1>1
    <2>2. Earlier(t[j + 1], t[k + 1])
      BY <2>1 DEF InLine
    <2> QED BY <1>1, <2>2
  <1>3. \A j \in 1 .. Len(u), k \in 1 .. Len(w) : Earlier(u[j], w[k])
    BY <1>1 DEF InLine
  <1>4. /\ \A j \in 1 .. Len(r), k \in 1 .. Len(u) : Dispatched(u[k]) => r[j] < u[k].id
        /\ \A k \in 1 .. Len(u) : Dispatched(u[k]) => u[k].id <= n
    BY <1>1 DEF InLine
  <1>5. InLine(w, u, r, n)
    BY <1>2, <1>3, <1>4 DEF InLine
  <1>6. ASSUME Dispatched(Head(t)) PROVE InLine(w, u, Append(r, Head(t).id), n)
    <2> DEFINE i == Head(t).id
               s == Append(r, i)
    <2>1. i \in RowId /\ i = t[1].id /\ Dispatched(t[1])
      BY <1>1, <1>6, MessageId
    <2>2. \A k \in 1 .. Len(s) : (k \in 1 .. Len(r) /\ s[k] = r[k]) \/ (k = Len(r) + 1 /\ s[k] = i)
      BY <2>1, Queue
    <2>3. Len(r) \in Nat
      BY Queue
    <2> HIDE DEF i, s
    <2>4. \A j, k \in 1 .. Len(s) : j < k => s[j] < s[k]
      <3> SUFFICES ASSUME NEW j \in 1 .. Len(s), NEW k \in 1 .. Len(s), j < k
                   PROVE  s[j] < s[k]
        OBVIOUS
      <3>1. j \in 1 .. Len(r) /\ s[j] = r[j]
        BY <2>2, <2>3
      <3>2. CASE k \in 1 .. Len(r) /\ s[k] = r[k]
        BY <3>1, <3>2 DEF InLine
      <3>3. CASE s[k] = i
        BY <1>1, <2>1, <3>1, <3>3 DEF InLine
      <3> QED BY <2>2, <3>2, <3>3
    <2>5. \A j \in 1 .. Len(s), k \in 1 .. Len(w) : Dispatched(w[k]) => s[j] < w[k].id
      BY <1>1, <2>1, <2>2 DEF InLine, Earlier
    <2>6. \A j \in 1 .. Len(s), k \in 1 .. Len(u) : Dispatched(u[k]) => s[j] < u[k].id
      <3> SUFFICES ASSUME NEW j \in 1 .. Len(s), NEW k \in 1 .. Len(u), Dispatched(u[k])
                   PROVE  s[j] < u[k].id
        OBVIOUS
      <3>1. CASE j \in 1 .. Len(r) /\ s[j] = r[j]
        BY <1>4, <3>1
      <3>2. CASE s[j] = i
        <4>1. k + 1 \in 1 .. Len(t) /\ u[k] = t[k + 1] /\ 1 < k + 1
          BY <1>1
        <4>2. Earlier(t[1], t[k + 1])
          BY <1>1, <4>1 DEF InLine
        <4> QED BY <2>1, <3>2, <4>1, <4>2 DEF Earlier
      <3> QED BY <2>2, <3>1, <3>2
    <2>7. \A k \in 1 .. Len(s) : s[k] <= n
      BY <1>1, <2>1, <2>2 DEF InLine
    <2>8. InLine(w, u, s, n)
      BY <1>5, <2>4, <2>5, <2>6, <2>7 DEF InLine
    <2> QED BY <2>8 DEF s, i
  <1> QED BY <1>5, <1>6 DEF u

-----------------------------------------------------------------------------
LEMMA InitInv == Init => Inv
  <1> SUFFICES ASSUME Init PROVE Inv
    OBVIOUS
  <1> USE DEF Init
  <1>1. TypeOK
    BY IdleType, RolloutAssumption DEF TypeOK
  <1>2. RequestsOK
    BY IdleType DEF RequestsOK
  <1>3. OrderOK
    BY DEF OrderOK, InLine
  <1> QED BY <1>1, <1>2, <1>3 DEF Inv

\* A step that leaves the requests, the rows and the line alone.
LEMMA ElsewhereStep ==
    ASSUME Inv, TypeOK',
           UNCHANGED <<package, request, flushed, wire, tasks, ran>>
    PROVE  Inv'
  <1>1. RequestsOK'
    BY DEF Inv, RequestsOK
  <1>2. OrderOK'
    BY DEF Inv, OrderOK
  <1> QED BY <1>1, <1>2 DEF Inv

LEMMA StoreFileStep ==
    ASSUME Inv, NEW p \in Package, StoreFile(p)
    PROVE  Inv'
  <1> USE DEF StoreFile, deployVars, linkVars, agentVars
  <1>1. TypeOK' BY DEF Inv, TypeOK
  <1> QED BY <1>1, ElsewhereStep

LEMMA CommitPackageStep ==
    ASSUME Inv, NEW p \in Package, CommitPackage(p)
    PROVE  Inv'
  <1> USE DEF Inv
  <1>1. PICK winget \in BOOLEAN :
           package' = [package EXCEPT ![p] = [winget |-> winget, file |-> p \in disk]]
    BY DEF CommitPackage
  <1>2. package[p] = NoPackage /\ UNCHANGED <<disk, deployVars, linkVars, wire, agentVars>>
    BY DEF CommitPackage
  <1>3. package' \in [Package -> Source \cup {NoPackage}]
    BY <1>1 DEF TypeOK, Source
  <1>4. \A q \in Package : package[q] # NoPackage => package'[q] = package[q]
    BY <1>1, <1>2 DEF TypeOK
  <1>5. \A q \in Package : package'[q] # NoPackage /\ package'[q].file => q \in disk
    BY <1>1, <1>2 DEF TypeOK, Source
  <1>6. \A i \in DOMAIN row : row[i].package \in Package
    BY DEF TypeOK, Flushed
  <1>7. TypeOK'
    BY <1>2, <1>3, <1>4, <1>5, <1>6 DEF TypeOK, deployVars, linkVars, agentVars
  <1>8. \A r \in Request : request[r] # Idle => request[r].package \in Package
    BY DEF RequestsOK, Deploying
  <1>9. RequestsOK'
    BY <1>2, <1>4, <1>8 DEF RequestsOK, deployVars
  <1>10. OrderOK'
    BY <1>2 DEF OrderOK, deployVars, agentVars
  <1> QED BY <1>7, <1>9, <1>10

LEMMA LoadPackageStep ==
    ASSUME Inv, NEW r \in Request, LoadPackage(r)
    PROVE  Inv'
  <1> USE DEF Inv
  <1>1. PICK w \in Worker, p \in Package, action \in Action, targets \in Targets :
          /\ package[p] # NoPackage
          /\ request' = [request EXCEPT ![r] =
                [at |-> "deploying", worker |-> w, package |-> p, action |-> action,
                 todo |-> targets, rows |-> <<>>]]
    BY DEF LoadPackage
  <1>2. /\ request[r] = Idle
        /\ UNCHANGED <<packageVars, flushed, row, triggers, linkVars, wire, agentVars>>
    BY DEF LoadPackage
  <1>3. <<>> \in [{} -> Flushed] /\ DOMAIN <<>> = {}
    OBVIOUS
  <1>4. targets \in Seq(Device \cup Unknown)
    BY RolloutAssumption
  <1>5. [at |-> "deploying", worker |-> w, package |-> p, action |-> action,
         todo |-> targets, rows |-> <<>>] \in Deploying
    BY <1>3, <1>4 DEF Deploying
  <1>6. request' \in [Request -> Deploying \cup {Idle}]
    BY <1>1, <1>5 DEF RequestsOK
  <1>7. /\ DOMAIN request[r].rows = {} /\ DOMAIN request'[r].rows = {}
        /\ request'[r].package = p
        /\ \A s \in Request \ {r} : request'[s] = request[s]
    BY <1>1, <1>2, <1>3, IdleType DEF RequestsOK
  <1>8. \A s \in Request : DOMAIN request'[s].rows = DOMAIN request[s].rows
    BY <1>7
  <1>9. TypeOK'
    BY <1>2, <1>8 DEF TypeOK, packageVars, linkVars, agentVars
  <1>10. RequestsOK'
    <2>1. \A s \in Request : request'[s] # Idle => package[request'[s].package] # NoPackage
      BY <1>1, <1>7 DEF RequestsOK
    <2>2. \A s \in Request : \A i \in DOMAIN request'[s].rows :
             i <= flushed /\ request'[s].rows[i].package = request'[s].package
      BY <1>7 DEF RequestsOK
    <2>3. \A s, t \in Request : \A i \in DOMAIN request'[s].rows :
             i \in DOMAIN request'[t].rows => s = t
      BY <1>8 DEF RequestsOK
    <2> QED BY <1>2, <1>6, <2>1, <2>2, <2>3 DEF RequestsOK, packageVars
  <1>11. OrderOK'
    BY <1>2 DEF OrderOK, agentVars
  <1> QED BY <1>9, <1>10, <1>11

-----------------------------------------------------------------------------
(* send_to_agent puts a message at the end of one wire, or on none.        *)
LEMMA SendKeeps ==
    ASSUME Inv, NEW w \in Worker, NEW d \in Device, NEW message \in Message,
           NEW returned, SendToAgent(w, d, message, returned),
           NEW p \in Nat, flushed <= p,
           Dispatched(message) => flushed < message.id /\ message.id <= p,
           p = flushed \/ p = flushed + 1
    PROVE  /\ wire' \in [Device -> Seq(Message)]
           /\ \A e \in Device : InLine(wire'[e], tasks[e], ran[e], p)
  <1> USE DEF Inv
  <1>1. /\ wire \in [Device -> Seq(Message)]
        /\ \A e \in Device : wire[e] \in Seq(Message) /\ tasks[e] \in Seq(Message) /\ ran[e] \in Seq(RowId)
        /\ flushed \in Nat
    BY RolloutAssumption DEF TypeOK
  <1>2. \A e \in Device : InLine(wire[e], tasks[e], ran[e], flushed)
    BY DEF OrderOK
  <1>3. \A e \in Device : InLine(wire[e], tasks[e], ran[e], p)
    <2>1. \A e \in Device : InLine(wire[e], tasks[e], ran[e], flushed + 1)
      BY <1>1, <1>2, LineFlush
    <2> QED BY <1>2, <2>1
  <1>4. CASE wire' = wire
    BY <1>1, <1>3, <1>4
  <1>5. CASE wire' = [wire EXCEPT ![d] = Append(wire[d], message)]
    <2>1. Append(wire[d], message) \in Seq(Message)
      BY <1>1
    <2>2. wire' \in [Device -> Seq(Message)]
      BY <1>1, <1>5, <2>1
    <2>3. InLine(Append(wire[d], message), tasks[d], ran[d], p)
      BY <1>1, <1>2, LineSend
    <2>4. wire'[d] = Append(wire[d], message) /\ \A e \in Device \ {d} : wire'[e] = wire[e]
      BY <1>1, <1>5
    <2> QED BY <1>3, <2>2, <2>3, <2>4
  <1> QED BY <1>4, <1>5 DEF SendToAgent

LEMMA DeployToStep ==
    ASSUME Inv, NEW r \in Request, DeployTo(r)
    PROVE  Inv'
  <1> USE DEF Inv
  <1> DEFINE q == request[r]
             d == Head(q.todo)
             n == flushed + 1
             new(sent) == [package |-> q.package, device |-> d, action |-> q.action,
                           status |-> IF sent THEN "sent" ELSE "pending"]
             message == [type |-> "command_dispatch", id |-> n, package |-> q.package, action |-> q.action]
             rows(sent) == [j \in DOMAIN q.rows \cup {n} |-> IF j = n THEN new(sent) ELSE q.rows[j]]
  <1>1. PICK sent \in BOOLEAN :
          /\ SendToAgent(q.worker, d, message, sent)
          /\ request' = [request EXCEPT ![r] = [q EXCEPT !.todo = Tail(q.todo), !.rows = rows(sent)]]
    BY DEF DeployTo
  <1>2. /\ q.at = "deploying" /\ q.todo # <<>> /\ d \in Device /\ flushed < MaxRow
        /\ flushed' = n
        /\ UNCHANGED <<packageVars, row, triggers, linkVars, agentVars>>
    BY DEF DeployTo
  <1>3. q \in Deploying /\ q # Idle
    BY <1>2, IdleType DEF RequestsOK
  <1>4. /\ q.package \in Package /\ q.action \in Action /\ q.todo \in Seq(Device \cup Unknown)
        /\ q.worker \in Worker
        /\ DOMAIN q.rows \subseteq RowId /\ \A i \in DOMAIN q.rows : q.rows[i] \in Flushed
    BY <1>3 DEF Deploying
  <1>5. /\ flushed \in Nat /\ MaxRow \in Nat /\ n \in RowId /\ n \in Nat
        /\ flushed \in 0 .. MaxRow /\ n \in 0 .. MaxRow
        /\ 1 .. n = 1 .. flushed \cup {n} /\ n \notin 1 .. flushed
    BY <1>2, RolloutAssumption DEF TypeOK, RowId
  <1>6. new(sent) \in Flushed
    BY <1>2, <1>4 DEF Flushed
  <1>7. rows(sent) \in [DOMAIN q.rows \cup {n} -> Flushed] /\ DOMAIN q.rows \cup {n} \in SUBSET RowId
    BY <1>4, <1>5, <1>6
  <1>8. Tail(q.todo) \in Seq(Device \cup Unknown)
    BY <1>2, <1>4
  <1>9. [q EXCEPT !.todo = Tail(q.todo), !.rows = rows(sent)] \in Deploying
    <2>1. rows(sent) \in UNION {[S -> Flushed] : S \in SUBSET RowId}
      BY <1>7
    <2> HIDE DEF rows
    <2> QED BY <1>3, <1>8, <2>1 DEF Deploying
  <1>10. request' \in [Request -> Deploying \cup {Idle}]
    BY <1>1, <1>9 DEF RequestsOK
  <1>11. /\ request'[r].rows = rows(sent) /\ DOMAIN request'[r].rows = DOMAIN q.rows \cup {n}
         /\ request'[r].package = q.package
         /\ \A s \in Request \ {r} : request'[s] = request[s]
    BY <1>1, <1>3 DEF RequestsOK, Deploying
  <1>12. message \in Message /\ message.id = n
    BY <1>4, <1>5 DEF Message
  <1> HIDE DEF message
  <1>13. /\ wire' \in [Device -> Seq(Message)]
         /\ \A e \in Device : InLine(wire'[e], tasks[e], ran[e], n)
    <2>1. flushed <= n /\ flushed < message.id /\ message.id <= n
      BY <1>5, <1>12
    <2> QED BY <1>1, <1>2, <1>4, <1>5, <1>12, <2>1, SendKeeps
  <1>14. TypeOK'
    <2>1. DOMAIN row \subseteq 1 .. flushed
      BY DEF TypeOK
    <2>2. n \notin DOMAIN row
      BY <1>5, <2>1
    <2>3. DOMAIN request'[r].rows \cap DOMAIN row = {}
      BY <1>11, <2>2 DEF TypeOK
    <2>4. \A s \in Request \ {r} : DOMAIN request'[s].rows \cap DOMAIN row = {}
      BY <1>11 DEF TypeOK
    <2>5. DOMAIN row \subseteq 1 .. n
      BY <1>5, <2>1
    <2> QED BY <1>2, <1>5, <1>13, <2>3, <2>4, <2>5 DEF TypeOK, packageVars, linkVars, agentVars
  <1>15. RequestsOK'
    <2>1. \A s \in Request : request'[s] # Idle => package[request'[s].package] # NoPackage
      BY <1>3, <1>11 DEF RequestsOK
    <2>2. ASSUME NEW s \in Request, NEW i \in DOMAIN request'[s].rows
          PROVE  i <= n /\ request'[s].rows[i].package = request'[s].package
      <3>1. CASE s = r /\ i = n
        BY <1>5, <1>11, <3>1
      <3>2. CASE ~(s = r /\ i = n)
        <4>1. i \in DOMAIN request[s].rows /\ request'[s].rows[i] = request[s].rows[i]
              /\ request'[s].package = request[s].package
          BY <1>11, <2>2, <3>2
        <4>2. i \in RowId /\ i <= flushed
          BY <4>1, IdleType DEF RequestsOK, Deploying
        <4>3. i <= n
          BY <4>2, <1>5 DEF RowId
        <4> QED BY <4>1, <4>3 DEF RequestsOK
      <3> QED BY <3>1, <3>2
    <2>3. ASSUME NEW s \in Request, NEW t \in Request,
                 NEW i \in DOMAIN request'[s].rows, i \in DOMAIN request'[t].rows
          PROVE  s = t
      <3>1. \A u \in Request : n \notin DOMAIN request[u].rows
        BY <1>5 DEF RequestsOK
      <3>2. \A u \in Request : i \in DOMAIN request'[u].rows =>
                i \in DOMAIN request[u].rows \/ (u = r /\ i = n)
        BY <1>11
      <3>3. CASE i = n
        BY <2>3, <3>1, <3>2, <3>3
      <3>4. CASE i # n
        BY <2>3, <3>2, <3>4 DEF RequestsOK
      <3> QED BY <3>3, <3>4
    <2> QED BY <1>2, <1>10, <2>1, <2>2, <2>3 DEF RequestsOK, packageVars
  <1>16. OrderOK'
    BY <1>2, <1>13 DEF OrderOK, agentVars
  <1> QED BY <1>14, <1>15, <1>16

-----------------------------------------------------------------------------
(* The end of a request, one way or the other.                             *)
LEMMA EndOfRequest ==
    ASSUME Inv, NEW r \in Request, request[r].at = "deploying",
           request' = [request EXCEPT ![r] = Idle]
    PROVE  /\ request' \in [Request -> Deploying \cup {Idle}]
           /\ request'[r] = Idle /\ DOMAIN request'[r].rows = {}
           /\ \A s \in Request \ {r} : request'[s] = request[s]
           /\ DOMAIN request[r].rows \subseteq 1 .. flushed
           /\ \A i \in DOMAIN request[r].rows :
                 /\ request[r].rows[i] \in Flushed
                 /\ package[request[r].rows[i].package] # NoPackage
  <1> USE DEF Inv
  <1>1. request[r] \in Deploying /\ request[r] # Idle
    BY IdleType DEF RequestsOK
  <1>2. DOMAIN request[r].rows \subseteq RowId /\ \A i \in DOMAIN request[r].rows : request[r].rows[i] \in Flushed
    BY <1>1 DEF Deploying
  <1>3. DOMAIN request[r].rows \subseteq 1 .. flushed
    BY <1>2, RolloutAssumption DEF RequestsOK, RowId, TypeOK
  <1>4. \A i \in DOMAIN request[r].rows : package[request[r].rows[i].package] # NoPackage
    BY <1>1 DEF RequestsOK
  <1> QED BY <1>1, <1>2, <1>3, <1>4, IdleType DEF RequestsOK

LEMMA RequestsAfterEnd ==
    ASSUME Inv, NEW r \in Request, request[r].at = "deploying",
           request' = [request EXCEPT ![r] = Idle], UNCHANGED <<package, flushed>>
    PROVE  RequestsOK'
  <1> USE DEF Inv
  <1>1. /\ request' \in [Request -> Deploying \cup {Idle}]
        /\ request'[r] = Idle /\ DOMAIN request'[r].rows = {}
        /\ \A s \in Request \ {r} : request'[s] = request[s]
    BY EndOfRequest
  <1>2. \A s \in Request : request'[s] # Idle => package[request'[s].package] # NoPackage
    BY <1>1 DEF RequestsOK
  <1>3. \A s \in Request : \A i \in DOMAIN request'[s].rows :
           i <= flushed /\ request'[s].rows[i].package = request'[s].package
    BY <1>1 DEF RequestsOK
  <1>4. \A s, t \in Request : \A i \in DOMAIN request'[s].rows :
           i \in DOMAIN request'[t].rows => s = t
    BY <1>1 DEF RequestsOK
  <1> QED BY <1>1, <1>2, <1>3, <1>4 DEF RequestsOK

LEMMA CommitDeploymentStep ==
    ASSUME Inv, NEW r \in Request, CommitDeployment(r)
    PROVE  Inv'
  <1> USE DEF Inv
  <1> DEFINE mine == DOMAIN request[r].rows
  <1>1. /\ request[r].at = "deploying"
        /\ row' = [i \in DOMAIN row \cup mine |-> IF i \in DOMAIN row THEN row[i] ELSE request[r].rows[i]]
        /\ request' = [request EXCEPT ![r] = Idle]
        /\ UNCHANGED <<packageVars, flushed, triggers, linkVars, wire, agentVars>>
    BY DEF CommitDeployment
  <1>2. /\ request'[r] = Idle /\ DOMAIN request'[r].rows = {}
        /\ \A s \in Request \ {r} : request'[s] = request[s]
        /\ mine \subseteq 1 .. flushed
        /\ \A i \in mine : /\ request[r].rows[i] \in Flushed
                            /\ package[request[r].rows[i].package] # NoPackage
    BY <1>1, EndOfRequest
  <1>3. mine \cap DOMAIN row = {}
    BY DEF TypeOK
  <1>4. /\ DOMAIN row' = DOMAIN row \cup mine
        /\ \A i \in DOMAIN row : row'[i] = row[i]
        /\ \A i \in mine : row'[i] = request[r].rows[i]
    BY <1>1, <1>3
  <1>5. TypeOK'
    <2>1. \A i \in DOMAIN row' : row'[i] \in Flushed /\ package[row'[i].package] # NoPackage
      BY <1>2, <1>4 DEF TypeOK
    <2>2. \A s \in Request : DOMAIN request'[s].rows \cap DOMAIN row' = {}
      <3>1. DOMAIN request'[r].rows \cap DOMAIN row' = {}
        BY <1>2
      <3>2. ASSUME NEW s \in Request \ {r} PROVE DOMAIN request[s].rows \cap DOMAIN row' = {}
        <4>1. DOMAIN request[s].rows \cap DOMAIN row = {}
          BY DEF TypeOK
        <4>2. DOMAIN request[s].rows \cap mine = {}
          BY <3>2 DEF RequestsOK
        <4> QED BY <1>4, <4>1, <4>2
      <3> QED BY <1>2, <3>1, <3>2
    <2> QED BY <1>1, <1>2, <1>4, <2>1, <2>2 DEF TypeOK, packageVars, linkVars, agentVars
  <1>6. RequestsOK'
    BY <1>1, RequestsAfterEnd DEF packageVars
  <1>7. OrderOK'
    BY <1>1 DEF OrderOK, agentVars
  <1> QED BY <1>5, <1>6, <1>7

LEMMA DeploymentFailsStep ==
    ASSUME Inv, NEW r \in Request, DeploymentFails(r)
    PROVE  Inv'
  <1> USE DEF Inv
  <1>1. /\ request[r].at = "deploying"
        /\ request' = [request EXCEPT ![r] = Idle]
        /\ UNCHANGED <<packageVars, flushed, row, triggers, linkVars, wire, agentVars>>
    BY DEF DeploymentFails
  <1>2. /\ DOMAIN request'[r].rows = {}
        /\ \A s \in Request \ {r} : request'[s] = request[s]
    BY <1>1, EndOfRequest
  <1>3. TypeOK'
    BY <1>1, <1>2 DEF TypeOK, packageVars, linkVars, agentVars
  <1>4. RequestsOK'
    BY <1>1, RequestsAfterEnd DEF packageVars
  <1>5. OrderOK'
    BY <1>1 DEF OrderOK, agentVars
  <1> QED BY <1>3, <1>4, <1>5

LEMMA DeployPatchesStep ==
    ASSUME Inv, NEW w \in Worker, NEW d \in Device, NEW all \in BOOLEAN, DeployPatches(w, d, all)
    PROVE  Inv'
  <1> USE DEF Inv
  <1> DEFINE message == [type |-> "patch_trigger", all |-> all]
  <1>1. PICK sent \in BOOLEAN : SendToAgent(w, d, message, sent)
    BY DEF DeployPatches
  <1>2. /\ triggers < MaxTrigger /\ triggers' = triggers + 1
        /\ UNCHANGED <<packageVars, request, flushed, row, linkVars, agentVars>>
    BY DEF DeployPatches
  <1>3. message \in Message /\ ~Dispatched(message)
    BY DEF Message, Dispatched
  <1>4. flushed \in Nat /\ flushed <= flushed
    BY RolloutAssumption DEF TypeOK
  <1> HIDE DEF message
  <1>5. /\ wire' \in [Device -> Seq(Message)]
        /\ \A e \in Device : InLine(wire'[e], tasks[e], ran[e], flushed)
    BY <1>1, <1>3, <1>4, SendKeeps
  <1>6. triggers' \in 0 .. MaxTrigger
    BY <1>2, RolloutAssumption DEF TypeOK
  <1>7. TypeOK' BY <1>2, <1>5, <1>6 DEF TypeOK, packageVars, linkVars, agentVars
  <1>8. RequestsOK' BY <1>2 DEF RequestsOK, packageVars
  <1>9. OrderOK' BY <1>2, <1>5 DEF OrderOK, agentVars
  <1> QED BY <1>7, <1>8, <1>9

-----------------------------------------------------------------------------
(* Links and registries.                                                   *)
LEMMA RegistryStep ==
    ASSUME Inv, NEW d \in Device, NEW w \in Worker, Connects(d, w) \/ Unregisters(w, d)
    PROVE  Inv'
  <1>1. /\ link' \in [Device -> Worker \cup {NoWorker}]
        /\ registered' \in [Worker -> SUBSET Device]
    <2>1. CASE Connects(d, w)
      BY <2>1 DEF Connects, Inv, TypeOK
    <2>2. CASE Unregisters(w, d)
      BY <2>2 DEF Unregisters, Inv, TypeOK
    <2> QED BY <2>1, <2>2
  <1>2. UNCHANGED <<packageVars, deployVars, wire, agentVars>>
    BY DEF Connects, Unregisters
  <1>3. TypeOK'
    BY <1>1, <1>2 DEF Inv, TypeOK, packageVars, deployVars, agentVars
  <1> QED BY <1>2, <1>3, ElsewhereStep DEF packageVars, deployVars, agentVars

LEMMA LinkDropsStep ==
    ASSUME Inv, NEW d \in Device, LinkDrops(d)
    PROVE  Inv'
  <1> USE DEF Inv
  <1>1. /\ link' = [link EXCEPT ![d] = NoWorker]
        /\ wire' = [wire EXCEPT ![d] = <<>>]
        /\ UNCHANGED <<packageVars, deployVars, registered, agentVars>>
    BY DEF LinkDrops
  <1>2. wire' \in [Device -> Seq(Message)]
    <2>1. wire \in [Device -> Seq(Message)] /\ <<>> \in Seq(Message)
      BY DEF TypeOK
    <2> HIDE DEF Inv
    <2> QED BY <1>1, <2>1
  <1>3. link' \in [Device -> Worker \cup {NoWorker}]
    BY <1>1 DEF TypeOK
  <1>4. TypeOK'
    BY <1>1, <1>2, <1>3 DEF TypeOK, packageVars, deployVars, agentVars
  <1>5. RequestsOK' BY <1>1 DEF RequestsOK, packageVars, deployVars
  <1>6. \A e \in Device : wire'[e] = wire[e] \/ wire'[e] = <<>>
    BY <1>1 DEF TypeOK
  <1>7. OrderOK'
    BY <1>1, <1>6, LineLost DEF OrderOK, deployVars, agentVars
  <1> QED BY <1>4, <1>5, <1>7

LEMMA AgentRestartsStep ==
    ASSUME Inv, NEW d \in Device, AgentRestarts(d)
    PROVE  Inv'
  <1> USE DEF Inv
  <1>1. /\ link' = [link EXCEPT ![d] = NoWorker]
        /\ wire' = [wire EXCEPT ![d] = <<>>]
        /\ tasks' = [tasks EXCEPT ![d] = <<>>]
        /\ downloading' = [downloading EXCEPT ![d] = {}]
        /\ UNCHANGED <<packageVars, deployVars, registered, installed, missing, ran>>
    BY DEF AgentRestarts
  <1>2. wire' \in [Device -> Seq(Message)] /\ tasks' \in [Device -> Seq(Message)]
    <2>1. /\ wire \in [Device -> Seq(Message)] /\ tasks \in [Device -> Seq(Message)]
          /\ <<>> \in Seq(Message)
      BY DEF TypeOK
    <2> HIDE DEF Inv
    <2> QED BY <1>1, <2>1
  <1>3. link' \in [Device -> Worker \cup {NoWorker}] /\ downloading' \in [Device -> SUBSET RowId]
    BY <1>1 DEF TypeOK
  <1>4. TypeOK'
    BY <1>1, <1>2, <1>3 DEF TypeOK, packageVars, deployVars
  <1>5. RequestsOK' BY <1>1 DEF RequestsOK, packageVars, deployVars
  <1>6. \A e \in Device : \/ wire'[e] = wire[e] /\ tasks'[e] = tasks[e]
                          \/ wire'[e] = <<>> /\ tasks'[e] = <<>>
    BY <1>1 DEF TypeOK
  <1>7. OrderOK'
    BY <1>1, <1>6, LineLost DEF OrderOK, deployVars
  <1> QED BY <1>4, <1>5, <1>7

-----------------------------------------------------------------------------
(* The agent's event loop.                                                 *)
LEMMA ReceiveStep ==
    ASSUME Inv, NEW d \in Device, Receive(d)
    PROVE  Inv'
  <1> USE DEF Inv
  <1>1. /\ wire[d] # <<>>
        /\ tasks' = [tasks EXCEPT ![d] = Append(tasks[d], Head(wire[d]))]
        /\ wire' = [wire EXCEPT ![d] = Tail(wire[d])]
        /\ UNCHANGED <<packageVars, deployVars, linkVars, downloading, installed, missing, ran>>
    BY DEF Receive
  <1>2. /\ wire \in [Device -> Seq(Message)] /\ tasks \in [Device -> Seq(Message)]
        /\ wire[d] \in Seq(Message) /\ tasks[d] \in Seq(Message) /\ ran[d] \in Seq(RowId)
        /\ flushed \in Nat
    BY RolloutAssumption DEF TypeOK
  <1>3. Tail(wire[d]) \in Seq(Message) /\ Append(tasks[d], Head(wire[d])) \in Seq(Message)
    BY <1>1, <1>2, Queue
  <1>4. wire' \in [Device -> Seq(Message)] /\ tasks' \in [Device -> Seq(Message)]
    BY <1>1, <1>2, <1>3
  <1>5. TypeOK' BY <1>1, <1>4 DEF TypeOK, packageVars, deployVars, linkVars
  <1>6. RequestsOK' BY <1>1 DEF RequestsOK, packageVars, deployVars
  <1>7. InLine(Tail(wire[d]), Append(tasks[d], Head(wire[d])), ran[d], flushed)
    BY <1>1, <1>2, LineReceive DEF OrderOK
  <1>8. /\ wire'[d] = Tail(wire[d]) /\ tasks'[d] = Append(tasks[d], Head(wire[d]))
        /\ \A e \in Device \ {d} : wire'[e] = wire[e] /\ tasks'[e] = tasks[e]
    BY <1>1, <1>2
  <1>9. OrderOK' BY <1>1, <1>7, <1>8 DEF OrderOK, deployVars
  <1> QED BY <1>5, <1>6, <1>9

\* A task begins that is not winget's.
LEMMA BeginStep ==
    ASSUME Inv, NEW d \in Device, tasks[d] # <<>>, TypeOK',
           tasks' = [tasks EXCEPT ![d] = Tail(tasks[d])],
           UNCHANGED <<package, request, flushed, wire, ran>>
    PROVE  Inv'
  <1> USE DEF Inv
  <1>1. /\ tasks \in [Device -> Seq(Message)]
        /\ wire[d] \in Seq(Message) /\ tasks[d] \in Seq(Message) /\ ran[d] \in Seq(RowId)
        /\ flushed \in Nat
    BY RolloutAssumption DEF TypeOK
  <1>2. InLine(wire[d], Tail(tasks[d]), ran[d], flushed)
    BY <1>1, LineBegin DEF OrderOK
  <1>3. tasks'[d] = Tail(tasks[d]) /\ \A e \in Device \ {d} : tasks'[e] = tasks[e]
    BY <1>1
  <1>4. OrderOK' BY <1>2, <1>3 DEF OrderOK
  <1>5. RequestsOK' BY DEF RequestsOK
  <1> QED BY <1>4, <1>5

LEMMA TasksTail ==
    ASSUME TypeOK, NEW d \in Device, tasks[d] # <<>>,
           tasks' = [tasks EXCEPT ![d] = Tail(tasks[d])]
    PROVE  /\ tasks' \in [Device -> Seq(Message)]
           /\ Head(tasks[d]) \in Message
  <1>1. tasks \in [Device -> Seq(Message)] /\ tasks[d] \in Seq(Message)
    BY DEF TypeOK
  <1>2. Tail(tasks[d]) \in Seq(Message) /\ Head(tasks[d]) \in Message
    BY <1>1, Queue
  <1> QED BY <1>1, <1>2

LEMMA StartDownloadStep ==
    ASSUME Inv, NEW d \in Device, StartDownload(d)
    PROVE  Inv'
  <1> USE DEF Inv
  <1> DEFINE message == Head(tasks[d])
  <1>1. /\ tasks[d] # <<>> /\ Dispatched(message)
        /\ tasks' = [tasks EXCEPT ![d] = Tail(tasks[d])]
        /\ downloading' \in {downloading, [downloading EXCEPT ![d] = downloading[d] \cup {message.id}]}
        /\ UNCHANGED <<packageVars, deployVars, linkVars, wire, installed, missing, ran>>
    <2>1. downloading \in [Device -> SUBSET RowId]
      BY DEF TypeOK
    <2> QED BY <2>1 DEF StartDownload
  <1>2. tasks' \in [Device -> Seq(Message)] /\ message.id \in RowId
    BY <1>1, TasksTail, MessageId
  <1>3. downloading' \in [Device -> SUBSET RowId]
    <2>1. downloading \in [Device -> SUBSET RowId]
      BY DEF TypeOK
    <2>2. downloading[d] \cup {message.id} \in SUBSET RowId
      BY <1>2, <2>1
    <2>3. [downloading EXCEPT ![d] = downloading[d] \cup {message.id}] \in [Device -> SUBSET RowId]
      BY <2>1, <2>2
    <2> QED BY <1>1, <2>1, <2>3
  <1>4. TypeOK'
    BY <1>1, <1>2, <1>3 DEF TypeOK, packageVars, deployVars, linkVars
  <1> QED BY <1>1, <1>4, BeginStep DEF packageVars, deployVars

LEMMA InstallPatchesStep ==
    ASSUME Inv, NEW d \in Device, InstallPatches(d)
    PROVE  Inv'
  <1> USE DEF Inv
  <1>1. /\ tasks[d] # <<>>
        /\ tasks' = [tasks EXCEPT ![d] = Tail(tasks[d])]
        /\ \E done : missing' = [missing EXCEPT ![d] = missing[d] \ done]
        /\ UNCHANGED <<packageVars, deployVars, linkVars, wire, downloading, installed, ran>>
    BY DEF InstallPatches
  <1>2. missing' \in [Device -> SUBSET Update]
    BY <1>1 DEF TypeOK
  <1>3. tasks' \in [Device -> Seq(Message)]
    BY <1>1, TasksTail
  <1>4. TypeOK'
    BY <1>1, <1>2, <1>3 DEF TypeOK, packageVars, deployVars, linkVars
  <1> QED BY <1>1, <1>4, BeginStep DEF packageVars, deployVars

LEMMA DownloadEndsStep ==
    ASSUME Inv, NEW d \in Device, DownloadEnds(d)
    PROVE  Inv'
  <1>1. /\ \E i : downloading' = [downloading EXCEPT ![d] = downloading[d] \ {i}]
        /\ UNCHANGED <<packageVars, deployVars, linkVars, wire, tasks, installed, missing, ran>>
    BY DEF DownloadEnds
  <1>2. downloading' \in [Device -> SUBSET RowId]
    BY <1>1 DEF Inv, TypeOK
  <1>3. TypeOK'
    BY <1>1, <1>2 DEF Inv, TypeOK, packageVars, deployVars, linkVars
  <1> QED BY <1>1, <1>3, ElsewhereStep DEF packageVars, deployVars

LEMMA RunWingetStep ==
    ASSUME Inv, NEW d \in Device, RunWinget(d)
    PROVE  Inv'
  <1> USE DEF Inv
  <1> DEFINE message == Head(tasks[d])
  <1>1. /\ tasks[d] # <<>> /\ Dispatched(message)
        /\ tasks' = [tasks EXCEPT ![d] = Tail(tasks[d])]
        /\ ran' = [ran EXCEPT ![d] = Append(ran[d], message.id)]
        /\ \E result \in Results(d, message) : installed' = [installed EXCEPT ![d] = result]
        /\ UNCHANGED <<packageVars, deployVars, linkVars, wire, downloading, missing>>
    BY DEF RunWinget
  <1>2. /\ wire[d] \in Seq(Message) /\ tasks[d] \in Seq(Message) /\ ran[d] \in Seq(RowId)
        /\ tasks \in [Device -> Seq(Message)] /\ ran \in [Device -> Seq(RowId)]
        /\ flushed \in Nat
    BY RolloutAssumption DEF TypeOK
  <1>3. tasks' \in [Device -> Seq(Message)] /\ message.id \in RowId /\ message.package \in Package
    BY <1>1, TasksTail, MessageId
  <1>4. Results(d, message) \subseteq SUBSET Package
    BY <1>3 DEF Results, TypeOK
  <1>5. installed' \in [Device -> SUBSET Package]
    BY <1>1, <1>4 DEF TypeOK
  <1>6. Append(ran[d], message.id) \in Seq(RowId)
    BY <1>2, <1>3
  <1>7. ran' \in [Device -> Seq(RowId)]
    BY <1>1, <1>2, <1>6
  <1>8. TypeOK' BY <1>1, <1>3, <1>5, <1>7 DEF TypeOK, packageVars, deployVars, linkVars
  <1>9. RequestsOK' BY <1>1 DEF RequestsOK, packageVars, deployVars
  <1>10. InLine(wire[d], Tail(tasks[d]), Append(ran[d], message.id), flushed)
    BY <1>1, <1>2, LineBegin DEF OrderOK
  <1>11. /\ tasks'[d] = Tail(tasks[d]) /\ ran'[d] = Append(ran[d], message.id)
         /\ \A e \in Device \ {d} : tasks'[e] = tasks[e] /\ ran'[e] = ran[e]
    BY <1>1, <1>2
  <1>12. OrderOK' BY <1>1, <1>10, <1>11 DEF OrderOK, deployVars
  <1> QED BY <1>8, <1>9, <1>12

-----------------------------------------------------------------------------
LEMMA StepInv == Inv /\ [Next]_vars => Inv'
  <1> SUFFICES ASSUME Inv, [Next]_vars PROVE Inv'
    OBVIOUS
  <1>1. CASE UNCHANGED vars
    <2>1. TypeOK'
      BY <1>1 DEF Inv, TypeOK, vars, packageVars, deployVars, linkVars, agentVars
    <2> QED BY <1>1, <2>1, ElsewhereStep DEF vars, packageVars, deployVars, agentVars
  <1>2. CASE Next
    BY <1>2, StoreFileStep, CommitPackageStep, LoadPackageStep, DeployToStep,
       CommitDeploymentStep, DeploymentFailsStep, DeployPatchesStep, RegistryStep,
       LinkDropsStep, AgentRestartsStep, ReceiveStep, RunWingetStep, StartDownloadStep,
       DownloadEndsStep, InstallPatchesStep DEF Next
  <1> QED BY <1>1, <1>2

LEMMA Invariant == Spec => []Inv
  BY InitInv, StepInv, PTL DEF Spec

(* Every variable keeps its type; a committed deployment has its package,  *)
(* a package with a file has the file on disk, and a request at work holds *)
(* only rows that are not committed yet.                                   *)
THEOREM TypeCorrect == Spec => []TypeOK
  BY Invariant, PTL DEF Inv

(* However many workers send to however many agents, and whatever is lost  *)
(* on the way, each agent gives its deployments to winget once, in the     *)
(* order in which they were sent.                                          *)
THEOREM DeploymentsRunInOrder == Spec => []RunsInOrder
  <1>1. Inv => RunsInOrder
    BY DEF Inv, OrderOK, InLine, RunsInOrder
  <1> QED BY <1>1, Invariant, PTL
=============================================================================
