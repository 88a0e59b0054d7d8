------------------------ MODULE AgentTransportProofs ------------------------
(***************************************************************************)
(* Theorems about AgentTransport, for any set of messages and any number   *)
(* of send loops.                                                          *)
(***************************************************************************)
EXTENDS AgentTransport, FiniteSetTheorems, SequenceTheorems, TLAPS

Woken == {l \in Loop : loopPc[l] = "woken"}

(* Where the loops and the messages are.                                   *)
LoopsOK ==
    /\ loopPc \in [Loop -> LoopPhase]
    /\ held \in [Loop -> Msg \cup {NoMsg}]
    /\ \A l \in Loop : loopPc[l] = "sending" => held[l] \in Msg
    /\ queue \in Seq(Msg)

(* The getters are the loops that are parked, each of them once.           *)
GettersOK ==
    /\ getters \in Seq(Loop)
    /\ \A l \in Loop : loopPc[l] = "parked" <=> \E i \in 1 .. Len(getters) : getters[i] = l
    /\ \A i, j \in 1 .. Len(getters) : getters[i] = getters[j] => i = j

Inv == LoopsOK /\ GettersOK /\ NoMissedWakeup

-----------------------------------------------------------------------------
(* A woken loop more, or at most one less, counts for as much.             *)
LEMMA OneMore ==
    ASSUME NEW S, IsFiniteSet(S), NEW x, x \notin S
    PROVE  Cardinality(S \cup {x}) = Cardinality(S) + 1
  BY FS_AddElement

LEMMA OneLess ==
    ASSUME NEW S, IsFiniteSet(S), NEW x
    PROVE  Cardinality(S) <= Cardinality(S \ {x}) + 1
  <1>1. Cardinality(S) \in Nat
    BY FS_CardinalityType
  <1>2. CASE x \in S
    <2>1. Cardinality(S \ {x}) = Cardinality(S) - 1
      BY <1>2, FS_RemoveElement
    <2>2. Cardinality(S \ {x}) + 1 = Cardinality(S)
      BY <1>1, <2>1
    <2> QED BY <1>1, <2>2
  <1>3. CASE x \notin S
    <2>1. S \ {x} = S
      BY <1>3
    <2>2. Cardinality(S) <= Cardinality(S) + 1
      BY <1>1
    <2> QED BY <2>1, <2>2
  <1> QED BY <1>2, <1>3

LEMMA WokenFinite ==
    ASSUME IsFiniteSet(Loop)
    PROVE  IsFiniteSet(Woken) /\ IsFiniteSet(Woken')
           /\ Cardinality(Woken) \in Nat /\ Cardinality(Woken') \in Nat
  <1>1. Woken \subseteq Loop /\ Woken' \subseteq Loop
    BY DEF Woken
  <1> QED BY <1>1, FS_Subset, FS_CardinalityType

-----------------------------------------------------------------------------
LEMMA InitInv == Init => Inv
  <1> SUFFICES ASSUME Init PROVE Inv
    OBVIOUS
  <1>1. LoopsOK BY DEF Init, LoopsOK, LoopPhase
  <1>2. GettersOK BY DEF Init, GettersOK
  <1>3. NoMissedWakeup BY DEF Init, NoMissedWakeup
  <1> QED BY <1>1, <1>2, <1>3 DEF Inv

(* put, of a message m, after the loops have changed to p: none is parked  *)
(* or woken by that change or was before.                                  *)
LEMMA PutKeeps ==
    ASSUME Inv, IsFiniteSet(Loop), NEW m \in Msg,
           NEW p \in [Loop -> LoopPhase],
           \A l \in Loop : p[l] = loopPc[l] \/ (loopPc[l] = "sending" /\ p[l] = "done"),
           PutAnd(m, p),
           held' \in [Loop -> Msg \cup {NoMsg}],
           \A l \in Loop : p[l] = "sending" => held'[l] = held[l]
    PROVE  Inv'
  <1> USE DEF Inv
  <1>1. queue' = Append(queue, m) /\ queue' \in Seq(Msg) /\ Len(queue') = Len(queue) + 1
    BY DEF PutAnd, LoopsOK
  <1>2. CASE getters = <<>>
    <2>1. loopPc' = p /\ getters' = <<>>
      BY <1>2 DEF PutAnd
    <2>2. LoopsOK'
      BY <1>1, <2>1 DEF LoopsOK, LoopPhase
    <2>3. GettersOK'
      BY <1>2, <2>1 DEF GettersOK, LoopsOK
    <2>4. NoMissedWakeup'
      BY <2>1 DEF NoMissedWakeup
    <2> QED BY <2>2, <2>3, <2>4
  <1>3. CASE getters # <<>>
    <2> DEFINE h == Head(getters)
    <2>1. /\ loopPc' = [p EXCEPT ![h] = "woken"]
          /\ getters' = Tail(getters)
      BY <1>3 DEF PutAnd
    <2>2. /\ h \in Loop /\ h = getters[1]
          /\ Len(getters) \in Nat /\ Len(getters) >= 1
          /\ Len(getters') = Len(getters) - 1
          /\ getters' \in Seq(Loop)
          /\ \A i \in 1 .. Len(getters') : getters'[i] = getters[i + 1]
      BY <1>3, <2>1 DEF GettersOK
    <2>3. loopPc[h] = "parked" /\ p[h] = "parked"
      BY <2>2 DEF GettersOK
    <2>4. LoopsOK'
      BY <1>1, <2>1, <2>2, <2>3 DEF LoopsOK, LoopPhase
    <2>5. GettersOK'
      <3>1. ASSUME NEW l \in Loop, loopPc'[l] = "parked"
            PROVE  \E i \in 1 .. Len(getters') : getters'[i] = l
        <4>1. l # h /\ p[l] = "parked"
          BY <2>1, <2>2, <3>1
        <4>2. loopPc[l] = "parked"
          BY <4>1 DEF LoopsOK
        <4>3. PICK i \in 1 .. Len(getters) : getters[i] = l
          BY <4>2 DEF GettersOK
        <4>4. i - 1 \in 1 .. Len(getters') /\ (i - 1) + 1 = i
          BY <4>1, <4>3, <2>2
        <4> QED BY <4>3, <4>4, <2>2
      <3>2. ASSUME NEW i \in 1 .. Len(getters')
            PROVE  loopPc'[getters'[i]] = "parked"
        <4>1. getters'[i] = getters[i + 1] /\ i + 1 \in 1 .. Len(getters) /\ 1 \in 1 .. Len(getters)
          BY <2>2
        <4>2. getters[i + 1] # h /\ getters[i + 1] \in Loop
          BY <4>1, <2>2 DEF GettersOK
        <4>3. loopPc[getters[i + 1]] = "parked"
          BY <4>1, <4>2 DEF GettersOK
        <4> QED BY <4>1, <4>2, <4>3, <2>1, <2>2
      <3>3. \A i, j \in 1 .. Len(getters') : getters'[i] = getters'[j] => i = j
        <4> TAKE i, j \in 1 .. Len(getters')
        <4>1. /\ i + 1 \in 1 .. Len(getters) /\ getters'[i] = getters[i + 1]
              /\ j + 1 \in 1 .. Len(getters) /\ getters'[j] = getters[j + 1]
          BY <2>2
        <4> QED BY <4>1, <2>2 DEF GettersOK
      <3>4. \A l \in Loop : loopPc'[l] = "parked" <=> \E i \in 1 .. Len(getters') : getters'[i] = l
        BY <3>1, <3>2
      <3> QED BY <3>3, <3>4, <2>2 DEF GettersOK
    <2>6. Woken' = Woken \cup {h} /\ h \notin Woken
      BY <2>1, <2>2, <2>3 DEF Woken, LoopsOK
    <2>7. Cardinality(Woken') = Cardinality(Woken) + 1
      BY <2>6, OneMore, WokenFinite
    <2>8. Len(queue) <= Cardinality(Woken)
      BY <1>3 DEF NoMissedWakeup, Woken
    <2>9. Len(queue') <= Cardinality(Woken')
      BY <1>1, <2>7, <2>8, WokenFinite DEF LoopsOK
    <2>10. NoMissedWakeup'
      BY <2>9 DEF NoMissedWakeup, Woken
    <2> QED BY <2>4, <2>5, <2>10
  <1> QED BY <1>2, <1>3

(* get, of a loop that is awake.                                           *)
LEMMA GetKeeps ==
    ASSUME Inv, IsFiniteSet(Loop), NEW k \in Loop, loopPc[k] # "parked", Get(k)
    PROVE  Inv'
  <1> USE DEF Inv
  <1>1. CASE queue = <<>>
    <2>1. /\ loopPc' = [loopPc EXCEPT ![k] = "parked"]
          /\ held' = [held EXCEPT ![k] = NoMsg]
          /\ getters' = Append(getters, k)
          /\ queue' = queue
      BY <1>1 DEF Get
    <2>2. LoopsOK'
      BY <2>1 DEF LoopsOK, LoopPhase
    <2>3. /\ Len(getters) \in Nat
          /\ getters' \in Seq(Loop)
          /\ Len(getters') = Len(getters) + 1
          /\ getters'[Len(getters) + 1] = k
          /\ \A i \in 1 .. Len(getters) : getters'[i] = getters[i]
          /\ 1 .. Len(getters') = 1 .. Len(getters) \cup {Len(getters) + 1}
      BY <2>1 DEF GettersOK
    <2>4. \A i \in 1 .. Len(getters) : getters[i] # k /\ getters[i] \in Loop
      BY DEF GettersOK
    <2>5. GettersOK'
      <3>1. ASSUME NEW l \in Loop
            PROVE  loopPc'[l] = "parked" <=> \E i \in 1 .. Len(getters') : getters'[i] = l
        <4>1. CASE l = k
          BY <4>1, <2>1, <2>3 DEF LoopsOK
        <4>2. CASE l # k
          <5>1. loopPc'[l] = loopPc[l]
            BY <4>2, <2>1 DEF LoopsOK
          <5> QED BY <5>1, <4>2, <2>3 DEF GettersOK
        <4> QED BY <4>1, <4>2
      <3>2. \A i, j \in 1 .. Len(getters') : getters'[i] = getters'[j] => i = j
        BY <2>3, <2>4 DEF GettersOK
      <3> QED BY <3>1, <3>2, <2>3 DEF GettersOK
    <2>6. NoMissedWakeup'
      BY <1>1, <2>1, WokenFinite DEF NoMissedWakeup, Woken
    <2> QED BY <2>2, <2>5, <2>6
  <1>2. CASE queue # <<>>
    <2>1. /\ loopPc' = [loopPc EXCEPT ![k] = "sending"]
          /\ held' = [held EXCEPT ![k] = Head(queue)]
          /\ queue' = Tail(queue)
          /\ getters' = getters
      BY <1>2 DEF Get
    <2>2. /\ Head(queue) \in Msg /\ queue' \in Seq(Msg)
          /\ Len(queue) \in Nat /\ Len(queue') = Len(queue) - 1
      BY <1>2, <2>1 DEF LoopsOK
    <2>3. LoopsOK'
      BY <2>1, <2>2 DEF LoopsOK, LoopPhase
    <2>4. GettersOK'
      BY <2>1 DEF GettersOK, LoopsOK
    <2>5. Woken' = Woken \ {k}
      BY <2>1 DEF Woken, LoopsOK
    <2>6. Cardinality(Woken) <= Cardinality(Woken') + 1
      BY <2>5, OneLess, WokenFinite
    <2>7. ASSUME getters' # <<>> PROVE Len(queue') <= Cardinality(Woken')
      <3>1. Len(queue) <= Cardinality(Woken)
        BY <2>1, <2>7 DEF NoMissedWakeup, Woken
      <3> QED BY <3>1, <2>2, <2>6, WokenFinite
    <2>8. NoMissedWakeup'
      BY <2>7 DEF NoMissedWakeup, Woken
    <2> QED BY <2>3, <2>4, <2>8
  <1> QED BY <1>1, <1>2

-----------------------------------------------------------------------------
LEMMA StepInv ==
    ASSUME IsFiniteSet(Loop), Inv, [Next]_vars
    PROVE  Inv'
  <1> USE DEF Inv
  <1>1. ASSUME NEW m \in Msg, Put(m) PROVE Inv'
    <2>1. PutAnd(m, loopPc) /\ held' = held
      BY <1>1 DEF Put
    <2> QED BY <1>1, <2>1, PutKeeps DEF LoopsOK
  <1>2. ASSUME NEW l \in Loop, Connect(l) PROVE Inv'
    <2>1. /\ loopPc' = [loopPc EXCEPT ![l] = "new"] /\ loopPc[l] = "done"
          /\ UNCHANGED <<held, getters, queue>>
      BY <1>2 DEF Connect
    <2>2. LoopsOK' BY <2>1 DEF LoopsOK, LoopPhase
    <2>3. GettersOK' BY <2>1 DEF GettersOK, LoopsOK
    <2>4. Woken' = Woken BY <2>1 DEF Woken, LoopsOK
    <2>5. NoMissedWakeup' BY <2>1, <2>4 DEF NoMissedWakeup, Woken
    <2> QED BY <2>2, <2>3, <2>5
  <1>3. ASSUME NEW l \in Loop, SendLoopGets(l) PROVE Inv'
    BY <1>3, GetKeeps DEF SendLoopGets
  <1>4. ASSUME NEW l \in Loop, SendSucceeds(l) PROVE Inv'
    BY <1>4, GetKeeps DEF SendSucceeds
  <1>5. ASSUME NEW l \in Loop, SendFails(l) PROVE Inv'
    <2> DEFINE p == [loopPc EXCEPT ![l] = "done"]
    <2>1. /\ loopPc[l] = "sending" /\ held[l] \in Msg
          /\ PutAnd(held[l], p)
          /\ held' = [held EXCEPT ![l] = NoMsg]
      BY <1>5 DEF SendFails, LoopsOK
    <2>2. p \in [Loop -> LoopPhase]
      BY DEF LoopsOK, LoopPhase
    <2>3. \A k \in Loop : p[k] = loopPc[k] \/ (loopPc[k] = "sending" /\ p[k] = "done")
      BY <2>1 DEF LoopsOK
    <2>4. held' \in [Loop -> Msg \cup {NoMsg}]
      BY <2>1 DEF LoopsOK
    <2>5. \A k \in Loop : p[k] = "sending" => held'[k] = held[k]
      BY <2>1 DEF LoopsOK
    <2> HIDE DEF p
    <2> QED BY <2>1, <2>2, <2>3, <2>4, <2>5, PutKeeps
  <1>6. ASSUME UNCHANGED loopVars PROVE Inv'
    BY <1>6 DEF loopVars, LoopsOK, GettersOK, NoMissedWakeup
  <1>7. ASSUME Restart PROVE Inv'
    <2>1. LoopsOK' BY <1>7 DEF Restart, LoopsOK, LoopPhase
    <2>2. GettersOK' BY <1>7 DEF Restart, GettersOK
    <2>3. NoMissedWakeup' BY <1>7 DEF Restart, NoMissedWakeup
    <2> QED BY <2>1, <2>2, <2>3
  <1>8. CASE UNCHANGED vars
    BY <1>6, <1>8 DEF vars, loopVars
  <1>9. ASSUME ConnectionEnds \/ RunGivesUp PROVE Inv'
    BY <1>6, <1>9 DEF ConnectionEnds, RunGivesUp
  <1> QED
    BY <1>1, <1>2, <1>3, <1>4, <1>5, <1>7, <1>8, <1>9 DEF Next, SendLoopStep

(* The messages that were put and not sent are those in the queue and those *)
(* in hand, each of them once; a loop has one in hand while it sends.      *)
Holds(s, m) == \E i \in 1 .. Len(s) : s[i] = m
Once(s) == \A i, j \in 1 .. Len(s) : s[i] = s[j] => i = j

Placed(q, h, a) ==
    /\ Once(q) /\ Once(a)
    /\ \A l, k \in Loop : h[l] = h[k] /\ h[l] # NoMsg => l = k
    /\ \A l \in Loop : ~Holds(q, h[l])
    /\ \A m \in Msg : Holds(a, m) <=> Holds(q, m) \/ \E l \in Loop : h[l] = m

(* A message in the queue whose send has not failed is in front of all     *)
(* that were put after it.                                                 *)
InOrder(q, a, r) ==
    \A i, j \in 1 .. Len(a) :
       i < j /\ a[i] \notin r =>
          \A x \in 1 .. Len(q) :
             q[x] = a[i] => \E y \in 1 .. Len(q) : x < y /\ q[y] = a[j]

MessagesOK ==
    /\ accepted \in Seq(Msg)
    /\ requeued \in SUBSET Msg
    /\ \A l \in Loop : held[l] # NoMsg => loopPc[l] = "sending"
    /\ Placed(queue, held, accepted)
    /\ InOrder(queue, accepted, requeued)

LEMMA AppendFacts ==
    ASSUME NEW S, NEW s \in Seq(S), NEW e \in S
    PROVE  /\ Append(s, e) \in Seq(S)
           /\ Len(s) \in Nat
           /\ Len(Append(s, e)) = Len(s) + 1
           /\ \A i \in 1 .. Len(s) : Append(s, e)[i] = s[i]
           /\ Append(s, e)[Len(s) + 1] = e
           /\ 1 .. Len(s) + 1 = 1 .. Len(s) \cup {Len(s) + 1}
  OBVIOUS

LEMMA TailFacts ==
    ASSUME NEW S, NEW s \in Seq(S), s # <<>>
    PROVE  /\ Tail(s) \in Seq(S)
           /\ Len(s) \in Nat /\ Len(s) >= 1
           /\ Head(s) = s[1] /\ Head(s) \in S
           /\ Len(Tail(s)) = Len(s) - 1
           /\ \A i \in 1 .. Len(Tail(s)) : Tail(s)[i] = s[i + 1] /\ i + 1 \in 1 .. Len(s)
           /\ \A i \in 1 .. Len(s) : i # 1 => i - 1 \in 1 .. Len(Tail(s)) /\ Tail(s)[i - 1] = s[i]
  OBVIOUS

LEMMA FrontFacts ==
    ASSUME NEW S, NEW s \in Seq(S), NEW k \in 1 .. Len(s)
    PROVE  /\ SubSeq(s, 1, k - 1) \in Seq(S)
           /\ Len(SubSeq(s, 1, k - 1)) = k - 1
           /\ \A i \in 1 .. k - 1 : SubSeq(s, 1, k - 1)[i] = s[i]
  OBVIOUS

LEMMA BackFacts ==
    ASSUME NEW S, NEW s \in Seq(S), NEW k \in 1 .. Len(s)
    PROVE  /\ SubSeq(s, k + 1, Len(s)) \in Seq(S)
           /\ Len(SubSeq(s, k + 1, Len(s))) = Len(s) - k
           /\ \A i \in 1 .. Len(s) - k : SubSeq(s, k + 1, Len(s))[i] = s[k + i]
  <1> DEFINE m == k + 1
             n == Len(s)
  <1>1. /\ m \in Int /\ n \in Int /\ m <= n + 1 /\ n - m + 1 = n - k
        /\ \A i \in m .. n : s[i] \in S
        /\ \A i \in 1 .. n - k : m + i - 1 = k + i
    OBVIOUS
  <1> HIDE DEF m
  <1>2. /\ SubSeq(s, m, n) \in Seq(S)
        /\ Len(SubSeq(s, m, n)) = IF m <= n THEN n - m + 1 ELSE 0
        /\ \A i \in 1 .. n - m + 1 : SubSeq(s, m, n)[i] = s[m + i - 1]
    BY <1>1, SubSeqProperties
  <1>3. PICK t : t = SubSeq(s, m, n)
    OBVIOUS
  <1>4. Len(t) = n - k /\ \A i \in 1 .. n - k : t[i] = s[k + i]
    BY <1>1, <1>2, <1>3
  <1> QED BY <1>2, <1>3, <1>4 DEF m

(* Taking one element out leaves the others in their order.                *)
LEMMA WithoutFacts ==
    ASSUME NEW S, NEW s \in Seq(S), NEW k \in 1 .. Len(s),
           \A i, j \in 1 .. Len(s) : s[i] = s[j] => i = j
    PROVE  /\ Without(s, s[k]) \in Seq(S)
           /\ Len(Without(s, s[k])) = Len(s) - 1
           /\ \A i \in 1 .. Len(s) - 1 :
                 Without(s, s[k])[i] = IF i < k THEN s[i] ELSE s[i + 1]
  <1>1. (CHOOSE i \in DOMAIN s : s[i] = s[k]) = k
    OBVIOUS
  <1>2. Without(s, s[k]) = SubSeq(s, 1, k - 1) \o SubSeq(s, k + 1, Len(s))
    BY <1>1 DEF Without, RemoveAt
  <1> DEFINE f == SubSeq(s, 1, k - 1)
             b == SubSeq(s, k + 1, Len(s))
  <1>3. f \in Seq(S) /\ Len(f) = k - 1 /\ \A i \in 1 .. k - 1 : f[i] = s[i]
    BY FrontFacts
  <1>4. b \in Seq(S) /\ Len(b) = Len(s) - k /\ \A i \in 1 .. Len(s) - k : b[i] = s[k + i]
    BY BackFacts
  <1>5. Without(s, s[k]) = f \o b
    BY <1>2
  <1> HIDE DEF f, b
  <1>6. /\ f \o b \in Seq(S)
        /\ Len(f \o b) = Len(s) - 1
        /\ \A i \in 1 .. Len(s) - 1 : (f \o b)[i] = IF i < k THEN s[i] ELSE s[i + 1]
    <2>1. Len(f) + Len(b) = Len(s) - 1
      BY <1>3, <1>4
    <2>2. /\ f \o b \in Seq(S)
          /\ Len(f \o b) = Len(f) + Len(b)
          /\ \A i \in 1 .. Len(f) + Len(b) :
                (f \o b)[i] = IF i <= Len(f) THEN f[i] ELSE b[i - Len(f)]
      <3>1. f \in Seq(S)
        BY <1>3
      <3>2. b \in Seq(S)
        BY <1>4
      <3> QED BY <3>1, <3>2, ConcatProperties
    <2>3. ASSUME NEW i \in 1 .. Len(s) - 1
          PROVE  (f \o b)[i] = IF i < k THEN s[i] ELSE s[i + 1]
      <3>1. (f \o b)[i] = IF i <= k - 1 THEN f[i] ELSE b[i - (k - 1)]
        BY <1>3, <2>1, <2>2, Zenon
      <3>2. CASE i < k
        <4>1. i <= k - 1 /\ i \in 1 .. k - 1
          BY <3>2
        <4> QED BY <1>3, <3>1, <3>2, <4>1
      <3>3. CASE ~(i < k)
        <4>1. ~(i <= k - 1) /\ i - (k - 1) \in 1 .. Len(s) - k /\ k + (i - (k - 1)) = i + 1
          BY <3>3
        <4>2. b[i - (k - 1)] = s[i + 1]
          BY <1>4, <4>1
        <4> QED BY <3>1, <3>3, <4>1, <4>2
      <3> QED BY <3>2, <3>3
    <2> QED BY <2>1, <2>2, <2>3
  <1> QED BY <1>5, <1>6

-----------------------------------------------------------------------------
(* What the steps do to the messages.                                      *)

LEMMA AppendHolds ==
    ASSUME NEW S, NEW s \in Seq(S), NEW e \in S, NEW m
    PROVE  Holds(Append(s, e), m) <=> Holds(s, m) \/ m = e
  <1>1. ASSUME Holds(Append(s, e), m) PROVE Holds(s, m) \/ m = e
    BY <1>1, AppendFacts DEF Holds
  <1>2. ASSUME Holds(s, m) \/ m = e PROVE Holds(Append(s, e), m)
    BY <1>2, AppendFacts DEF Holds
  <1> QED BY <1>1, <1>2

LEMMA AppendOnce ==
    ASSUME NEW S, NEW s \in Seq(S), NEW e \in S, Once(s), ~Holds(s, e)
    PROVE  Once(Append(s, e))
  BY AppendFacts DEF Once, Holds

LEMMA TailHolds ==
    ASSUME NEW S, NEW s \in Seq(S), s # <<>>, Once(s), NEW m
    PROVE  /\ Once(Tail(s)) /\ ~Holds(Tail(s), Head(s))
           /\ Holds(s, m) <=> Holds(Tail(s), m) \/ m = Head(s)
  <1>1. Once(Tail(s))
    BY TailFacts DEF Once
  <1>2. ~Holds(Tail(s), Head(s))
    BY TailFacts DEF Once, Holds
  <1>3. ASSUME Holds(s, m) PROVE Holds(Tail(s), m) \/ m = Head(s)
    <2>1. PICK i \in 1 .. Len(s) : s[i] = m
      BY <1>3 DEF Holds
    <2>2. CASE i = 1
      BY <2>1, <2>2, TailFacts
    <2>3. CASE i # 1
      BY <2>1, <2>3, TailFacts DEF Holds
    <2> QED BY <2>2, <2>3
  <1>4. ASSUME Holds(Tail(s), m) \/ m = Head(s) PROVE Holds(s, m)
    BY <1>4, TailFacts DEF Holds
  <1> QED BY <1>1, <1>2, <1>3, <1>4

LEMMA WithoutHolds ==
    ASSUME NEW S, NEW s \in Seq(S), NEW e \in S, Once(s), Holds(s, e), NEW m
    PROVE  /\ Without(s, e) \in Seq(S) /\ Once(Without(s, e))
           /\ Holds(Without(s, e), m) <=> Holds(s, m) /\ m # e
  <1>1. PICK k \in 1 .. Len(s) : s[k] = e
    BY DEF Holds
  <1> DEFINE t == Without(s, e)
  <1>2. /\ t \in Seq(S) /\ Len(t) = Len(s) - 1 /\ Len(s) \in Nat
        /\ \A i \in 1 .. Len(s) - 1 : t[i] = IF i < k THEN s[i] ELSE s[i + 1]
    <2>1. \A i, j \in 1 .. Len(s) : s[i] = s[j] => i = j
      BY DEF Once
    <2>2. /\ Without(s, s[k]) \in Seq(S) /\ Len(Without(s, s[k])) = Len(s) - 1
          /\ \A i \in 1 .. Len(s) - 1 :
                Without(s, s[k])[i] = IF i < k THEN s[i] ELSE s[i + 1]
      BY <2>1, WithoutFacts
    <2>3. t = Without(s, s[k])
      BY <1>1
    <2> QED BY <2>2, <2>3
  <1> HIDE DEF t
  <1>3. Once(t)
    BY <1>2 DEF Once
  <1>4. ASSUME Holds(t, m) PROVE Holds(s, m) /\ m # e
    <2>1. PICK i \in 1 .. Len(s) - 1 : t[i] = m
      BY <1>2, <1>4 DEF Holds
    <2> QED BY <1>1, <1>2, <2>1 DEF Holds, Once
  <1>5. ASSUME Holds(s, m), m # e PROVE Holds(t, m)
    <2>1. PICK i \in 1 .. Len(s) : s[i] = m
      BY <1>5 DEF Holds
    <2>2. CASE i < k
      <3>1. i \in 1 .. Len(s) - 1 /\ t[i] = m
        BY <1>2, <2>1, <2>2
      <3> QED BY <1>2, <3>1 DEF Holds
    <2>3. CASE i > k
      <3>1. i - 1 \in 1 .. Len(s) - 1 /\ t[i - 1] = m
        BY <1>2, <2>1, <2>3
      <3> QED BY <1>2, <3>1 DEF Holds
    <2> QED BY <1>1, <1>5, <2>1, <2>2, <2>3
  <1> QED BY <1>2, <1>3, <1>4, <1>5 DEF t

(* A message is put for the first time.                                    *)
LEMMA PutNew ==
    ASSUME NEW q \in Seq(Msg), NEW a \in Seq(Msg), NEW h, NEW m \in Msg, NEW r,
           Placed(q, h, a), InOrder(q, a, r), ~Holds(a, m)
    PROVE  /\ Placed(Append(q, m), h, Append(a, m))
           /\ InOrder(Append(q, m), Append(a, m), r)
  <1>1. ~Holds(q, m) /\ \A l \in Loop : h[l] # m
    BY DEF Placed
  <1>2. \A n : /\ Holds(Append(q, m), n) <=> Holds(q, n) \/ n = m
               /\ Holds(Append(a, m), n) <=> Holds(a, n) \/ n = m
    BY AppendHolds
  <1>3. Once(Append(q, m)) /\ Once(Append(a, m))
    BY <1>1, AppendOnce DEF Placed
  <1>4. Placed(Append(q, m), h, Append(a, m))
    BY <1>1, <1>2, <1>3 DEF Placed
  <1>5. ASSUME NEW i \in 1 .. Len(Append(a, m)), NEW j \in 1 .. Len(Append(a, m)),
               i < j, Append(a, m)[i] \notin r,
               NEW x \in 1 .. Len(Append(q, m)), Append(q, m)[x] = Append(a, m)[i]
        PROVE  \E y \in 1 .. Len(Append(q, m)) : x < y /\ Append(q, m)[y] = Append(a, m)[j]
    <2>1. i \in 1 .. Len(a) /\ Append(a, m)[i] = a[i]
      BY <1>5, AppendFacts
    <2>2. a[i] # m
      BY <2>1 DEF Holds
    <2>3. x \in 1 .. Len(q) /\ q[x] = a[i]
      BY <1>5, <2>1, <2>2, AppendFacts
    <2>4. CASE j \in 1 .. Len(a)
      <3>1. Append(a, m)[j] = a[j]
        BY <2>4, AppendFacts
      <3>2. PICK y \in 1 .. Len(q) : x < y /\ q[y] = a[j]
        BY <1>5, <2>1, <2>3, <2>4 DEF InOrder
      <3>3. y \in 1 .. Len(Append(q, m)) /\ Append(q, m)[y] = q[y]
        BY AppendFacts
      <3> QED BY <3>1, <3>2, <3>3
    <2>5. CASE j \notin 1 .. Len(a)
      <3>1. Append(a, m)[j] = m
        BY <2>5, AppendFacts
      <3>2. /\ Len(q) + 1 \in 1 .. Len(Append(q, m)) /\ x < Len(q) + 1
            /\ Append(q, m)[Len(q) + 1] = m
        BY <2>3, AppendFacts
      <3> QED BY <3>1, <3>2
    <2> QED BY <2>4, <2>5
  <1> QED BY <1>4, <1>5 DEF InOrder

(* A loop takes the head of the queue.                                     *)
LEMMA TakeHead ==
    ASSUME NEW q \in Seq(Msg), NEW a \in Seq(Msg), NEW r, NEW k \in Loop,
           NEW h \in [Loop -> Msg \cup {NoMsg}],
           q # <<>>, h[k] = NoMsg, Placed(q, h, a), InOrder(q, a, r)
    PROVE  /\ Placed(Tail(q), [h EXCEPT ![k] = Head(q)], a)
           /\ InOrder(Tail(q), a, r)
  <1> DEFINE g == [h EXCEPT ![k] = Head(q)]
  <1>1. /\ Head(q) \in Msg /\ Once(Tail(q)) /\ ~Holds(Tail(q), Head(q)) /\ Holds(q, Head(q))
        /\ \A n : Holds(q, n) <=> Holds(Tail(q), n) \/ n = Head(q)
    BY TailFacts, TailHolds DEF Placed
  <1>2. g[k] = Head(q) /\ \A l \in Loop \ {k} : g[l] = h[l] /\ h[l] # Head(q)
    BY <1>1 DEF Placed
  <1>3. \A l, n \in Loop : g[l] = g[n] /\ g[l] # NoMsg => l = n
    BY <1>2 DEF Placed
  <1>4. \A l \in Loop : ~Holds(Tail(q), g[l])
    BY <1>1, <1>2 DEF Placed
  <1>5. ASSUME NEW m \in Msg
        PROVE  Holds(a, m) <=> Holds(Tail(q), m) \/ \E l \in Loop : g[l] = m
    <2>1. (\E l \in Loop : g[l] = m) <=> m = Head(q) \/ \E l \in Loop : h[l] = m
      BY <1>1, <1>2, NoMsgAssumption
    <2> QED BY <1>1, <2>1 DEF Placed
  <1>6. Placed(Tail(q), g, a)
    BY <1>1, <1>3, <1>4, <1>5 DEF Placed
  <1>7. ASSUME NEW i \in 1 .. Len(a), NEW j \in 1 .. Len(a), i < j, a[i] \notin r,
               NEW x \in 1 .. Len(Tail(q)), Tail(q)[x] = a[i]
        PROVE  \E y \in 1 .. Len(Tail(q)) : x < y /\ Tail(q)[y] = a[j]
    <2>1. x + 1 \in 1 .. Len(q) /\ q[x + 1] = a[i] /\ x \in Nat /\ x >= 1
      BY <1>7, TailFacts
    <2>2. PICK y \in 1 .. Len(q) : x + 1 < y /\ q[y] = a[j]
      BY <1>7, <2>1 DEF InOrder
    <2>3. y # 1 /\ x < y - 1
      BY <2>1, <2>2
    <2>4. y - 1 \in 1 .. Len(Tail(q)) /\ Tail(q)[y - 1] = q[y]
      BY <2>3, TailFacts
    <2> QED BY <2>2, <2>3, <2>4
  <1> QED BY <1>6, <1>7 DEF InOrder

(* A loop has sent the message in its hand.                                *)
LEMMA TakeOut ==
    ASSUME NEW q \in Seq(Msg), NEW a \in Seq(Msg), NEW r, NEW k \in Loop,
           NEW h \in [Loop -> Msg \cup {NoMsg}],
           h[k] \in Msg, Placed(q, h, a), InOrder(q, a, r)
    PROVE  /\ Without(a, h[k]) \in Seq(Msg)
           /\ Placed(q, [h EXCEPT ![k] = NoMsg], Without(a, h[k]))
           /\ InOrder(q, Without(a, h[k]), r \ {h[k]})
  <1> DEFINE g == [h EXCEPT ![k] = NoMsg]
             b == Without(a, h[k])
  <1>1. Once(a) /\ Holds(a, h[k]) /\ ~Holds(q, h[k])
    BY DEF Placed
  <1>2. /\ b \in Seq(Msg) /\ Once(b)
        /\ \A n : Holds(b, n) <=> Holds(a, n) /\ n # h[k]
    BY <1>1, WithoutHolds
  <1>3. g[k] = NoMsg /\ \A l \in Loop \ {k} : g[l] = h[l] /\ h[l] # h[k]
    BY NoMsgAssumption DEF Placed
  <1>4. \A l, n \in Loop : g[l] = g[n] /\ g[l] # NoMsg => l = n
    BY <1>3 DEF Placed
  <1>5. \A l \in Loop : ~Holds(q, g[l])
    <2>1. ~Holds(q, NoMsg)
      BY NoMsgAssumption DEF Holds
    <2> QED BY <1>3, <2>1 DEF Placed
  <1>6. ASSUME NEW m \in Msg
        PROVE  Holds(b, m) <=> Holds(q, m) \/ \E l \in Loop : g[l] = m
    <2>1. (\E l \in Loop : g[l] = m) <=> m # h[k] /\ \E l \in Loop : h[l] = m
      BY <1>3, NoMsgAssumption
    <2> QED BY <1>1, <1>2, <2>1 DEF Placed
  <1>7. Placed(q, g, b)
    <2> HIDE DEF g, b
    <2> QED BY <1>2, <1>4, <1>5, <1>6 DEF Placed
  <1>8. PICK p \in 1 .. Len(a) : a[p] = h[k]
    BY <1>1 DEF Holds
  <1>9. /\ Len(a) \in Nat /\ Len(b) = Len(a) - 1
        /\ \A i \in 1 .. Len(a) - 1 : b[i] = IF i < p THEN a[i] ELSE a[i + 1]
    <2>1. \A i, j \in 1 .. Len(a) : a[i] = a[j] => i = j
      BY <1>1 DEF Once
    <2>2. /\ Len(Without(a, a[p])) = Len(a) - 1
          /\ \A i \in 1 .. Len(a) - 1 : Without(a, a[p])[i] = IF i < p THEN a[i] ELSE a[i + 1]
      BY <2>1, WithoutFacts
    <2>3. b = Without(a, a[p])
      BY <1>8
    <2> QED BY <2>2, <2>3
  <1> DEFINE old(i) == IF i < p THEN i ELSE i + 1
  <1>10. \A i \in 1 .. Len(b) : old(i) \in 1 .. Len(a) /\ b[i] = a[old(i)]
    <2> HIDE DEF b
    <2> QED BY <1>9
  <1>11. \A i, j \in 1 .. Len(b) : i < j => old(i) < old(j)
    <2> HIDE DEF b
    <2> QED BY <1>9
  <1>12. ASSUME NEW i \in 1 .. Len(b), NEW j \in 1 .. Len(b), i < j, b[i] \notin r \ {h[k]},
                NEW x \in 1 .. Len(q), q[x] = b[i]
         PROVE  \E y \in 1 .. Len(q) : x < y /\ q[y] = b[j]
    <2> HIDE DEF old, b
    <2>1. b[i] # h[k]
      BY <1>1, <1>12 DEF Holds
    <2>2. a[old(i)] \notin r /\ q[x] = a[old(i)] /\ old(i) < old(j)
      BY <1>10, <1>11, <1>12, <2>1
    <2> QED BY <1>10, <2>2 DEF InOrder
  <1>13. InOrder(q, b, r \ {h[k]})
    <2> HIDE DEF b
    <2> QED BY <1>12 DEF InOrder
  <1> QED BY <1>2, <1>7, <1>13

(* A loop puts the message back whose send has failed.                     *)
LEMMA PutBack ==
    ASSUME NEW q \in Seq(Msg), NEW a \in Seq(Msg), NEW r, NEW k \in Loop,
           NEW h \in [Loop -> Msg \cup {NoMsg}],
           h[k] \in Msg, Placed(q, h, a), InOrder(q, a, r)
    PROVE  /\ Placed(Append(q, h[k]), [h EXCEPT ![k] = NoMsg], a)
           /\ InOrder(Append(q, h[k]), a, r \cup {h[k]})
  <1> DEFINE g == [h EXCEPT ![k] = NoMsg]
             p == Append(q, h[k])
  <1>1. /\ ~Holds(q, h[k]) /\ Once(p)
        /\ \A n : Holds(p, n) <=> Holds(q, n) \/ n = h[k]
    BY AppendHolds, AppendOnce DEF Placed
  <1>2. g[k] = NoMsg /\ \A l \in Loop \ {k} : g[l] = h[l] /\ h[l] # h[k]
    BY NoMsgAssumption DEF Placed
  <1>3. \A l, n \in Loop : g[l] = g[n] /\ g[l] # NoMsg => l = n
    BY <1>2 DEF Placed
  <1>4. \A l \in Loop : ~Holds(p, g[l])
    <2>1. ~Holds(p, NoMsg)
      BY <1>1, NoMsgAssumption DEF Holds
    <2> QED BY <1>1, <1>2, <2>1 DEF Placed
  <1>5. ASSUME NEW m \in Msg
        PROVE  Holds(a, m) <=> Holds(p, m) \/ \E l \in Loop : g[l] = m
    <2>1. (\E l \in Loop : g[l] = m) <=> m # h[k] /\ \E l \in Loop : h[l] = m
      BY <1>2, NoMsgAssumption
    <2>2. Holds(a, h[k])
      BY DEF Placed
    <2> QED BY <1>1, <2>1, <2>2 DEF Placed
  <1>6. Placed(p, g, a)
    <2> HIDE DEF g, p
    <2> QED BY <1>1, <1>3, <1>4, <1>5 DEF Placed
  <1>7. ASSUME NEW i \in 1 .. Len(a), NEW j \in 1 .. Len(a), i < j, a[i] \notin r \cup {h[k]},
               NEW x \in 1 .. Len(p), p[x] = a[i]
        PROVE  \E y \in 1 .. Len(p) : x < y /\ p[y] = a[j]
    <2>1. x \in 1 .. Len(q) /\ q[x] = a[i]
      BY <1>7, AppendFacts
    <2>2. PICK y \in 1 .. Len(q) : x < y /\ q[y] = a[j]
      BY <1>7, <2>1 DEF InOrder
    <2>3. y \in 1 .. Len(p) /\ p[y] = q[y]
      BY AppendFacts
    <2> QED BY <2>2, <2>3
  <1> QED BY <1>6, <1>7 DEF InOrder

-----------------------------------------------------------------------------
(* The messages of the specification.                                      *)

LEMMA InitMessages == Init => MessagesOK
  <1> SUFFICES ASSUME Init PROVE MessagesOK
    OBVIOUS
  <1>1. /\ queue = <<>> /\ accepted = <<>> /\ requeued = {}
        /\ \A l \in Loop : held[l] = NoMsg
    BY DEF Init
  <1>2. Placed(queue, held, accepted)
    BY <1>1, NoMsgAssumption DEF Placed, Holds, Once
  <1> QED BY <1>1, <1>2 DEF MessagesOK, InOrder

(* get, by a loop with nothing in its hand.                                *)
LEMMA GetMessages ==
    ASSUME LoopsOK, NEW k \in Loop, Get(k), NEW h \in [Loop -> Msg \cup {NoMsg}],
           \A l \in Loop \ {k} : h[l] = held[l], h[k] = NoMsg,
           \A l \in Loop : held[l] # NoMsg => loopPc[l] = "sending",
           NEW a \in Seq(Msg), NEW r, Placed(queue, h, a), InOrder(queue, a, r)
    PROVE  /\ Placed(queue', held', a) /\ InOrder(queue', a, r)
           /\ \A l \in Loop : held'[l] # NoMsg => loopPc'[l] = "sending"
  <1>1. CASE queue = <<>>
    <2>1. /\ loopPc' = [loopPc EXCEPT ![k] = "parked"] /\ queue' = queue
          /\ held' = [held EXCEPT ![k] = NoMsg]
      BY <1>1 DEF Get
    <2>2. held' = h
      BY <2>1 DEF LoopsOK
    <2> QED BY <2>1, <2>2 DEF LoopsOK
  <1>2. CASE queue # <<>>
    <2>1. /\ loopPc' = [loopPc EXCEPT ![k] = "sending"]
          /\ held' = [held EXCEPT ![k] = Head(queue)]
          /\ queue' = Tail(queue)
      BY <1>2 DEF Get
    <2>2. held' = [h EXCEPT ![k] = Head(queue)]
      BY <2>1 DEF LoopsOK
    <2>3. queue \in Seq(Msg)
      BY DEF LoopsOK
    <2>4. Placed(Tail(queue), [h EXCEPT ![k] = Head(queue)], a) /\ InOrder(Tail(queue), a, r)
      BY <1>2, <2>3, TakeHead
    <2>5. Placed(queue', held', a) /\ InOrder(queue', a, r)
      BY <2>1, <2>2, <2>4
    <2> QED BY <2>1, <2>5 DEF LoopsOK
  <1> QED BY <1>1, <1>2

LEMMA StepMessages ==
    ASSUME Inv, MessagesOK, [Next]_vars
    PROVE  MessagesOK'
  <1> USE DEF Inv
  <1>1. ASSUME NEW m \in Msg, Put(m) PROVE MessagesOK'
    <2>1. ~Holds(accepted, m)
      BY <1>1 DEF Put, Holds, ToSet, MessagesOK
    <2>2. /\ queue' = Append(queue, m) /\ accepted' = Append(accepted, m)
          /\ held' = held /\ requeued' = requeued
      BY <1>1 DEF Put, PutAnd
    <2>3. Placed(queue', held', accepted') /\ InOrder(queue', accepted', requeued')
      BY <2>1, <2>2, PutNew DEF MessagesOK, LoopsOK
    <2>4. ASSUME NEW l \in Loop, held'[l] # NoMsg PROVE loopPc'[l] = "sending"
      <3>1. loopPc[l] = "sending"
        BY <2>2, <2>4 DEF MessagesOK
      <3>2. getters # <<>> => loopPc[Head(getters)] = "parked" /\ Head(getters) \in Loop
        BY DEF GettersOK
      <3> QED BY <1>1, <3>1, <3>2 DEF Put, PutAnd, LoopsOK
    <2>5. accepted' \in Seq(Msg)
      BY <2>2 DEF MessagesOK
    <2> QED BY <2>2, <2>3, <2>4, <2>5 DEF MessagesOK
  <1>2. ASSUME NEW l \in Loop, Connect(l) PROVE MessagesOK'
    BY <1>2 DEF Connect, MessagesOK, LoopsOK
  <1>3. ASSUME NEW l \in Loop, SendLoopGets(l) PROVE MessagesOK'
    <2>1. /\ loopPc[l] \in {"new", "woken"} /\ Get(l)
          /\ accepted' = accepted /\ requeued' = requeued
      BY <1>3 DEF SendLoopGets
    <2>2. held[l] = NoMsg
      BY <2>1 DEF MessagesOK
    <2>3. /\ Placed(queue', held', accepted) /\ InOrder(queue', accepted, requeued)
          /\ \A k \in Loop : held'[k] # NoMsg => loopPc'[k] = "sending"
      BY <2>1, <2>2, GetMessages DEF MessagesOK, LoopsOK
    <2> QED BY <2>1, <2>3 DEF MessagesOK
  <1>4. ASSUME NEW l \in Loop, SendSucceeds(l) PROVE MessagesOK'
    <2> DEFINE h == [held EXCEPT ![l] = NoMsg]
               a == Without(accepted, held[l])
               r == requeued \ {held[l]}
    <2>1. /\ loopPc[l] = "sending" /\ Get(l) /\ held[l] \in Msg
          /\ accepted' = a /\ requeued' = r
      BY <1>4 DEF SendSucceeds, LoopsOK
    <2>2. a \in Seq(Msg) /\ Placed(queue, h, a) /\ InOrder(queue, a, r)
      BY <2>1, TakeOut DEF MessagesOK, LoopsOK
    <2>3. /\ h \in [Loop -> Msg \cup {NoMsg}] /\ h[l] = NoMsg
          /\ \A k \in Loop \ {l} : h[k] = held[k]
          /\ \A k \in Loop : held[k] # NoMsg => loopPc[k] = "sending"
      BY DEF LoopsOK, MessagesOK
    <2> HIDE DEF h, a, r
    <2>4. /\ Placed(queue', held', a) /\ InOrder(queue', a, r)
          /\ \A k \in Loop : held'[k] # NoMsg => loopPc'[k] = "sending"
      BY <2>1, <2>2, <2>3, GetMessages
    <2>5. r \in SUBSET Msg
      BY DEF r, MessagesOK
    <2> QED BY <2>1, <2>2, <2>4, <2>5 DEF MessagesOK
  <1>5. ASSUME NEW l \in Loop, SendFails(l) PROVE MessagesOK'
    <2>1. /\ loopPc[l] = "sending" /\ held[l] \in Msg
          /\ queue' = Append(queue, held[l])
          /\ held' = [held EXCEPT ![l] = NoMsg]
          /\ accepted' = accepted /\ requeued' = requeued \cup {held[l]}
      BY <1>5 DEF SendFails, PutAnd, LoopsOK
    <2>2. Placed(queue', held', accepted') /\ InOrder(queue', accepted', requeued')
      BY <2>1, PutBack DEF MessagesOK, LoopsOK
    <2>3. ASSUME NEW k \in Loop, held'[k] # NoMsg PROVE loopPc'[k] = "sending"
      <3>1. k # l /\ loopPc[k] = "sending"
        BY <2>1, <2>3 DEF MessagesOK, LoopsOK
      <3>2. getters # <<>> => loopPc[Head(getters)] = "parked" /\ Head(getters) \in Loop
        BY DEF GettersOK
      <3> QED BY <1>5, <3>1, <3>2 DEF SendFails, PutAnd, LoopsOK
    <2> QED BY <2>1, <2>2, <2>3 DEF MessagesOK
  <1>6. ASSUME UNCHANGED <<loopVars, accepted, requeued>> PROVE MessagesOK'
    BY <1>6 DEF loopVars, MessagesOK
  <1>7. ASSUME Restart PROVE MessagesOK'
    <2>1. /\ queue' = <<>> /\ accepted' = <<>> /\ requeued' = {}
          /\ \A l \in Loop : held'[l] = NoMsg
      BY <1>7 DEF Restart
    <2>2. Placed(queue', held', accepted')
      BY <2>1, NoMsgAssumption DEF Placed, Holds, Once
    <2> QED BY <2>1, <2>2 DEF MessagesOK, InOrder
  <1>8. CASE UNCHANGED vars
    BY <1>6, <1>8 DEF vars
  <1>9. ASSUME ConnectionEnds \/ RunGivesUp PROVE MessagesOK'
    BY <1>6, <1>9 DEF ConnectionEnds, RunGivesUp
  <1> QED
    BY <1>1, <1>2, <1>3, <1>4, <1>5, <1>7, <1>8, <1>9 DEF Next, SendLoopStep

(* One message has one place, counted.                                     *)
LEMMA CountPlaces ==
    ASSUME LoopsOK, MessagesOK
    PROVE  EachInOnePlace
  <1> SUFFICES ASSUME NEW m \in Msg
               PROVE  Places(m) = IF m \in ToSet(accepted) THEN 1 ELSE 0
    BY DEF EachInOnePlace
  <1> DEFINE Q == {i \in DOMAIN queue : queue[i] = m}
             H == {l \in Loop : held[l] = m}
  <1>1. m \in ToSet(accepted) <=> Holds(accepted, m)
    BY DEF ToSet, Holds, MessagesOK
  <1>2. Holds(queue, m) => \E i : Q = {i}
    <2> SUFFICES ASSUME Holds(queue, m) PROVE \E i : Q = {i}
      OBVIOUS
    <2>1. DOMAIN queue = 1 .. Len(queue)
      BY DEF LoopsOK
    <2>2. PICK i \in 1 .. Len(queue) : queue[i] = m
      BY DEF Holds
    <2>3. \A x \in Q : x = i
      BY <2>1, <2>2 DEF MessagesOK, Placed, Once
    <2> QED BY <2>1, <2>2, <2>3
  <1>3. ~Holds(queue, m) => Q = {}
    BY DEF Holds, LoopsOK
  <1>4. (\E l \in Loop : held[l] = m) => \E l : H = {l}
    BY NoMsgAssumption DEF MessagesOK, Placed
  <1>5. ~(\E l \in Loop : held[l] = m) => H = {}
    OBVIOUS
  <1>6. /\ Holds(accepted, m) <=> Holds(queue, m) \/ \E l \in Loop : held[l] = m
        /\ ~(Holds(queue, m) /\ \E l \in Loop : held[l] = m)
    BY DEF MessagesOK, Placed
  <1>7. Cardinality({}) = 0 /\ \A x : Cardinality({x}) = 1
    BY FS_EmptySet, FS_Singleton
  <1>8. Places(m) = Cardinality(Q) + Cardinality(H)
    BY DEF Places
  <1> HIDE DEF Q, H
  <1>9. Cardinality(Q) = IF Holds(queue, m) THEN 1 ELSE 0
    BY <1>2, <1>3, <1>7
  <1>10. Cardinality(H) = IF \E l \in Loop : held[l] = m THEN 1 ELSE 0
    BY <1>4, <1>5, <1>7
  <1> QED BY <1>1, <1>6, <1>8, <1>9, <1>10

(* A send that succeeds overtakes only messages that are late.             *)
LEMMA OvertakesTheLate ==
    ASSUME LoopsOK, MessagesOK, NEW l \in Loop, SendSucceeds(l),
           NEW i \in DOMAIN accepted,
           held[l] \in ToSet(SubSeq(accepted, i + 1, Len(accepted)))
    PROVE  Late(i)
  <1>1. l = cur /\ held[l] \in Msg /\ i \in 1 .. Len(accepted) /\ accepted[i] \in Msg
    BY DEF SendSucceeds, Alive, LoopsOK, MessagesOK
  <1>2. PICK j \in 1 .. Len(accepted) : i < j /\ accepted[j] = held[l]
    <2> DEFINE t == SubSeq(accepted, i + 1, Len(accepted))
    <2>1. /\ Len(t) = Len(accepted) - i /\ t \in Seq(Msg)
          /\ \A x \in 1 .. Len(accepted) - i : t[x] = accepted[i + x]
      BY <1>1, BackFacts DEF MessagesOK
    <2> HIDE DEF t
    <2>2. PICK x \in DOMAIN t : t[x] = held[l]
      BY DEF ToSet, t
    <2>3. x \in 1 .. Len(accepted) - i
      BY <2>1, <2>2
    <2>4. i + x \in 1 .. Len(accepted) /\ i < i + x /\ accepted[i + x] = held[l]
      BY <1>1, <2>1, <2>2, <2>3 DEF MessagesOK
    <2> QED BY <2>4
  <1>3. CASE Holds(queue, accepted[i])
    <2>1. PICK x \in 1 .. Len(queue) : queue[x] = accepted[i]
      BY <1>3 DEF Holds
    <2>2. ~Holds(queue, accepted[j])
      BY <1>2 DEF MessagesOK, Placed
    <2>3. accepted[i] \in requeued
      BY <1>1, <1>2, <2>1, <2>2 DEF MessagesOK, InOrder, Holds
    <2> QED BY <2>3 DEF Late
  <1>4. CASE ~Holds(queue, accepted[i])
    <2>1. PICK k \in Loop : held[k] = accepted[i]
      BY <1>1, <1>4 DEF MessagesOK, Placed, Holds
    <2>2. k # l
      BY <1>1, <1>2, <2>1 DEF MessagesOK, Placed, Once
    <2> QED BY <1>1, <2>1, <2>2 DEF Late
  <1> QED BY <1>3, <1>4

-----------------------------------------------------------------------------
(* A message never lies in the queue while every loop that could take it   *)
(* sleeps: Queue.put wakes one getter for each message, and no step of a   *)
(* loop of an old connection swallows that wake-up.                        *)
THEOREM NoWakeupMissed ==
    ASSUME IsFiniteSet(Loop)
    PROVE  Spec => []NoMissedWakeup
  <1>1. Inv /\ [Next]_vars => Inv'
    BY StepInv
  <1>2. Inv => NoMissedWakeup
    BY DEF Inv
  <1> QED BY InitInv, <1>1, <1>2, PTL DEF Spec

(* The getters of the queue are the loops that are parked, each once, and  *)
(* a loop that is sending has a message in hand.                           *)
THEOREM GettersAreParked ==
    ASSUME IsFiniteSet(Loop)
    PROVE  Spec => [](LoopsOK /\ GettersOK)
  <1>1. Inv /\ [Next]_vars => Inv'
    BY StepInv
  <1>2. Inv => LoopsOK /\ GettersOK
    BY DEF Inv
  <1> QED BY InitInv, <1>1, <1>2, PTL DEF Spec

LEMMA Invariant ==
    ASSUME IsFiniteSet(Loop)
    PROVE  Spec => [](Inv /\ MessagesOK)
  <1>1. Inv /\ [Next]_vars => Inv'
    BY StepInv
  <1>2. Inv /\ MessagesOK /\ [Next]_vars => MessagesOK'
    BY StepMessages
  <1> QED BY InitInv, InitMessages, <1>1, <1>2, PTL DEF Spec

(* Every variable keeps its type: the getters of the queue are the loops   *)
(* that are parked, and a loop has a message in hand exactly while it      *)
(* sends.                                                                  *)
THEOREM TypeCorrect ==
    ASSUME IsFiniteSet(Loop)
    PROVE  Spec => []TypeOK
  <1> DEFINE ConnOK == cur \in Loop \cup {NoLoop} /\ ws \in {"open", "broken", "closed"}
  <1>1. Init => ConnOK
    BY DEF Init
  <1>2. ConnOK /\ [Next]_vars => ConnOK'
    BY DEF Next, vars, Put, Connect, SendLoopStep, SendLoopGets, SendSucceeds, SendFails,
           ConnectionEnds, RunGivesUp, Restart
  <1>3. Inv /\ MessagesOK /\ ConnOK => TypeOK
    <2> SUFFICES ASSUME Inv, MessagesOK, ConnOK PROVE TypeOK
      OBVIOUS
    <2>1. ToSet(getters) = {l \in Loop : loopPc[l] = "parked"}
      BY DEF Inv, GettersOK, ToSet
    <2>2. \A l \in Loop : held[l] # NoMsg <=> loopPc[l] = "sending"
      BY NoMsgAssumption DEF Inv, LoopsOK, MessagesOK
    <2> QED BY <2>1, <2>2 DEF TypeOK, Inv, LoopsOK, GettersOK, MessagesOK
  <1> HIDE DEF ConnOK
  <1> QED BY Invariant, <1>1, <1>2, <1>3, PTL DEF Spec

(* The loops that take messages out of the queue and put them back neither *)
(* lose nor duplicate one, however many loops of old connections there are *)
(* and whenever their sends fail.                                          *)
THEOREM NothingLostOrDoubled ==
    ASSUME IsFiniteSet(Loop)
    PROVE  Spec => []EachInOnePlace
  <1>1. Inv /\ MessagesOK => EachInOnePlace
    BY CountPlaces DEF Inv
  <1> QED BY Invariant, <1>1, PTL

(* Messages leave in the order they were put, except that one is overtaken *)
(* while a loop of a dead connection holds it or after its send failed.    *)
THEOREM OrderIsKept ==
    ASSUME IsFiniteSet(Loop)
    PROVE  Spec => OvertakenOnlyAfterFailure
  <1>1. Inv /\ MessagesOK =>
            \A l \in Loop : SendSucceeds(l) =>
               \A i \in DOMAIN accepted :
                  held[l] \in ToSet(SubSeq(accepted, i + 1, Len(accepted))) => Late(i)
    BY OvertakesTheLate DEF Inv
  <1> QED BY Invariant, <1>1, PTL DEF OvertakenOnlyAfterFailure
=============================================================================
