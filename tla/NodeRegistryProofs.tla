-------------------------- MODULE NodeRegistryProofs --------------------------
(***************************************************************************)
(* Proofs about NodeRegistry, for any nodes, addresses, requests and       *)
(* chats: its types, the agreement of status and last_seen, where a status *)
(* comes from, and that only a registration creates a row.                 *)
(***************************************************************************)
EXTENDS NodeRegistry, TLAPS

-----------------------------------------------------------------------------
(* Types *)

\* What the type invariant says of a check under way.
LEMMA CheckTypes ==
    ASSUME TypeOK, NEW k \in Checkers, ~Idle(k)
    PROVE  /\ check[k] \in Check
           /\ check[k].node \in Nodes /\ check[k].addr \in Addresses
           /\ check[k].found \in {"asked", "online", "offline"}
  BY DEF TypeOK, Idle, Check

\* A check may be begun for a node and an address, and may be given up.
LEMMA CheckUpdates ==
    ASSUME TypeOK, NEW k \in Checkers
    PROVE  /\ [check EXCEPT ![k] = NoCheck] \in [Checkers -> Check \cup {NoCheck}]
           /\ \A n \in Nodes, a \in Addresses :
                /\ Ask(n, a) \in Check
                /\ [check EXCEPT ![k] = Ask(n, a)] \in [Checkers -> Check \cup {NoCheck}]
  BY DEF TypeOK, Ask, Check

\* The answer of a ping fits a check.
LEMMA AnswerUpdates ==
    ASSUME TypeOK, NEW k \in Checkers, ~Idle(k), NEW f \in {"online", "offline"}
    PROVE  [check EXCEPT ![k].found = f] \in [Checkers -> Check \cup {NoCheck}]
  <1>1. check[k] \in Check BY CheckTypes
  <1>2. [check[k] EXCEPT !.found = f] \in Check BY <1>1 DEF Check
  <1> QED BY <1>2 DEF TypeOK

\* Every step keeps the types.
LEMMA TypeStep == TypeOK /\ [Next]_vars => TypeOK'
  <1> SUFFICES ASSUME TypeOK, [Next]_vars PROVE TypeOK' OBVIOUS
  <1> USE RegistryAssumption
  <1>1. ASSUME NEW r \in Requests, NEW n \in Nodes, NEW a \in Addresses, Register(r, n, a)
        PROVE  TypeOK'
    <2>1. check' \in [Checkers -> Check \cup {NoCheck}]
      BY <1>1, CheckUpdates DEF Register, Checkers
    <2> QED BY <1>1, <2>1 DEF Register, TypeOK, Registered
  <1>2. ASSUME NEW r \in Requests, NEW n \in Nodes, CheckHealth(r, n)
        PROVE  TypeOK'
    <2>1. addr[n] \in Addresses BY <1>2 DEF CheckHealth, TypeOK, Registered
    <2>2. check' \in [Checkers -> Check \cup {NoCheck}]
      BY <1>2, <2>1, CheckUpdates DEF CheckHealth, Checkers
    <2> QED BY <1>2, <2>2 DEF CheckHealth, TypeOK, Registered
  <1>3. ASSUME NEW n \in Nodes, Unregister(n) PROVE TypeOK'
    BY <1>3 DEF Unregister, TypeOK, Registered
  <1>4. ASSUME NEW c \in Chats, NEW n \in Nodes, Forward(c, n) PROVE TypeOK'
    <2>1. addr[n] \in Addresses BY <1>4 DEF Forward, Candidates, TypeOK, Registered
    <2>2. check' \in [Checkers -> Check \cup {NoCheck}]
      BY <1>4, <2>1, CheckUpdates DEF Forward, Checkers
    <2> QED BY <1>4, <2>2 DEF Forward, TypeOK, Registered
  <1>5. ASSUME NEW c \in Chats, Connect(c) PROVE TypeOK'
    <2>1. check' \in [Checkers -> Check \cup {NoCheck}]
      BY <1>5, CheckUpdates DEF Connect, Checkers
    <2> QED BY <1>5, <2>1 DEF Connect, TypeOK, Registered
  <1>6. ASSUME NEW c \in Chats, Refuse(c) PROVE TypeOK'
    <2>1. check' \in [Checkers -> Check \cup {NoCheck}]
      BY <1>6, AnswerUpdates DEF Refuse, Checkers
    <2> QED BY <1>6, <2>1 DEF Refuse, TypeOK, Registered
  <1>7. CASE StartRound
    <2>1. \A n \in Registered : Ask(n, addr[n]) \in Check
      BY DEF TypeOK, Registered, Ask, Check
    <2>2. check' \in [Checkers -> Check \cup {NoCheck}]
      BY <1>7, <2>1 DEF StartRound, TypeOK
    <2> QED BY <1>7, <2>2 DEF StartRound, TypeOK, Registered
  <1>8. ASSUME NEW k \in Checkers, Ping(k) PROVE TypeOK'
    <2>1. check' \in [Checkers -> Check \cup {NoCheck}]
      BY <1>8, AnswerUpdates DEF Ping
    <2> QED BY <1>8, <2>1 DEF Ping, TypeOK, Registered
  <1>9. ASSUME NEW k \in Checkers, Write(k) PROVE TypeOK'
    <2>1. check' \in [Checkers -> Check \cup {NoCheck}]
      BY <1>9, CheckUpdates DEF Write
    <2>2. /\ check[k].node \in Nodes /\ check[k].addr \in Addresses
          /\ check[k].found \in {"online", "offline"}
      BY <1>9, CheckTypes DEF Write
    <2> QED BY <1>9, <2>1, <2>2 DEF Write, TypeOK, Registered
  <1>10. ASSUME NEW k \in Checkers, WriteRaises(k) PROVE TypeOK'
    <2>1. check' \in [Checkers -> Check \cup {NoCheck}]
      BY <1>10, CheckUpdates DEF WriteRaises
    <2> QED BY <1>10, <2>1 DEF WriteRaises, TypeOK, Registered
  <1>11. ASSUME NEW a \in Addresses, Toggle(a) PROVE TypeOK'
    BY <1>11 DEF Toggle, TypeOK, Registered
  <1>12. CASE UNCHANGED vars BY <1>12 DEF vars, TypeOK, Registered
  <1> QED
    BY <1>1, <1>2, <1>3, <1>4, <1>5, <1>6, <1>7, <1>8, <1>9, <1>10, <1>11, <1>12 DEF Next

\* The registry keeps its types.
THEOREM RegistryTypes == Spec => []TypeOK
  <1>1. Init => TypeOK BY DEF Init, TypeOK, Registered
  <1> QED BY <1>1, TypeStep, PTL DEF Spec

-----------------------------------------------------------------------------
(* status and last_seen *)

\* One UPDATE writes both, and an upsert or a removal that resets the status
\* leaves nothing to disagree with.
LEMMA SeenStep == TypeOK /\ SeenAgreesWithStatus /\ [Next]_vars => SeenAgreesWithStatus'
  <1> SUFFICES ASSUME TypeOK, SeenAgreesWithStatus, [Next]_vars
               PROVE  SeenAgreesWithStatus'
    OBVIOUS
  <1> USE DEF SeenAgreesWithStatus, Registered
  <1>1. ASSUME NEW r \in Requests, NEW n \in Nodes, NEW a \in Addresses, Register(r, n, a)
        PROVE  SeenAgreesWithStatus'
    BY <1>1 DEF Register, TypeOK
  <1>2. ASSUME NEW n \in Nodes, Unregister(n) PROVE SeenAgreesWithStatus'
    BY <1>2 DEF Unregister, TypeOK
  <1>3. ASSUME NEW k \in Checkers, Write(k) PROVE SeenAgreesWithStatus'
    <2>1. check[k].node \in Nodes /\ check[k].found \in {"online", "offline"}
      BY <1>3, CheckTypes DEF Write
    <2> QED BY <1>3, <2>1 DEF Write, TypeOK
  <1>4. ASSUME UNCHANGED <<addr, status, seen>> PROVE SeenAgreesWithStatus'
    BY <1>4
  <1> QED
    BY <1>1, <1>2, <1>3, <1>4
    DEF Next, vars, CheckHealth, Forward, Connect, Refuse, StartRound, Ping,
        WriteRaises, Toggle

\* last_seen is set for an online node and NULL for an offline one, for any
\* number of nodes, requests and chats.
THEOREM SeenAgrees == Spec => []SeenAgreesWithStatus
  <1>1. Init => SeenAgreesWithStatus BY DEF Init, SeenAgreesWithStatus, Registered
  <1> QED BY <1>1, SeenStep, RegistryTypes, PTL DEF Spec

-----------------------------------------------------------------------------
(* Where a status comes from *)

\* A check under way pings the address its node's row has, unless the node was
\* registered anew at another one since.
ChecksAboutAddress ==
    \A k \in Checkers :
        ~Idle(k) /\ check[k].node \in Registered
            => check[k].addr = addr[check[k].node] \/ check[k].node \in overtaken

BasisInv == StatusAboutAddress /\ ChecksAboutAddress

\* Every step keeps what the statuses, and the checks under way, are about.
LEMMA BasisStep == TypeOK /\ BasisInv /\ [Next]_vars => BasisInv'
  <1> SUFFICES ASSUME TypeOK, BasisInv, [Next]_vars PROVE BasisInv' OBVIOUS
  <1> USE RegistryAssumption
  <1>A. /\ \A n \in Nodes, a \in Addresses : Ask(n, a) # NoCheck
        /\ Requests \subseteq Checkers /\ Chats \subseteq Checkers /\ Nodes \subseteq Checkers
    BY NoCheckAssumption DEF Ask, Check, Checkers
  <1>1. ASSUME NEW r \in Requests, NEW n \in Nodes, NEW a \in Addresses, Register(r, n, a)
        PROVE  BasisInv'
    <2>1. StatusAboutAddress'
      BY <1>1 DEF Register, BasisInv, StatusAboutAddress, Registered, TypeOK
    <2>2. ASSUME NEW k \in Checkers, ~Idle(k)', check'[k].node \in Registered'
          PROVE  check'[k].addr = addr'[check'[k].node] \/ check'[k].node \in overtaken'
      <3>1. CASE k = r
        BY <1>1, <3>1 DEF Register, Ask, TypeOK
      <3>2. CASE k # r
        <4>1. check'[k] = check[k] /\ ~Idle(k)
          BY <1>1, <2>2, <3>2 DEF Register, Idle, TypeOK
        <4>2. check[k].node \in Nodes BY <4>1, CheckTypes
        <4>3. CASE check[k].node = n
          BY <1>1, <4>1, <4>3 DEF Register, Stale, TypeOK
        <4>4. CASE check[k].node # n
          BY <1>1, <2>2, <4>1, <4>2, <4>4
          DEF Register, BasisInv, ChecksAboutAddress, Registered, TypeOK
        <4> QED BY <4>3, <4>4
      <3> QED BY <3>1, <3>2
    <2> QED BY <2>1, <2>2 DEF BasisInv, ChecksAboutAddress
  <1>2. ASSUME NEW n \in Nodes, Unregister(n) PROVE BasisInv'
    <2>1. StatusAboutAddress'
      BY <1>2 DEF Unregister, BasisInv, StatusAboutAddress, Registered, TypeOK
    <2>2. ChecksAboutAddress'
      BY <1>2 DEF Unregister, BasisInv, ChecksAboutAddress, Registered, Idle, TypeOK
    <2> QED BY <2>1, <2>2 DEF BasisInv
  <1>3. ASSUME NEW k \in Checkers, Write(k) PROVE BasisInv'
    <2>1. check[k].node \in Nodes /\ check[k].addr \in Addresses
      BY <1>3, CheckTypes DEF Write
    <2>2. StatusAboutAddress'
      BY <1>3, <2>1
      DEF Write, BasisInv, StatusAboutAddress, ChecksAboutAddress, Registered, TypeOK
    <2>3. ChecksAboutAddress'
      BY <1>3 DEF Write, BasisInv, ChecksAboutAddress, Registered, Idle, TypeOK
    <2> QED BY <2>2, <2>3 DEF BasisInv
  <1>4. ASSUME UNCHANGED <<addr, status, basis, overtaken>>,
               \A k \in Checkers : ~Idle(k)' =>
                   \/ ~Idle(k) /\ check'[k].node = check[k].node
                               /\ check'[k].addr = check[k].addr
                   \/ check'[k].addr = addr[check'[k].node]
        PROVE  BasisInv'
    BY <1>4 DEF BasisInv, StatusAboutAddress, ChecksAboutAddress, Registered
  <1>5. ASSUME NEW k \in Checkers, NEW n \in Nodes,
               UNCHANGED <<addr, status, basis, overtaken>>,
               check' = [check EXCEPT ![k] = Ask(n, addr[n])]
        PROVE  BasisInv'
    BY <1>4, <1>5 DEF Ask, Idle, TypeOK
  <1>6. ASSUME NEW k \in Checkers, UNCHANGED <<addr, status, basis, overtaken>>,
               check' = [check EXCEPT ![k] = NoCheck]
        PROVE  BasisInv'
    BY <1>4, <1>6 DEF Idle, TypeOK
  <1>7. ASSUME NEW k \in Checkers, NEW f \in {"online", "offline"}, ~Idle(k),
               UNCHANGED <<addr, status, basis, overtaken>>,
               check' = [check EXCEPT ![k].found = f]
        PROVE  BasisInv'
    <2>1. check[k] \in Check BY <1>7, CheckTypes
    <2>2. /\ check'[k].node = check[k].node /\ check'[k].addr = check[k].addr
          /\ \A j \in Checkers \ {k} : check'[j] = check[j]
      BY <1>7, <2>1 DEF Check, TypeOK
    <2> QED BY <1>4, <1>7, <2>2 DEF Idle
  <1>8. CASE StartRound
    <2>1. \A k \in Checkers : \/ check'[k] = check[k]
                              \/ k \in Nodes /\ check'[k] = Ask(k, addr[k])
      BY <1>8 DEF StartRound, Registered
    <2> QED BY <1>4, <1>8, <2>1 DEF StartRound, Ask, Idle
  <1>9. CASE UNCHANGED <<addr, status, basis, overtaken, check>>
    BY <1>4, <1>9 DEF Idle
  <1> QED
    BY <1>A, <1>1, <1>2, <1>3, <1>5, <1>6, <1>7, <1>8, <1>9
    DEF Next, vars, CheckHealth, Forward, Connect, Refuse, Ping, WriteRaises, Toggle

\* A status comes from a ping of the address the row has now, for any number of
\* nodes, addresses, requests and chats, except after a registration that
\* overtakes a check.
THEOREM StatusIsAboutAddress == Spec => []StatusAboutAddress
  <1>1. Init => BasisInv
    BY DEF Init, BasisInv, StatusAboutAddress, ChecksAboutAddress, Registered, Idle
  <1>2. Spec => []BasisInv BY <1>1, BasisStep, RegistryTypes, PTL DEF Spec
  <1>3. BasisInv => StatusAboutAddress BY DEF BasisInv
  <1> QED BY <1>2, <1>3, PTL

-----------------------------------------------------------------------------
(* Rows *)

\* Only a registration creates a row: no late answer of a ping brings a removed
\* node back.
THEOREM NoLateRow == Spec => NoResurrection
  <1>1. ASSUME [Next]_vars, NEW n \in Nodes, addr[n] = NoAddress, addr'[n] # NoAddress
        PROVE  \E r \in Requests, a \in Addresses : Register(r, n, a)
    <2>1. PICK r \in Requests, m \in Nodes, a \in Addresses : Register(r, m, a)
      <3>1. addr' # addr BY <1>1
      <3>2. ASSUME NEW m \in Nodes, Unregister(m) PROVE FALSE
        BY <1>1, <3>2 DEF Unregister
      <3> QED
        BY <1>1, <3>1, <3>2
        DEF Next, vars, CheckHealth, Forward, Connect, Refuse, StartRound, Ping,
            Write, WriteRaises, Toggle
    <2>2. m = n BY <1>1, <2>1 DEF Register
    <2> QED BY <2>1, <2>2
  <1>2. [Next]_vars => \A n \in Nodes : addr[n] = NoAddress /\ addr'[n] # NoAddress
                          => \E r \in Requests, a \in Addresses : Register(r, n, a)
    BY <1>1
  <1> QED BY <1>2, PTL DEF Spec, NoResurrection
=============================================================================
