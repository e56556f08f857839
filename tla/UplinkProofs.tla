---------------------------- MODULE UplinkProofs ----------------------------
(***************************************************************************)
(* Type correctness of module Uplink, that run() leaves no connection open *)
(* and that it bridges only to a relay that accepted it.                   *)
(***************************************************************************)
EXTENDS Uplink, SequenceTheorems, TLAPS

Reply == {"AuthOK", "AuthFail", "Start"}

-----------------------------------------------------------------------------
(* Type correctness.  The invariant is inductive as it stands; the actions *)
(* are taken in groups that change the same variables.                     *)

LEMMA TypeInit == Init => TypeOK
<1> SUFFICES ASSUME Init PROVE TypeOK
  OBVIOUS
<1>1. /\ pc \in Places /\ backoff \in {1, 2, 4, 8, 16, 32} /\ backoff # 32
      /\ relayConn = None /\ localConn = None /\ pumps = {} /\ pc = "resolve"
      /\ upstream = None
  BY DEF Init, Places
<1>5. /\ bridging \in BOOLEAN /\ stopping \in BOOLEAN /\ keysMatch \in BOOLEAN
      /\ netUp \in BOOLEAN
  BY Zenon DEF Init
<1>2. faults \in 0 .. MaxFaults
  BY BoundAssumption DEF Init
<1>3. /\ alive \in [Conns -> BOOLEAN] /\ request \in [RConns -> BOOLEAN]
      /\ rpc \in [RConns -> {"none", "first", "register", "fanout"}]
      /\ accepted \in [RConns -> BOOLEAN]
      /\ served \in [LConns -> BOOLEAN] /\ listening \in [LConns -> BOOLEAN]
  BY DEF Init
<1>4. /\ down \in [RConns -> Seq({"AuthOK", "AuthFail", "Start"})]
      /\ toLocal \in [LConns -> Seq({"AuthOK", "AuthFail", "Start"})]
  BY DEF Init
<1> QED BY <1>1, <1>2, <1>3, <1>4, <1>5 DEF TypeOK, Linked

(* Steps of main and run that touch no connection.                         *)
LEMMA TypeLoops ==
  TypeOK /\ (Resolve \/ ResolveAgain \/ DialFails \/ Redial \/ LocalFails
             \/ StepFails \/ BridgeEnds \/ Reconnect \/ Cancelled \/ Signal)
    => TypeOK'
<1> SUFFICES ASSUME TypeOK,
                    Resolve \/ ResolveAgain \/ DialFails \/ Redial \/ LocalFails
                    \/ StepFails \/ BridgeEnds \/ Reconnect \/ Cancelled \/ Signal
             PROVE  TypeOK'
  OBVIOUS
<1> USE ConnAssumption, BoundAssumption
    DEF TypeOK, Places, Linked, runVars, bridgeVars, relayVars, serverVars, worldVars
<1>1. CASE Resolve BY <1>1 DEF Resolve
<1>2. CASE ResolveAgain BY <1>2 DEF ResolveAgain
<1>3. CASE DialFails BY <1>3 DEF DialFails
<1>4. CASE Redial BY <1>4 DEF Redial
<1>5. CASE LocalFails BY <1>5 DEF LocalFails
<1>6. CASE StepFails BY <1>6 DEF StepFails, Goto
<1>7. CASE BridgeEnds BY <1>7 DEF BridgeEnds, Goto
<1>8. CASE Reconnect BY <1>8 DEF Reconnect, Goto
<1>9. CASE Cancelled
  <2>1. CASE pc \in {"resolve", "resolveWait", "wait"} /\ Goto("done")
    BY <2>1 DEF Goto
  <2>2. CASE pc \in {"dial", "dialWait", "local", "auth"} /\ Goto("return")
    BY <2>2 DEF Goto
  <2> QED BY <1>9, <2>1, <2>2, Zenon DEF Cancelled
<1>10. CASE Signal BY <1>10 DEF Signal
<1> QED BY <1>1, <1>2, <1>3, <1>4, <1>5, <1>6, <1>7, <1>8, <1>9, <1>10

(* Steps of run that open, use and close connections.                      *)
LEMMA TypeConnections ==
  TypeOK /\ (DialRelay \/ DialLocal \/ SendUplink \/ StartBridge \/ Return
             \/ \E side \in {"local", "relay"} : PumpEnds(side))
    => TypeOK'
<1> SUFFICES ASSUME TypeOK,
                    DialRelay \/ DialLocal \/ SendUplink \/ StartBridge \/ Return
                    \/ \E side \in {"local", "relay"} : PumpEnds(side)
             PROVE  TypeOK'
  OBVIOUS
<1> USE ConnAssumption, BoundAssumption
    DEF TypeOK, Places, Linked, Conns, runVars, bridgeVars, relayVars, serverVars,
        worldVars
<1>1. CASE DialRelay
  <2> PICK r \in RConns : /\ relayConn' = r
                          /\ alive' = [alive EXCEPT ![r] = TRUE]
                          /\ rpc' = [rpc EXCEPT ![r] = "first"]
                          /\ accepted' = [accepted EXCEPT ![r] = FALSE]
                          /\ request' = [request EXCEPT ![r] = FALSE]
                          /\ down' = [down EXCEPT ![r] = <<>>]
    BY <1>1 DEF DialRelay
  <2>1. /\ alive' \in [Conns -> BOOLEAN] /\ request' \in [RConns -> BOOLEAN]
        /\ rpc' \in [RConns -> {"none", "first", "register", "fanout"}]
        /\ accepted' \in [RConns -> BOOLEAN]
    OBVIOUS
  <2>2. down' \in [RConns -> Seq({"AuthOK", "AuthFail", "Start"})]
    OBVIOUS
  <2> QED BY <1>1, <2>1, <2>2 DEF DialRelay
<1>2. CASE DialLocal
  <2> PICK l \in LConns : /\ localConn' = l
                          /\ alive' = [alive EXCEPT ![l] = TRUE]
                          /\ served' = [served EXCEPT ![l] = TRUE]
                          /\ toLocal' = [toLocal EXCEPT ![l] = <<>>]
    BY <1>2 DEF DialLocal
  <2> QED BY <1>2 DEF DialLocal
<1>3. CASE SendUplink BY <1>3 DEF SendUplink
<1>4. CASE StartBridge BY <1>4 DEF StartBridge
<1>5. CASE Return BY <1>5 DEF Return
<1>6. ASSUME NEW side \in {"local", "relay"}, PumpEnds(side) PROVE TypeOK'
  <2>1. /\ pumps' \subseteq {"local", "relay"} /\ (pumps' # {} => pc = "bridge")
        /\ pc' = pc
    BY <1>6 DEF PumpEnds
  <2>2. bridging' \in BOOLEAN
    BY <1>6, Zenon DEF PumpEnds
  <2>3. /\ backoff' = backoff /\ relayConn' = relayConn /\ localConn' = localConn
        /\ stopping' = stopping /\ keysMatch' = keysMatch /\ netUp' = netUp
        /\ faults' = faults /\ alive' = alive /\ request' = request
        /\ down' = down /\ toLocal' = toLocal /\ rpc' = rpc
        /\ upstream' = upstream /\ accepted' = accepted /\ served' = served
        /\ listening' = listening
    BY <1>6 DEF PumpEnds
  <2> QED BY <2>1, <2>2, <2>3
<1> QED BY <1>1, <1>2, <1>3, <1>4, <1>5, <1>6

(* What the Writer keeps is a sequence of what it was given.               *)
LEMMA QueuedType ==
  ASSUME NEW q \in Seq(Reply), NEW d \in Reply
  PROVE  Queued(q, d) \in Seq(Reply)
<1>1. CASE Len(q) < linkDepth BY <1>1 DEF Queued
<1>2. CASE ~(Len(q) < linkDepth)
  <2>1. Len(q) > 0 BY <1>2, BoundAssumption
  <2>2. Tail(q) \in Seq(Reply) BY <2>1
  <2> QED BY <1>2, <2>2 DEF Queued
<1> QED BY <1>1, <1>2

(* Steps that take a datagram or add one.                                  *)
LEMMA TypeDatagrams ==
  TypeOK /\ (\/ AuthReply \/ PumpCommand \/ ClientCommand
             \/ \E r \in RConns : RelayAccepts(r) \/ Lose(r) \/ Overtake(r)
             \/ \E l \in LConns : ServerCommand(l))
    => TypeOK'
<1> SUFFICES ASSUME TypeOK,
                    \/ AuthReply \/ PumpCommand \/ ClientCommand
                    \/ \E r \in RConns : RelayAccepts(r) \/ Lose(r) \/ Overtake(r)
                    \/ \E l \in LConns : ServerCommand(l)
             PROVE  TypeOK'
  OBVIOUS
<1> USE ConnAssumption, BoundAssumption
    DEF TypeOK, Places, Linked, Conns, runVars, bridgeVars, relayVars, serverVars,
        worldVars
<1>1. CASE AuthReply BY <1>1 DEF AuthReply
<1>2. CASE PumpCommand
  <2>1. pc = "bridge" /\ relayConn \in RConns /\ localConn \in LConns
    BY <1>2 DEF PumpCommand
  <2>2. Head(down[relayConn]) \in Reply /\ Tail(down[relayConn]) \in Seq(Reply)
    BY <1>2, <2>1 DEF PumpCommand, Reply
  <2>3. Queued(toLocal[localConn], Head(down[relayConn])) \in Seq(Reply)
    BY <2>1, <2>2, QueuedType DEF Reply
  <2>4. toLocal' \in [LConns -> Seq(Reply)]
    BY <1>2, <2>1, <2>3 DEF PumpCommand, Reply
  <2> QED BY <1>2, <2>1, <2>2, <2>4 DEF PumpCommand, Reply
<1>3. CASE ClientCommand BY <1>3 DEF ClientCommand
<1>4. ASSUME NEW r \in RConns, RelayAccepts(r) PROVE TypeOK'
  <2>1. request' = [request EXCEPT ![r] = FALSE]
    BY <1>4, Zenon DEF RelayAccepts
  <2>2. \E d \in Reply, a, b \in BOOLEAN, place \in {"none", "register"} :
          /\ down' = [down EXCEPT ![r] = IF alive[r] THEN Append(@, d) ELSE @]
          /\ accepted' = IF a THEN [accepted EXCEPT ![r] = TRUE] ELSE accepted
          /\ alive' = IF b THEN [alive EXCEPT ![r] = FALSE] ELSE alive
          /\ rpc' = [rpc EXCEPT ![r] = place]
    <3>1. CASE keysMatch
      BY <1>4, <3>1 DEF RelayAccepts, Reply
    <3>2. CASE ~keysMatch
      BY <1>4, <3>2 DEF RelayAccepts, Reply
    <3> QED BY <3>1, <3>2
  <2>3. /\ rpc' \in [RConns -> {"none", "first", "register", "fanout"}]
        /\ accepted' \in [RConns -> BOOLEAN] /\ alive' \in [Conns -> BOOLEAN]
        /\ down' \in [RConns -> Seq({"AuthOK", "AuthFail", "Start"})]
    BY <2>2 DEF Reply
  <2> QED BY <1>4, <2>1, <2>3 DEF RelayAccepts
<1>5. ASSUME NEW r \in RConns, Lose(r) PROVE TypeOK'
  <2>1. faults' \in 0 .. MaxFaults
    BY <1>5 DEF Lose, Fault
  <2>2. CASE request[r] /\ request' = [request EXCEPT ![r] = FALSE] /\ UNCHANGED down
    BY <1>5, <2>1, <2>2 DEF Lose
  <2>3. CASE /\ down[r] # <<>> /\ down' = [down EXCEPT ![r] = Tail(@)]
             /\ UNCHANGED request
    <3>1. Tail(down[r]) \in Seq(Reply)
      BY <2>3 DEF Reply
    <3> QED BY <1>5, <2>1, <2>3, <3>1 DEF Lose, Reply
  <2> QED BY <1>5, <2>2, <2>3 DEF Lose
<1>6. ASSUME NEW r \in RConns, Overtake(r) PROVE TypeOK'
  <2>1. down[r] \in Seq(Reply) /\ Len(down[r]) > 1
    BY <1>6 DEF Overtake, Reply
  <2>2. Append(Tail(down[r]), Head(down[r])) \in Seq(Reply)
    BY <2>1
  <2> QED BY <1>6, <2>2 DEF Overtake, Fault, Reply
<1>7. ASSUME NEW l \in LConns, ServerCommand(l) PROVE TypeOK'
  <2>1. Tail(toLocal[l]) \in Seq(Reply)
    BY <1>7 DEF ServerCommand, Reply
  <2> QED BY <1>7, <2>1 DEF ServerCommand, Reply
<1> QED BY <1>1, <1>2, <1>3, <1>4, <1>5, <1>6, <1>7

(* The rest: the far ends and the network.                                 *)
LEMMA TypeFarEnds ==
  TypeOK /\ (\/ \E r \in RConns : RelayGivesUp(r) \/ RelayRegisters(r) \/ RelayEnds(r)
             \/ \E l \in LConns : ServerEnds(l)
             \/ \E c \in Conns : Die(c)
             \/ Outage \/ OutageEnds)
    => TypeOK'
<1> SUFFICES ASSUME TypeOK,
                    \/ \E r \in RConns : \/ RelayGivesUp(r) \/ RelayRegisters(r)
                                         \/ RelayEnds(r)
                    \/ \E l \in LConns : ServerEnds(l)
                    \/ \E c \in Conns : Die(c)
                    \/ Outage \/ OutageEnds
             PROVE  TypeOK'
  OBVIOUS
<1> USE ConnAssumption, BoundAssumption
    DEF TypeOK, Places, Linked, Conns, runVars, bridgeVars, relayVars, serverVars,
        worldVars, Fault
<1>1. ASSUME NEW r \in RConns, RelayGivesUp(r) PROVE TypeOK'
  BY <1>1 DEF RelayGivesUp
<1>2. ASSUME NEW r \in RConns, RelayRegisters(r) PROVE TypeOK'
  BY <1>2 DEF RelayRegisters
<1>3. ASSUME NEW r \in RConns, RelayEnds(r) PROVE TypeOK'
  BY <1>3 DEF RelayEnds
<1>4. ASSUME NEW l \in LConns, ServerEnds(l) PROVE TypeOK'
  BY <1>4 DEF ServerEnds
<1>5. ASSUME NEW c \in Conns, Die(c) PROVE TypeOK'
  <2>1. PICK arrived \in BOOLEAN :
          /\ request' = [r \in RConns |-> request[r] /\ (r = c => arrived)]
          /\ down' = [r \in RConns |-> IF r = c /\ ~arrived THEN <<>> ELSE down[r]]
    BY <1>5 DEF Die
  <2>2. request' \in [RConns -> BOOLEAN] BY <2>1
  <2>3. down' \in [RConns -> Seq(Reply)] BY <2>1 DEF Reply
  <2>4. alive' \in [Conns -> BOOLEAN] BY <1>5 DEF Die
  <2> QED BY <1>5, <2>2, <2>3, <2>4 DEF Die, Reply
<1>6. CASE Outage
  <2>1. faults' \in 0 .. MaxFaults
    BY <1>6 DEF Outage
  <2>2. netUp' \in BOOLEAN
    BY <1>6, Zenon DEF Outage
  <2> QED BY <1>6, <2>1, <2>2 DEF Outage
<1>7. CASE OutageEnds BY <1>7 DEF OutageEnds
<1> QED BY <1>1, <1>2, <1>3, <1>4, <1>5, <1>6, <1>7

(* Connection variables, backoffs and queues are what the code means them  *)
(* to be in every state, whatever fails.                                   *)
THEOREM TypeCorrect == Spec => []TypeOK
<1>1. TypeOK /\ [Next]_vars => TypeOK'
  <2> SUFFICES ASSUME TypeOK, [Next]_vars PROVE TypeOK' OBVIOUS
  <2>1. CASE UNCHANGED vars \/ Terminated
    <3>1. /\ pc' = pc /\ backoff' = backoff /\ relayConn' = relayConn
          /\ localConn' = localConn /\ pumps' = pumps /\ bridging' = bridging
          /\ stopping' = stopping /\ keysMatch' = keysMatch /\ netUp' = netUp
          /\ faults' = faults /\ alive' = alive /\ request' = request
          /\ down' = down /\ toLocal' = toLocal /\ rpc' = rpc
          /\ upstream' = upstream /\ accepted' = accepted /\ served' = served
          /\ listening' = listening
      BY <2>1 DEF vars, Terminated, runVars, bridgeVars, relayVars, serverVars,
                  worldVars
    <3> QED BY <3>1 DEF TypeOK
  <2> QED
    BY <2>1, TypeLoops, TypeConnections, TypeDatagrams, TypeFarEnds
    DEF Next, Run, Relay, Server
<1> QED BY TypeInit, <1>1, PTL DEF Spec
-----------------------------------------------------------------------------
(* No connection is left open.  The invariant is inductive given types: a  *)
(* connection opens only where its variable was None and is then set.      *)
Idle == {"resolve", "resolveWait", "dial", "dialWait", "wait", "done"}

(* A step that opens nothing and keeps the variables.                      *)
Keeps ==
  /\ relayConn' = relayConn /\ localConn' = localConn
  /\ \A c \in Conns : alive'[c] => alive[c]
  /\ pc' \in Idle => pc \in Idle
  /\ pc' = "local" => pc = "local"

LEMMA OpenKept == NothingLeftOpen /\ Keeps => NothingLeftOpen'
  BY DEF NothingLeftOpen, Keeps, Idle

LEMMA KeepsUplink ==
  ASSUME TypeOK,
         \/ Resolve \/ ResolveAgain \/ DialFails \/ Redial \/ LocalFails \/ StepFails
         \/ BridgeEnds \/ Reconnect \/ Cancelled \/ Signal \/ SendUplink
         \/ StartBridge \/ AuthReply \/ PumpCommand
         \/ \E side \in {"local", "relay"} : PumpEnds(side)
  PROVE  Keeps
<1> USE DEF Keeps, Idle, runVars
<1>1. CASE Resolve BY <1>1 DEF Resolve
<1>2. CASE ResolveAgain BY <1>2 DEF ResolveAgain
<1>3. CASE DialFails BY <1>3 DEF DialFails
<1>4. CASE Redial BY <1>4 DEF Redial
<1>5. CASE LocalFails BY <1>5 DEF LocalFails
<1>6. CASE StepFails BY <1>6 DEF StepFails, Goto
<1>7. CASE BridgeEnds BY <1>7 DEF BridgeEnds, Goto
<1>8. CASE Reconnect BY <1>8 DEF Reconnect, Goto
<1>9. CASE Cancelled BY <1>9 DEF Cancelled, Goto
<1>10. CASE Signal BY <1>10 DEF Signal
<1>11. CASE SendUplink BY <1>11 DEF SendUplink
<1>12. CASE StartBridge BY <1>12 DEF StartBridge
<1>13. CASE AuthReply BY <1>13 DEF AuthReply
<1>14. CASE PumpCommand BY <1>14 DEF PumpCommand
<1>15. CASE \E side \in {"local", "relay"} : PumpEnds(side) BY <1>15 DEF PumpEnds
<1> QED BY <1>1, <1>2, <1>3, <1>4, <1>5, <1>6, <1>7, <1>8, <1>9, <1>10, <1>11, <1>12,
           <1>13, <1>14, <1>15

LEMMA KeepsOthers ==
  ASSUME TypeOK,
         \/ ClientCommand \/ Outage \/ OutageEnds
         \/ \E r \in RConns : Relay(r) \/ Lose(r) \/ Overtake(r)
         \/ \E l \in LConns : Server(l)
         \/ \E c \in Conns : Die(c)
  PROVE  Keeps
<1>0. alive \in [Conns -> BOOLEAN] /\ RConns \subseteq Conns
      /\ (upstream # None => upstream \in Conns)
  BY DEF TypeOK, Conns
<1> USE <1>0 DEF Keeps, runVars
<1>1. CASE ClientCommand BY <1>1 DEF ClientCommand
<1>2. CASE Outage BY <1>2 DEF Outage
<1>3. CASE OutageEnds BY <1>3 DEF OutageEnds
<1>4. ASSUME NEW r \in RConns, Relay(r) PROVE Keeps
  <2>1. CASE RelayAccepts(r)
    <3>1. pc' = pc /\ relayConn' = relayConn /\ localConn' = localConn
      BY <2>1 DEF RelayAccepts
    <3>2. alive' = alive \/ alive' = [alive EXCEPT ![r] = FALSE]
      BY <2>1, Zenon DEF RelayAccepts
    <3> QED BY <3>1, <3>2
  <2>2. CASE RelayGivesUp(r) BY <2>2 DEF RelayGivesUp
  <2>3. CASE RelayRegisters(r) BY <2>3 DEF RelayRegisters
  <2>4. CASE RelayEnds(r) BY <2>4 DEF RelayEnds
  <2> QED BY <1>4, <2>1, <2>2, <2>3, <2>4 DEF Relay
<1>5. ASSUME NEW r \in RConns, Lose(r) PROVE Keeps BY <1>5 DEF Lose
<1>6. ASSUME NEW r \in RConns, Overtake(r) PROVE Keeps BY <1>6 DEF Overtake
<1>7. ASSUME NEW l \in LConns, Server(l) PROVE Keeps
  BY <1>7 DEF Server, ServerCommand, ServerEnds
<1>8. ASSUME NEW c \in Conns, Die(c) PROVE Keeps BY <1>8 DEF Die
<1> QED BY <1>1, <1>2, <1>3, <1>4, <1>5, <1>6, <1>7, <1>8

(* run() leaves nothing open, on whichever of its paths it returns.        *)
THEOREM NoLeak == Spec => []NothingLeftOpen
<1>1. Init => NothingLeftOpen
  BY ConnAssumption DEF Init, NothingLeftOpen
<1>2. TypeOK /\ NothingLeftOpen /\ [Next]_vars => NothingLeftOpen'
  <2> SUFFICES ASSUME TypeOK, NothingLeftOpen, [Next]_vars PROVE NothingLeftOpen'
    OBVIOUS
  <2>0. alive \in [Conns -> BOOLEAN] /\ RConns \subseteq Conns /\ LConns \subseteq Conns
    BY DEF TypeOK, Conns
  <2>1. CASE UNCHANGED vars \/ Terminated
    BY <2>1, OpenKept DEF Keeps, vars, Terminated, runVars
  <2>2. CASE DialRelay
    <3>1. PICK r \in RConns : relayConn' = r /\ alive' = [alive EXCEPT ![r] = TRUE]
      BY <2>2 DEF DialRelay
    <3>2. relayConn = None /\ localConn = None /\ pc' = "local" /\ localConn' = None
      BY <2>2 DEF DialRelay, NothingLeftOpen
    <3>3. \A c \in Conns : ~alive[c]
      BY <3>2, ConnAssumption DEF NothingLeftOpen
    <3> QED BY <2>0, <3>1, <3>2, <3>3 DEF NothingLeftOpen
  <2>3. CASE DialLocal
    <3>1. PICK l \in LConns : localConn' = l /\ alive' = [alive EXCEPT ![l] = TRUE]
      BY <2>3 DEF DialLocal
    <3>2. localConn = None /\ relayConn' = relayConn /\ pc' = "send"
      BY <2>3 DEF DialLocal, NothingLeftOpen
    <3> QED BY <2>0, <3>1, <3>2, ConnAssumption DEF NothingLeftOpen
  <2>4. CASE Return
    <3>1. relayConn' = None /\ localConn' = None /\ pc' # "local"
      BY <2>4 DEF Return
    <3>2. \A c \in Conns : ~alive'[c]
      BY <2>4 DEF Return, NothingLeftOpen
    <3> QED BY <3>1, <3>2 DEF NothingLeftOpen
  <2> QED
    BY <2>1, <2>2, <2>3, <2>4, KeepsUplink, KeepsOthers, OpenKept DEF Next, Run
<1> QED BY TypeCorrect, <1>1, <1>2, PTL DEF Spec
-----------------------------------------------------------------------------
(* Bridging only where accepted.  Inductive with: the relay accepts only a *)
(* matching key, an AuthOK under way was sent by a relay that accepted,    *)
(* and commands reach narrowcast only over a bridge.                       *)
OkMeans(q, ok) == \A i \in 1 .. Len(q) : q[i] = "AuthOK" => ok

Trust ==
  /\ \A r \in RConns : accepted[r] => keysMatch
  /\ \A r \in RConns : OkMeans(down[r], accepted[r])
  /\ \A l \in LConns : toLocal[l] # <<>> => keysMatch

LEMMA OkAppend ==
  ASSUME NEW q \in Seq(Reply), NEW ok \in BOOLEAN, OkMeans(q, ok),
         NEW d \in Reply, d = "AuthOK" => ok
  PROVE  OkMeans(Append(q, d), ok)
  BY DEF OkMeans

LEMMA OkTail ==
  ASSUME NEW q \in Seq(Reply), NEW ok \in BOOLEAN, OkMeans(q, ok), q # <<>>
  PROVE  OkMeans(Tail(q), ok) /\ (Head(q) = "AuthOK" => ok)
         /\ Tail(q) \in Seq(Reply) /\ Head(q) \in Reply
  BY DEF OkMeans

LEMMA OkRotate ==
  ASSUME NEW q \in Seq(Reply), NEW ok \in BOOLEAN, OkMeans(q, ok), q # <<>>
  PROVE  OkMeans(Append(Tail(q), Head(q)), ok) /\ Append(Tail(q), Head(q)) \in Seq(Reply)
<1>1. /\ OkMeans(Tail(q), ok) /\ (Head(q) = "AuthOK" => ok)
      /\ Tail(q) \in Seq(Reply) /\ Head(q) \in Reply
  BY OkTail
<1>2. OkMeans(Append(Tail(q), Head(q)), ok)
  BY <1>1, OkAppend
<1> QED BY <1>1, <1>2

(* A step that accepts nothing, answers nothing and listens to nothing.    *)
Calm ==
  /\ relayConn' = relayConn /\ keysMatch' = keysMatch /\ accepted' = accepted
  /\ down' = down
  /\ \A l \in LConns : /\ toLocal'[l] # <<>> => toLocal[l] # <<>>
                       /\ listening'[l] => listening[l]
  /\ pc' \in {"hello", "bridge"} => pc \in {"hello", "bridge"}

LEMMA TrustKept ==
  Trust /\ BridgesAccepted /\ Calm => Trust' /\ BridgesAccepted'
<1> SUFFICES ASSUME Trust, BridgesAccepted, Calm PROVE Trust' /\ BridgesAccepted'
  OBVIOUS
<1>1. (keysMatch <=> keysMatch') /\ accepted' = accepted /\ relayConn' = relayConn
      /\ down' = down
  BY DEF Calm
<1>2. \A r \in RConns : accepted'[r] => keysMatch'
  BY <1>1 DEF Trust
<1>3. \A r \in RConns : OkMeans(down'[r], accepted'[r])
  BY <1>1 DEF Trust
<1>4. \A l \in LConns : toLocal'[l] # <<>> => keysMatch'
  <2> TAKE l \in LConns
  <2>1. toLocal'[l] # <<>> => toLocal[l] # <<>> BY DEF Calm
  <2>2. toLocal[l] # <<>> => keysMatch BY DEF Trust
  <2> QED BY <1>1, <2>1, <2>2
<1>5. pc' \in {"hello", "bridge"} => accepted'[relayConn'] /\ keysMatch'
  BY <1>1 DEF BridgesAccepted, Calm
<1>6. \A l \in LConns : listening'[l] => keysMatch'
  <2> TAKE l \in LConns
  <2>1. listening'[l] => listening[l] BY DEF Calm
  <2>2. listening[l] => keysMatch BY DEF BridgesAccepted
  <2> QED BY <1>1, <2>1, <2>2
<1> QED BY <1>2, <1>3, <1>4, <1>5, <1>6 DEF Trust, BridgesAccepted

LEMMA CalmUplink ==
  ASSUME TypeOK,
         \/ Resolve \/ ResolveAgain \/ DialFails \/ Redial \/ LocalFails \/ StepFails
         \/ BridgeEnds \/ Reconnect \/ Cancelled \/ Signal \/ SendUplink
         \/ StartBridge \/ \E side \in {"local", "relay"} : PumpEnds(side)
  PROVE  Calm
<1> USE DEF Calm, runVars, relayVars, serverVars, worldVars
<1>1. CASE Resolve BY <1>1 DEF Resolve
<1>2. CASE ResolveAgain BY <1>2 DEF ResolveAgain
<1>3. CASE DialFails BY <1>3 DEF DialFails
<1>4. CASE Redial BY <1>4 DEF Redial
<1>5. CASE LocalFails BY <1>5 DEF LocalFails
<1>6. CASE StepFails BY <1>6 DEF StepFails, Goto
<1>7. CASE BridgeEnds BY <1>7 DEF BridgeEnds, Goto
<1>8. CASE Reconnect BY <1>8 DEF Reconnect, Goto
<1>9. CASE Cancelled BY <1>9 DEF Cancelled, Goto
<1>10. CASE Signal BY <1>10 DEF Signal
<1>11. CASE SendUplink BY <1>11 DEF SendUplink
<1>12. CASE StartBridge BY <1>12 DEF StartBridge
<1>13. CASE \E side \in {"local", "relay"} : PumpEnds(side) BY <1>13 DEF PumpEnds
<1> QED BY <1>1, <1>2, <1>3, <1>4, <1>5, <1>6, <1>7, <1>8, <1>9, <1>10, <1>11, <1>12, <1>13

LEMMA CalmOthers ==
  ASSUME TypeOK,
         \/ Outage \/ OutageEnds
         \/ \E r \in RConns : RelayGivesUp(r) \/ RelayRegisters(r) \/ RelayEnds(r)
         \/ \E l \in LConns : ServerEnds(l)
  PROVE  Calm
<1> USE DEF Calm, runVars, relayVars, serverVars, worldVars
<1>1. CASE Outage BY <1>1 DEF Outage
<1>2. CASE OutageEnds BY <1>2 DEF OutageEnds
<1>3. ASSUME NEW r \in RConns, RelayGivesUp(r) PROVE Calm BY <1>3 DEF RelayGivesUp
<1>4. ASSUME NEW r \in RConns, RelayRegisters(r) PROVE Calm BY <1>4 DEF RelayRegisters
<1>5. ASSUME NEW r \in RConns, RelayEnds(r) PROVE Calm BY <1>5 DEF RelayEnds
<1>6. ASSUME NEW l \in LConns, ServerEnds(l) PROVE Calm
  BY <1>6 DEF ServerEnds, TypeOK
<1> QED BY <1>1, <1>2, <1>3, <1>4, <1>5, <1>6

(* A step that only changes the datagrams on one relay connection.         *)
LEMMA TrustDown ==
  ASSUME TypeOK, Trust, BridgesAccepted,
         NEW r \in RConns, NEW q \in Seq(Reply), OkMeans(q, accepted[r]),
         down' = [down EXCEPT ![r] = q],
         UNCHANGED <<relayConn, keysMatch, accepted, toLocal, listening>>,
         pc' = pc
  PROVE  Trust' /\ BridgesAccepted'
<1>0. down \in [RConns -> Seq(Reply)] BY DEF TypeOK, Reply
<1>1. \A s \in RConns : OkMeans(down'[s], accepted'[s])
  BY <1>0 DEF Trust
<1>2. Trust' BY <1>1 DEF Trust
<1>3. BridgesAccepted' BY DEF BridgesAccepted
<1> QED BY <1>2, <1>3

(* No datagram is bridged to or from a relay that did not accept this      *)
(* connection, and without the key nobody turns the radio on.              *)
THEOREM OnlyAccepted == Spec => []BridgesAccepted
<1>1. Init => Trust /\ BridgesAccepted
  BY DEF Init, Trust, BridgesAccepted, OkMeans
<1>2. TypeOK /\ Trust /\ BridgesAccepted /\ [Next]_vars => Trust' /\ BridgesAccepted'
  <2> SUFFICES ASSUME TypeOK, Trust, BridgesAccepted, [Next]_vars
               PROVE  Trust' /\ BridgesAccepted'
    OBVIOUS
  <2>0. /\ down \in [RConns -> Seq(Reply)] /\ toLocal \in [LConns -> Seq(Reply)]
        /\ accepted \in [RConns -> BOOLEAN] /\ listening \in [LConns -> BOOLEAN]
    BY DEF TypeOK, Reply
  <2>1. CASE UNCHANGED vars \/ Terminated
    BY <2>1, TrustKept DEF Calm, vars, Terminated, runVars, relayVars, serverVars, worldVars
  <2>2. CASE DialRelay
    <3>1. PICK r \in RConns : /\ relayConn' = r
                              /\ accepted' = [accepted EXCEPT ![r] = FALSE]
                              /\ down' = [down EXCEPT ![r] = <<>>]
      BY <2>2 DEF DialRelay
    <3>2. /\ pc' = "local" /\ keysMatch' = keysMatch /\ toLocal' = toLocal
          /\ listening' = listening
      BY <2>2 DEF DialRelay, serverVars, worldVars
    <3>3. \A s \in RConns : OkMeans(down'[s], accepted'[s])
      <4> TAKE s \in RConns
      <4>1. CASE s = r BY <4>1, <3>1, <2>0 DEF OkMeans
      <4>2. CASE s # r BY <4>2, <3>1, <2>0 DEF Trust
      <4> QED BY <4>1, <4>2
    <3>4. Trust' BY <2>0, <3>1, <3>2, <3>3 DEF Trust
    <3> QED BY <3>2, <3>4 DEF BridgesAccepted
  <2>3. CASE DialLocal
    <3>1. PICK l \in LConns : toLocal' = [toLocal EXCEPT ![l] = <<>>]
      BY <2>3 DEF DialLocal
    <3>2. Calm
      BY <2>0, <2>3, <3>1 DEF DialLocal, Calm, relayVars, worldVars
    <3> QED BY <3>2, TrustKept
  <2>4. CASE Return
    <3>1. Trust' BY <2>4 DEF Return, Trust, relayVars, serverVars, worldVars
    <3>2. BridgesAccepted'
      BY <2>4 DEF Return, BridgesAccepted, relayVars, serverVars, worldVars
    <3> QED BY <3>1, <3>2
  <2>5. CASE AuthReply
    <3> DEFINE q == down[relayConn]
    <3>1. relayConn \in RConns /\ q # <<>>
      BY <2>5 DEF AuthReply, TypeOK, Linked
    <3>2. OkMeans(Tail(q), accepted[relayConn]) /\ (Head(q) = "AuthOK" => accepted[relayConn])
      BY <2>0, <3>1, OkTail DEF Trust
    <3>3. /\ down' = [down EXCEPT ![relayConn] = Tail(q)]
          /\ pc' = "hello" => Head(q) = "AuthOK"
          /\ pc' # "bridge"
          /\ UNCHANGED <<relayConn, keysMatch, accepted, toLocal, listening>>
      BY <2>5 DEF AuthReply, runVars, relayVars, serverVars, worldVars
    <3>4. \A s \in RConns : OkMeans(down'[s], accepted'[s])
      BY <2>0, <3>1, <3>2, <3>3 DEF Trust
    <3>5. Trust' BY <3>3, <3>4 DEF Trust
    <3>6. BridgesAccepted'
      BY <3>1, <3>2, <3>3 DEF BridgesAccepted, Trust
    <3> QED BY <3>5, <3>6
  <2>6. CASE PumpCommand
    <3> DEFINE q == down[relayConn]
    <3>1. relayConn \in RConns /\ localConn \in LConns /\ q # <<>> /\ pc = "bridge"
      BY <2>6 DEF PumpCommand, TypeOK, Linked
    <3>2. OkMeans(Tail(q), accepted[relayConn])
      BY <2>0, <3>1, OkTail DEF Trust
    <3>3. /\ down' = [down EXCEPT ![relayConn] = Tail(q)] /\ pc' = pc
          /\ UNCHANGED <<relayConn, keysMatch, accepted, listening>>
      BY <2>6 DEF PumpCommand, runVars, relayVars, serverVars, worldVars
    <3>4. \A s \in RConns : OkMeans(down'[s], accepted'[s])
      BY <2>0, <3>1, <3>2, <3>3 DEF Trust
    <3>5. keysMatch BY <3>1 DEF BridgesAccepted
    <3>6. Trust' BY <3>3, <3>4, <3>5 DEF Trust
    <3> QED BY <3>3, <3>6 DEF BridgesAccepted
  <2>7. CASE ClientCommand
    <3>1. upstream \in RConns /\ down' = [down EXCEPT ![upstream] = Append(@, "Start")]
      BY <2>7 DEF ClientCommand, TypeOK
    <3>2. /\ OkMeans(Append(down[upstream], "Start"), accepted[upstream])
          /\ Append(down[upstream], "Start") \in Seq(Reply)
      BY <2>0, <3>1, OkAppend DEF Trust, Reply
    <3> QED BY <2>0, <2>7, <3>1, <3>2, TrustDown
            DEF ClientCommand, runVars, relayVars, serverVars, worldVars
  <2>8. ASSUME NEW r \in RConns, RelayAccepts(r) PROVE Trust' /\ BridgesAccepted'
    <3>1. /\ pc' = pc /\ UNCHANGED <<relayConn, keysMatch, toLocal, listening>>
      BY <2>8 DEF RelayAccepts, runVars, serverVars, worldVars
    <3>2. CASE keysMatch
      <4>1. /\ down' = [down EXCEPT ![r] = IF alive[r] THEN Append(@, "AuthOK") ELSE @]
            /\ accepted' = [accepted EXCEPT ![r] = TRUE]
        BY <2>8, <3>2 DEF RelayAccepts
      <4>2. \A s \in RConns : OkMeans(down'[s], accepted'[s])
        <5> TAKE s \in RConns
        <5>1. CASE s = r BY <4>1, <5>1, <2>0 DEF OkMeans
        <5>2. CASE s # r BY <4>1, <5>2, <2>0 DEF Trust
        <5> QED BY <5>1, <5>2
      <4>3. Trust' BY <3>1, <3>2, <4>2 DEF Trust
      <4>4. BridgesAccepted'
        BY <2>0, <3>1, <3>2, <4>1 DEF BridgesAccepted, TypeOK, Linked
      <4> QED BY <4>3, <4>4
    <3>3. CASE ~keysMatch
      <4>1. /\ down' = [down EXCEPT ![r] = IF alive[r] THEN Append(@, "AuthFail") ELSE @]
            /\ accepted' = accepted
        BY <2>8, <3>3 DEF RelayAccepts
      <4>2. /\ OkMeans(Append(down[r], "AuthFail"), accepted[r])
            /\ Append(down[r], "AuthFail") \in Seq(Reply)
        BY <2>0, OkAppend DEF Trust, Reply
      <4>3. OkMeans(down[r], accepted[r]) /\ down[r] \in Seq(Reply)
        BY <2>0 DEF Trust
      <4>4. CASE alive[r]
        BY <2>0, <3>1, <4>1, <4>2, <4>4, TrustDown
      <4>5. CASE ~alive[r]
        BY <2>0, <3>1, <4>1, <4>3, <4>5, TrustDown
      <4> QED BY <4>4, <4>5
    <3> QED BY <3>2, <3>3
  <2>9. ASSUME NEW r \in RConns, Lose(r) PROVE Trust' /\ BridgesAccepted'
    <3>1. /\ pc' = pc
          /\ UNCHANGED <<relayConn, keysMatch, accepted, toLocal, listening>>
      BY <2>9 DEF Lose, runVars, relayVars, serverVars
    <3>2. CASE down' = down
      BY <2>0, <3>1, <3>2, TrustKept DEF Calm
    <3>3. CASE down[r] # <<>> /\ down' = [down EXCEPT ![r] = Tail(@)]
      <4>1. OkMeans(Tail(down[r]), accepted[r]) /\ Tail(down[r]) \in Seq(Reply)
        BY <2>0, <3>3, OkTail DEF Trust
      <4> QED BY <2>0, <3>1, <3>3, <4>1, TrustDown
    <3> QED BY <2>9, <3>2, <3>3 DEF Lose
  <2>10. ASSUME NEW r \in RConns, Overtake(r) PROVE Trust' /\ BridgesAccepted'
    <3> DEFINE q == down[r]
    <3>1. q \in Seq(Reply) /\ q # <<>> /\ OkMeans(q, accepted[r]) /\ accepted[r] \in BOOLEAN
      BY <2>0, <2>10 DEF Overtake, Trust
    <3>2. OkMeans(Append(Tail(q), Head(q)), accepted[r])
          /\ Append(Tail(q), Head(q)) \in Seq(Reply)
      BY <3>1, OkRotate
    <3>3. /\ pc' = pc /\ down' = [down EXCEPT ![r] = Append(Tail(q), Head(q))]
          /\ UNCHANGED <<relayConn, keysMatch, accepted, toLocal, listening>>
      BY <2>10 DEF Overtake, runVars, relayVars, serverVars
    <3> QED BY <3>2, <3>3, TrustDown
  <2>11. ASSUME NEW l \in LConns, ServerCommand(l) PROVE Trust' /\ BridgesAccepted'
    <3>1. keysMatch BY <2>11 DEF ServerCommand, Trust
    <3>2. pc' = pc /\ UNCHANGED <<relayConn, keysMatch, accepted, down>>
      BY <2>11 DEF ServerCommand, runVars, relayVars, worldVars
    <3>3. Trust' BY <3>1, <3>2 DEF Trust
    <3> QED BY <3>1, <3>2, <3>3 DEF BridgesAccepted
  <2>12. ASSUME NEW c \in Conns, Die(c) PROVE Trust' /\ BridgesAccepted'
    <3>1. pc' = pc /\ UNCHANGED <<relayConn, keysMatch, accepted, toLocal, listening>>
      BY <2>12 DEF Die, runVars, relayVars, serverVars
    <3>2. PICK arrived \in BOOLEAN :
            down' = [r \in RConns |-> IF r = c /\ ~arrived THEN <<>> ELSE down[r]]
      BY <2>12 DEF Die
    <3>3. \A s \in RConns : OkMeans(down'[s], accepted'[s])
      <4> TAKE s \in RConns
      <4>1. CASE down'[s] = <<>> BY <4>1 DEF OkMeans
      <4>2. CASE down'[s] = down[s] BY <4>2, <3>1 DEF Trust
      <4> QED BY <3>2, <4>1, <4>2
    <3>4. Trust' BY <3>1, <3>3 DEF Trust
    <3> QED BY <3>1, <3>4 DEF BridgesAccepted
  <2> QED
    BY <2>1, <2>2, <2>3, <2>4, <2>5, <2>6, <2>7, <2>8, <2>9, <2>10, <2>11, <2>12,
       CalmUplink, CalmOthers, TrustKept
    DEF Next, Run, Relay, Server
<1> QED BY TypeCorrect, <1>1, <1>2, PTL DEF Spec
=============================================================================
