----------------------------- MODULE RelayProofs ----------------------------
(***************************************************************************)
(* Proofs about the relay for any number of uplinks, clients and addresses *)
(* and any queue depth: type correctness, that there is one upstream, and  *)
(* that the clients that asked for the stream get it.                      *)
(***************************************************************************)
EXTENDS Relay, TLAPS, SequenceTheorems

(* The type invariant for the part of the state that no property but the   *)
(* stream's depends on, and for the rest.                                  *)
LinkTypes ==
  /\ cmds \in [Uplinks -> Seq(Command)]
  /\ \A u \in Uplinks : Len(cmds[u]) <= linkDepth
  /\ listening \in [Uplinks -> BOOLEAN]
  /\ started \in [Clients -> Uplinks \cup {None}]
  /\ alone \in [Clients -> BOOLEAN]
  /\ outdated \in [Uplinks -> BOOLEAN] /\ newest \in [Uplinks -> Why]

RelayTypes ==
  /\ pc \in [Conns -> {"none", "fanout", "receive", "send", "stop"}]
  /\ alive \in [Conns -> BOOLEAN]
  /\ addr \in [Clients -> Addrs \cup {None}]
  /\ clients \in [Addrs -> Clients \cup {None}]
  /\ upstream \in Uplinks \cup {None}
  /\ dg \in [Clients -> Commands \cup {None}]
  /\ up \in [Clients -> Uplinks \cup {None}]
  /\ \A c \in Clients :
       /\ pc[c] \in {"send", "stop"} => up[c] \in Uplinks
       /\ pc[c] = "send" => dg[c] \in Commands
       /\ pc[c] \in {"receive", "send"} => addr[c] \in Addrs

LEMMA TypesSplit == TypeOK <=> LinkTypes /\ RelayTypes
BY DEF TypeOK, LinkTypes, RelayTypes

USE DEF Goto, relayVars, handVars, netVars, linkVars

-----------------------------------------------------------------------------
(* Taking a command from any place leaves the others in their order; when  *)
(* it was the newest all that remain are old.                              *)
LEMMA WithoutOne ==
  ASSUME NEW s \in Seq(Command), NEW i \in DOMAIN s
  PROVE  /\ Without(s, i) \in Seq(Command) /\ Len(s) \in Nat \ {0}
         /\ Len(Without(s, i)) = Len(s) - 1
         /\ DOMAIN Without(s, i) = 1..(Len(s) - 1)
         /\ i = Len(s) \/ (\A k \in DOMAIN s : s[k].old)
              => \A k \in DOMAIN Without(s, i) : Without(s, i)[k].old
         /\ i # Len(s) => /\ Without(s, i) # <<>>
                          /\ Without(s, i)[Len(s) - 1] = s[Len(s)]
<1>1. Len(s) \in Nat /\ DOMAIN s = 1..Len(s) /\ i \in 1..Len(s)
  BY LenProperties
<1>2. \A k \in 1..Len(s) : s[k] \in Command
  BY <1>1, ElementOfSeq
<1>3. \A d \in Command : [d EXCEPT !.old = TRUE] \in Command
                         /\ [d EXCEPT !.old = TRUE].old
  BY DEF Command
<1>4. \A k \in 1..(Len(s) - 1) : Without(s, i)[k] = IF k < i THEN [s[k] EXCEPT !.old = TRUE]
                                                         ELSE s[k + 1]
  BY DEF Without
<1>5. \A k \in 1..(Len(s) - 1) : Without(s, i)[k] \in Command
  <2> SUFFICES ASSUME NEW k \in 1..(Len(s) - 1) PROVE Without(s, i)[k] \in Command
    OBVIOUS
  <2>1. k \in 1..Len(s) /\ k + 1 \in 1..Len(s)
    BY <1>1
  <2>2. s[k] \in Command /\ s[k + 1] \in Command
    BY <1>2, <2>1
  <2>3. CASE k < i
    BY <1>3, <1>4, <2>2, <2>3
  <2>4. CASE ~(k < i)
    BY <1>4, <2>2, <2>4
  <2> QED BY <2>3, <2>4
<1>6. Len(s) - 1 \in Nat /\ Len(s) \in Nat \ {0}
  BY <1>1
<1>7. /\ Without(s, i) \in Seq(Command) /\ Len(Without(s, i)) = Len(s) - 1
      /\ DOMAIN Without(s, i) = 1..(Len(s) - 1)
  <2>1. Without(s, i) = [k \in 1..(Len(s) - 1) |-> Without(s, i)[k]]
    BY DEF Without
  <2>2. DOMAIN Without(s, i) = 1..(Len(s) - 1)
    BY <2>1
  <2>3. Without(s, i) \in [1..(Len(s) - 1) -> Command]
    BY <1>5, <2>1
  <2> QED BY <1>6, <2>2, <2>3, SeqDef, LenProperties
<1>8. ASSUME i = Len(s) \/ \A k \in DOMAIN s : s[k].old, NEW k \in 1..(Len(s) - 1)
      PROVE  Without(s, i)[k].old
  <2>1. k \in 1..Len(s) /\ k + 1 \in 1..Len(s) /\ (i = Len(s) => k < i)
    BY <1>1
  <2>2. s[k] \in Command /\ (i = Len(s) \/ s[k + 1].old)
    BY <1>1, <1>2, <1>8, <2>1
  <2>3. CASE k < i
    BY <1>3, <1>4, <2>2, <2>3
  <2>4. CASE ~(k < i)
    BY <1>4, <2>1, <2>2, <2>4
  <2> QED BY <2>3, <2>4
<1>9. ASSUME i # Len(s)
      PROVE  Without(s, i) # <<>> /\ Without(s, i)[Len(s) - 1] = s[Len(s)]
  <2>1. Len(s) - 1 \in 1..(Len(s) - 1) /\ ~(Len(s) - 1 < i)
    BY <1>1, <1>9
  <2>2. Len(s) - 1 + 1 = Len(s)
    BY <1>1
  <2>3. Without(s, i)[Len(s) - 1] = s[Len(s)]
    BY <1>4, <2>1, <2>2
  <2>4. Len(Without(s, i)) # 0
    BY <1>6, <1>7, <2>1
  <2> QED BY <2>3, <2>4
<1> QED BY <1>6, <1>7, <1>8, <1>9

(* What sending upstream does to the queue, whatever its depth.            *)
LEMMA SendUpTypes ==
  ASSUME LinkTypes, NEW u \in Uplinks, NEW cmd \in Commands,
         SendUp(u, cmd)
  PROVE  /\ cmds' \in [Uplinks -> Seq(Command)]
         /\ \A v \in Uplinks : Len(cmds'[v]) <= linkDepth
         /\ outdated' \in [Uplinks -> BOOLEAN]
         /\ \A v \in Uplinks \ {u} : cmds'[v] = cmds[v] /\ outdated'[v] = outdated[v]
         /\ alive[u] => /\ cmds'[u] # <<>>
                        /\ cmds'[u][Len(cmds'[u])] = Sent(cmd)
         /\ ~alive[u] => UNCHANGED <<cmds, outdated>>
<1>1. CASE ~alive[u]
  BY <1>1 DEF SendUp, LinkTypes
<1>2. CASE alive[u]
  <2>1. PICK kept \in Seq(Command) : /\ Len(kept) + 1 <= linkDepth
                                     /\ cmds' = [cmds EXCEPT ![u] = Append(kept, Sent(cmd))]
    <3>1. cmds[u] \in Seq(Command) /\ Len(cmds[u]) \in Nat /\ Len(cmds[u]) <= linkDepth
      BY LenProperties DEF LinkTypes
    <3>2. CASE Len(cmds[u]) < linkDepth
      BY <1>2, <3>1, <3>2, DepthAssumption DEF SendUp
    <3>3. CASE ~(Len(cmds[u]) < linkDepth)
      <4>1. 1 \in DOMAIN cmds[u]
        BY <3>1, <3>3, LenProperties, DepthAssumption
      <4>2. Without(cmds[u], 1) \in Seq(Command) /\ Len(Without(cmds[u], 1)) = Len(cmds[u]) - 1
        BY <3>1, <4>1, WithoutOne
      <4>3. Len(Without(cmds[u], 1)) + 1 <= linkDepth
        BY <3>1, <4>2, DepthAssumption
      <4> QED BY <1>2, <3>3, <4>2, <4>3 DEF SendUp
    <3> QED BY <3>2, <3>3
  <2>2. /\ outdated' \in [Uplinks -> BOOLEAN]
        /\ \A v \in Uplinks \ {u} : outdated'[v] = outdated[v]
    BY <1>2 DEF SendUp, LinkTypes
  <2>3. Sent(cmd) \in Command
    BY DEF Sent, Command
  <2>4. /\ Append(kept, Sent(cmd)) \in Seq(Command)
        /\ Len(Append(kept, Sent(cmd))) = Len(kept) + 1
        /\ Append(kept, Sent(cmd))[Len(kept) + 1] = Sent(cmd)
    BY <2>3, AppendProperties
  <2>5. Append(kept, Sent(cmd)) # <<>>
    <3>1. Len(kept) + 1 # 0
      BY LenProperties
    <3> QED BY <2>4, <3>1
  <2>6. QED
    BY <1>2, <2>1, <2>2, <2>4, <2>5 DEF LinkTypes
<1>3. QED
  BY <1>1, <1>2

(* Taking a command from a queue, as Lose and ServerCommand do.            *)
LEMMA TakenTypes ==
  ASSUME LinkTypes, NEW u \in Uplinks, NEW i \in DOMAIN cmds[u],
         cmds' = [cmds EXCEPT ![u] = Without(@, i)]
  PROVE  /\ cmds' \in [Uplinks -> Seq(Command)]
         /\ \A v \in Uplinks : Len(cmds'[v]) <= linkDepth
         /\ cmds[u][i] \in Command
<1>1. cmds[u] \in Seq(Command) /\ Len(cmds[u]) <= linkDepth /\ cmds[u][i] \in Command
  BY ElementOfSeq, LenProperties DEF LinkTypes
<1>2. /\ Without(cmds[u], i) \in Seq(Command) /\ Len(cmds[u]) \in Nat
      /\ Len(Without(cmds[u], i)) = Len(cmds[u]) - 1
  BY <1>1, WithoutOne
<1>3. Len(Without(cmds[u], i)) <= linkDepth
  BY <1>1, <1>2, DepthAssumption
<1>4. QED
  BY <1>1, <1>2, <1>3 DEF LinkTypes

LEMMA GoneTypes ==
  ASSUME LinkTypes, NEW dead, Gone(dead)
  PROVE  /\ cmds' \in [Uplinks -> Seq(Command)]
         /\ \A u \in Uplinks : Len(cmds'[u]) <= linkDepth
         /\ started' \in [Clients -> Uplinks \cup {None}]
         /\ outdated' \in [Uplinks -> BOOLEAN] /\ newest' \in [Uplinks -> Why]
<1>1. <<>> \in Seq(Command) /\ Len(<<>>) <= linkDepth
  BY DepthAssumption
<1>2. QED
  BY <1>1 DEF LinkTypes, Gone, Why

-----------------------------------------------------------------------------
LEMMA TypesInit == Init => LinkTypes /\ RelayTypes
<1>1. \A u \in Uplinks : <<>> \in Seq(Command) /\ Len(<<>>) <= linkDepth
  BY DepthAssumption
<1>2. Init => LinkTypes
  BY <1>1 DEF Init, LinkTypes, Why
<1>3. Init => RelayTypes
  BY DEF Init, RelayTypes, Conns
<1>4. QED
  BY <1>2, <1>3

LEMMA LinkTypesStep == LinkTypes /\ RelayTypes /\ [Next]_vars => LinkTypes'
<1> SUFFICES ASSUME LinkTypes, RelayTypes, [Next]_vars PROVE LinkTypes'
  OBVIOUS
<1>1. ASSUME NEW u \in Uplinks, RegisterUplink(u) PROVE LinkTypes'
  <2>1. Gone({upstream} \ {None}) /\ UNCHANGED <<listening, alone>>
    BY <1>1 DEF RegisterUplink
  <2>2. QED
    BY <2>1, GoneTypes DEF LinkTypes
<1>2. ASSUME NEW u \in Uplinks, ClearUplink(u) PROVE LinkTypes'
  BY <1>2 DEF ClearUplink, LinkTypes
<1>3. ASSUME NEW u \in Uplinks, ServerCommand(u) PROVE LinkTypes'
  <2>1. PICK i \in DOMAIN cmds[u] :
          /\ cmds' = [cmds EXCEPT ![u] = Without(@, i)]
          /\ outdated' = [outdated EXCEPT ![u] = cmds[u][i].old]
          /\ listening' = [listening EXCEPT ![u] = cmds[u][i].cmd = "Start"]
    BY <1>3 DEF ServerCommand
  <2>2. UNCHANGED <<newest, started, alone>>
    BY <1>3 DEF ServerCommand
  <2>3. cmds[u][i].old \in BOOLEAN
    BY <2>1, TakenTypes DEF Command
  <2>4. listening' \in [Uplinks -> BOOLEAN] /\ outdated' \in [Uplinks -> BOOLEAN]
    BY <2>1, <2>3 DEF LinkTypes
  <2>5. QED
    BY <2>1, <2>2, <2>4, TakenTypes DEF LinkTypes
<1>4. ASSUME NEW u \in Uplinks, BridgeDown(u) PROVE LinkTypes'
  BY <1>4 DEF BridgeDown, LinkTypes
<1>5. ASSUME NEW u \in Uplinks, Lose(u) PROVE LinkTypes'
  <2>1. PICK i \in DOMAIN cmds[u] :
          /\ cmds' = [cmds EXCEPT ![u] = Without(@, i)]
          /\ outdated' = [outdated EXCEPT ![u] = @ \/ ~cmds[u][i].old]
    BY <1>5 DEF Lose
  <2>2. UNCHANGED <<listening, newest, started, alone>>
    BY <1>5 DEF Lose
  <2>3. outdated' \in [Uplinks -> BOOLEAN]
    BY <2>1 DEF LinkTypes
  <2>4. QED
    BY <2>1, <2>2, <2>3, TakenTypes DEF LinkTypes
<1>6. ASSUME NEW c \in Clients, NEW a \in Addrs, RegisterClient(c, a) PROVE LinkTypes'
  BY <1>6 DEF RegisterClient, LinkTypes
<1>7. ASSUME NEW c \in Clients, NEW cmd \in Commands, Receive(c, cmd) PROVE LinkTypes'
  BY <1>7 DEF Receive, LinkTypes
<1>8. ASSUME NEW c \in Clients, Forward(c) PROVE LinkTypes'
  <2>1. /\ pc[c] = "send" /\ SendUp(up[c], dg[c])
        /\ UNCHANGED <<listening, alone>>
    BY <1>8 DEF Forward
  <2>2. up[c] \in Uplinks /\ dg[c] \in Commands
    BY <2>1 DEF RelayTypes
  <2>3. /\ started' \in [Clients -> Uplinks \cup {None}]
        /\ newest' \in [Uplinks -> Why]
    BY <1>8, <2>2 DEF Forward, LinkTypes, Why
  <2>4. QED
    BY <2>1, <2>2, <2>3, SendUpTypes DEF LinkTypes
<1>9. ASSUME NEW c \in Clients, DeleteClient(c) PROVE LinkTypes'
  <2>1. /\ started' \in [Clients -> Uplinks \cup {None}]
        /\ UNCHANGED <<cmds, listening, outdated, newest>>
    BY <1>9 DEF DeleteClient, LinkTypes
  <2>2. PICK b \in BOOLEAN : alone' = [alone EXCEPT ![c] = b]
    BY <1>9, Zenon DEF DeleteClient, NoteAlone
  <2>3. QED
    BY <2>1, <2>2 DEF LinkTypes
<1>10. ASSUME NEW c \in Clients, SendStop(c) PROVE LinkTypes'
  <2>1. /\ pc[c] = "stop" /\ SendUp(up[c], "Stop")
        /\ UNCHANGED <<listening, started>>
    BY <1>10 DEF SendStop
  <2>2. up[c] \in Uplinks
    BY <2>1 DEF RelayTypes
  <2>3. alone' \in [Clients -> BOOLEAN] /\ newest' \in [Uplinks -> Why]
    BY <1>10, <2>2 DEF SendStop, LinkTypes, Why
  <2>4. QED
    BY <2>1, <2>2, <2>3, SendUpTypes DEF LinkTypes, Commands
<1>11. ASSUME NEW c \in Conns, Die(c) PROVE LinkTypes'
  <2>1. Gone({c}) /\ UNCHANGED <<listening, alone>>
    BY <1>11 DEF Die
  <2>2. QED
    BY <2>1, GoneTypes DEF LinkTypes
<1>12. CASE UNCHANGED vars
  BY <1>12 DEF vars, LinkTypes
<1>13. QED
  BY <1>1, <1>2, <1>3, <1>4, <1>5, <1>6, <1>7, <1>8, <1>9, <1>10, <1>11, <1>12
  DEF Next, FarEnd, Client

LEMMA RelayTypesStep == LinkTypes /\ RelayTypes /\ [Next]_vars => RelayTypes'
<1> SUFFICES ASSUME LinkTypes, RelayTypes, [Next]_vars PROVE RelayTypes'
  OBVIOUS
<1> USE ConnAssumption DEF RelayTypes, Conns
<1>1. ASSUME NEW u \in Uplinks, RegisterUplink(u) PROVE RelayTypes'
  BY <1>1 DEF RegisterUplink
<1>2. ASSUME NEW u \in Uplinks, ClearUplink(u) PROVE RelayTypes'
  BY <1>2 DEF ClearUplink
<1>3. ASSUME NEW u \in Uplinks, ServerCommand(u) \/ BridgeDown(u) \/ Lose(u)
      PROVE  RelayTypes'
  BY <1>3 DEF ServerCommand, BridgeDown, Lose
<1>4. ASSUME NEW c \in Clients, NEW a \in Addrs, RegisterClient(c, a) PROVE RelayTypes'
  BY <1>4 DEF RegisterClient
<1>5. ASSUME NEW c \in Clients, NEW cmd \in Commands, Receive(c, cmd) PROVE RelayTypes'
  BY <1>5 DEF Receive
<1>6. ASSUME NEW c \in Clients, Forward(c) PROVE RelayTypes'
  BY <1>6 DEF Forward
<1>7. ASSUME NEW c \in Clients, DeleteClient(c) PROVE RelayTypes'
  BY <1>7 DEF DeleteClient
<1>8. ASSUME NEW c \in Clients, SendStop(c) PROVE RelayTypes'
  BY <1>8 DEF SendStop
<1>9. ASSUME NEW c \in Conns, Die(c) PROVE RelayTypes'
  BY <1>9 DEF Die
<1>10. CASE UNCHANGED vars
  BY <1>10 DEF vars
<1>11. QED
  BY <1>1, <1>2, <1>3, <1>4, <1>5, <1>6, <1>7, <1>8, <1>9, <1>10
  DEF Next, FarEnd, Client

(* Every reachable state has its type; in particular what waits for an     *)
(* uplink never exceeds the Writer's queue, and a goroutine about to send  *)
(* always has an upstream to send to.                                      *)
THEOREM TypeCorrect == Spec => []TypeOK
<1>1. Init => TypeOK
  BY TypesInit, TypesSplit
<1>2. TypeOK /\ [Next]_vars => TypeOK'
  <2>1. LinkTypes' /\ RelayTypes' => TypeOK'
    BY DEF TypeOK, LinkTypes, RelayTypes
  <2>2. QED
    BY <2>1, TypesSplit, LinkTypesStep, RelayTypesStep
<1>3. QED
  BY <1>1, <1>2, PTL DEF Spec

(* However uplinks replace each other and die, the one that is read is the *)
(* one the clients' commands go to.  The invariant is inductive by itself: *)
(* replacing closes the old connection under the same lock, and a dead one *)
(* clears the upstream only if it still is the upstream.                   *)
THEOREM UpstreamUnique == Spec => []OneUpstream
<1>1. Init => OneUpstream
  BY DEF Init, OneUpstream, Conns
<1>2. TypeOK /\ OneUpstream /\ [Next]_vars => OneUpstream'
  <2> SUFFICES ASSUME TypeOK, OneUpstream, [Next]_vars PROVE OneUpstream'
    OBVIOUS
  <2>t. /\ pc \in [Conns -> {"none", "fanout", "receive", "send", "stop"}]
        /\ alive \in [Conns -> BOOLEAN] /\ upstream \in Uplinks \cup {None}
    BY DEF TypeOK
  <2> USE <2>t, ConnAssumption DEF OneUpstream, Conns
  <2>1. ASSUME NEW u \in Uplinks, RegisterUplink(u) PROVE OneUpstream'
    <3>1. /\ pc' = [pc EXCEPT ![u] = "fanout"] /\ upstream' = u
          /\ \A c \in Conns \ {u} : alive'[c] => alive[c] /\ c # upstream
      BY <2>1 DEF RegisterUplink
    <3>2. \A v \in Uplinks \ {u} : ~(pc'[v] = "fanout" /\ alive'[v])
      BY <3>1
    <3>3. QED
      BY <3>1, <3>2
  <2>2. ASSUME NEW u \in Uplinks, ClearUplink(u) PROVE OneUpstream'
    BY <2>2 DEF ClearUplink
  <2>3. ASSUME NEW u \in Uplinks, FarEnd(u) \/ Lose(u) PROVE OneUpstream'
    BY <2>3 DEF FarEnd, ServerCommand, BridgeDown, Lose
  <2>4. ASSUME NEW c \in Clients,
               \/ \E a \in Addrs : RegisterClient(c, a)
               \/ \E cmd \in Commands : Receive(c, cmd)
               \/ Client(c)
        PROVE  OneUpstream'
    <3>1. /\ upstream' = upstream
          /\ \A u \in Uplinks : pc'[u] = pc[u] /\ alive'[u] = alive[u]
      BY <2>4 DEF RegisterClient, Receive, Client, Forward, DeleteClient, SendStop
    <3>2. QED
      BY <3>1
  <2>5. ASSUME NEW c \in Conns, Die(c) PROVE OneUpstream'
    BY <2>5 DEF Die
  <2>6. CASE UNCHANGED vars
    BY <2>6 DEF vars
  <2>7. QED
    BY <2>1, <2>2, <2>3, <2>4, <2>5, <2>6 DEF Next
<1>3. QED
  BY <1>1, <1>2, TypeCorrect, PTL DEF Spec
-----------------------------------------------------------------------------
(* What the network owes to the newest command sent to an uplink: it is    *)
(* the last one under way, or all that are under way are older and the     *)
(* server does what it says, unless the network lost or overtook it.       *)
UnderWay(u) ==
  /\ cmds[u] # <<>> /\ ~cmds[u][Len(cmds[u])].old
  /\ newest[u] = "Start" => cmds[u][Len(cmds[u])].cmd = "Start"

Obeyed(u) ==
  /\ \A i \in DOMAIN cmds[u] : cmds[u][i].old
  /\ newest[u] = "Start" /\ ~outdated[u] => listening[u]

(* Why a client that sent Start is streamed to: its uplink is alive and it *)
(* is still served itself, and whoever is about to send Stop was alone     *)
(* when it left.                                                           *)
ClientInv(c) ==
  /\ started[c] # None => /\ started[c] \in Uplinks /\ alive[started[c]]
                          /\ newest[started[c]] # "nothing"
                          /\ Serving(c)
  /\ pc[c] = "stop" => alone[c]

LinkInv(u) ==
  /\ UnderWay(u) \/ Obeyed(u)
  /\ ~alive[u] => newest[u] = "nothing"
  /\ newest[u] # "leaver's Stop"

StreamInv == (\A c \in Clients : ClientInv(c)) /\ (\A u \in Uplinks : LinkInv(u))

NetKept(u) == UNCHANGED <<cmds[u], outdated[u], listening[u], newest[u]>>

LEMMA KeptLink ==
  ASSUME NEW u \in Uplinks, LinkInv(u), NetKept(u), alive[u] => alive'[u]
  PROVE  LinkInv(u)'
BY DEF NetKept, LinkInv, UnderWay, Obeyed

LEMMA KeptClient ==
  ASSUME NEW c \in Clients, ClientInv(c), pc'[c] = pc[c],
         alone'[c] = alone[c], started'[c] = started[c],
         started[c] # None => alive'[started[c]] /\ newest'[started[c]] # "nothing"
  PROVE  ClientInv(c)'
BY DEF ClientInv, Serving

(* A command is taken from any place, by the server or the network.        *)
LEMMA TakenLink ==
  ASSUME LinkTypes, NEW u \in Uplinks, LinkInv(u),
         NEW i \in DOMAIN cmds[u], cmds'[u] = Without(cmds[u], i),
         newest'[u] = newest[u], alive'[u] = alive[u],
         \/ outdated'[u] = (outdated[u] \/ ~cmds[u][i].old) /\ listening'[u] = listening[u]
         \/ /\ outdated'[u] = cmds[u][i].old
            /\ listening'[u] = (cmds[u][i].cmd = "Start")
  PROVE  LinkInv(u)'
<1>1. PICK s \in Seq(Command) : s = cmds[u]
  BY DEF LinkTypes
<1>2. PICK t \in Seq(Command) : t = Without(s, i) /\ cmds'[u] = t
  BY <1>1, WithoutOne
<1>3. /\ Len(s) \in Nat \ {0} /\ Len(t) = Len(s) - 1 /\ DOMAIN s = 1..Len(s)
      /\ i = Len(s) \/ (\A k \in DOMAIN s : s[k].old)
           => \A k \in DOMAIN t : t[k].old
      /\ i # Len(s) => t # <<>> /\ t[Len(s) - 1] = s[Len(s)]
  <2>1. i \in DOMAIN s /\ DOMAIN s = 1..Len(s)
    BY <1>1, LenProperties
  <2>2. /\ Len(s) \in Nat \ {0} /\ Len(Without(s, i)) = Len(s) - 1
        /\ i = Len(s) \/ (\A k \in DOMAIN s : s[k].old)
             => \A k \in DOMAIN Without(s, i) : Without(s, i)[k].old
        /\ i # Len(s) => /\ Without(s, i) # <<>>
                         /\ Without(s, i)[Len(s) - 1] = s[Len(s)]
    BY <2>1, WithoutOne
  <2> QED BY <1>2, <2>1, <2>2, Zenon
<1>4. (UnderWay(u) \/ Obeyed(u))'
  <2>1. CASE UnderWay(u) /\ i # Len(s)
    <3>1. t # <<>> /\ t[Len(t)] = s[Len(s)]
      BY <1>3, <2>1
    <3> QED BY <1>1, <1>2, <2>1, <3>1 DEF UnderWay
  <2>2. CASE UnderWay(u) /\ i = Len(s)
    <3>1. ~s[i].old /\ (newest[u] = "Start" => s[i].cmd = "Start")
      BY <1>1, <2>2 DEF UnderWay
    <3>2. newest'[u] = "Start" /\ ~outdated'[u] => listening'[u]
      BY <1>1, <3>1
    <3>3. \A k \in DOMAIN t : t[k].old
      BY <1>3, <2>2
    <3> QED BY <1>2, <3>2, <3>3 DEF Obeyed
  <2>3. CASE Obeyed(u)
    <3>1. s[i].old /\ \A k \in DOMAIN t : t[k].old
      BY <1>1, <1>3, <2>3 DEF Obeyed
    <3>2. newest'[u] = "Start" /\ ~outdated'[u] => listening'[u]
      BY <1>1, <2>3, <3>1 DEF Obeyed
    <3> QED BY <1>2, <3>1, <3>2 DEF Obeyed
  <2> QED BY <2>1, <2>2, <2>3 DEF LinkInv
<1> QED BY <1>4 DEF LinkInv

(* A command is sent: it is the newest, and the last one under way.  What  *)
(* is sent to a dead connection changes nothing.                           *)
LEMMA SentLink ==
  ASSUME LinkTypes, NEW u \in Uplinks, LinkInv(u), NEW cmd \in Commands, SendUp(u, cmd),
         UNCHANGED <<alive, listening>>, NEW why \in Why \ {"leaver's Stop"},
         why = "Start" => cmd = "Start",
         newest'[u] = IF ~alive[u] THEN newest[u] ELSE why
  PROVE  LinkInv(u)'
<1>1. CASE alive[u]
  <2>1. PICK s \in Seq(Command) : s = cmds'[u] /\ s # <<>> /\ s[Len(s)] = Sent(cmd)
    BY <1>1, SendUpTypes
  <2>2. ~Sent(cmd).old /\ Sent(cmd).cmd = cmd
    BY DEF Sent
  <2>3. newest'[u] = why
    BY <1>1
  <2>4. UnderWay(u)'
    BY <2>1, <2>2, <2>3, Zenon DEF UnderWay
  <2> QED BY <1>1, <2>3, <2>4 DEF LinkInv
<1>2. CASE ~alive[u]
  <2>1. UNCHANGED <<cmds, outdated>> /\ newest'[u] = newest[u]
    BY <1>2, SendUpTypes
  <2> QED BY <2>1, KeptLink DEF NetKept
<1> QED BY <1>1, <1>2

(* Closing connections disturbs no other uplink and no other's client.     *)
LEMMA GoneKeeps ==
  ASSUME LinkTypes, NEW dead, Gone(dead), UNCHANGED listening
  PROVE  /\ \A c \in Clients : started'[c] # None =>
              started'[c] = started[c] /\ started[c] \in Uplinks \ dead
         /\ \A u \in Uplinks : u \notin dead => NetKept(u)
         /\ \A u \in Uplinks : u \in dead => Obeyed(u)' /\ newest'[u] = "nothing"
<1>1. ASSUME NEW u \in Uplinks, u \in dead PROVE Obeyed(u)' /\ newest'[u] = "nothing"
  BY <1>1 DEF Gone, LinkTypes, Obeyed
<1>2. ASSUME NEW u \in Uplinks, u \notin dead PROVE NetKept(u)
  BY <1>2 DEF Gone, LinkTypes, NetKept
<1>3. \A c \in Clients : started'[c] # None =>
        started'[c] = started[c] /\ started[c] \in Uplinks \ dead
  BY DEF Gone, LinkTypes
<1> QED BY <1>1, <1>2, <1>3

LEMMA GoneLinks ==
  ASSUME LinkTypes, \A u \in Uplinks : LinkInv(u), NEW dead, Gone(dead),
         UNCHANGED listening, \A u \in Uplinks : alive[u] /\ u \notin dead => alive'[u]
  PROVE  \A u \in Uplinks : LinkInv(u)'
<1> SUFFICES ASSUME NEW u \in Uplinks PROVE LinkInv(u)'
  OBVIOUS
<1>1. CASE u \in dead
  BY <1>1, GoneKeeps DEF LinkInv
<1>2. CASE u \notin dead
  BY <1>2, GoneKeeps, KeptLink
<1> QED BY <1>1, <1>2

LEMMA GoneClients ==
  ASSUME LinkTypes, StreamInv, NEW dead, Gone(dead), UNCHANGED <<listening, alone>>,
         \A c \in Clients : pc'[c] = pc[c],
         \A u \in Uplinks : alive[u] /\ u \notin dead => alive'[u]
  PROVE  \A c \in Clients : ClientInv(c)'
<1> SUFFICES ASSUME NEW c \in Clients PROVE ClientInv(c)'
  OBVIOUS
<1>1. ClientInv(c)
  BY DEF StreamInv
<1>2. CASE started'[c] = None
  BY <1>1, <1>2 DEF ClientInv
<1>3. CASE started'[c] # None
  <2>1. started'[c] = started[c] /\ started[c] \in Uplinks \ dead
    BY <1>3, GoneKeeps
  <2>2. NetKept(started[c]) /\ alive[started[c]] /\ newest[started[c]] # "nothing"
    BY <1>1, <1>3, <2>1, GoneKeeps DEF ClientInv
  <2>3. alive'[started[c]] /\ newest'[started[c]] # "nothing"
    BY <2>1, <2>2 DEF NetKept
  <2> QED BY <1>1, <2>1, <2>3, KeptClient
<1> QED BY <1>2, <1>3

-----------------------------------------------------------------------------
LEMMA LinksStep ==
  LinkTypes /\ RelayTypes /\ StreamInv /\ [Next]_vars => \A u \in Uplinks : LinkInv(u)'
<1> SUFFICES ASSUME LinkTypes, RelayTypes, StreamInv, [Next]_vars
             PROVE  \A u \in Uplinks : LinkInv(u)'
  OBVIOUS
<1>i. \A u \in Uplinks : LinkInv(u)
  BY DEF StreamInv
<1>a. alive \in [Conns -> BOOLEAN] /\ Uplinks \subseteq Conns
  BY DEF RelayTypes, Conns
<1>k. ASSUME UNCHANGED <<cmds, listening, outdated, newest>>,
             \A u \in Uplinks : alive[u] => alive'[u]
      PROVE  \A u \in Uplinks : LinkInv(u)'
  BY <1>i, <1>k, KeptLink DEF NetKept
<1>1. ASSUME NEW u \in Uplinks, RegisterUplink(u) PROVE \A v \in Uplinks : LinkInv(v)'
  <2>1. /\ Gone({upstream} \ {None}) /\ UNCHANGED listening
        /\ \A v \in Uplinks : alive[v] /\ v \notin {upstream} \ {None} => alive'[v]
    BY <1>1, <1>a, ConnAssumption DEF RegisterUplink
  <2>2. QED
    BY <1>i, <2>1, GoneLinks
<1>2. ASSUME NEW u \in Uplinks, ClearUplink(u) PROVE \A v \in Uplinks : LinkInv(v)'
  BY <1>2, <1>k DEF ClearUplink
<1>3. ASSUME NEW u \in Uplinks, ServerCommand(u) \/ Lose(u)
      PROVE  \A v \in Uplinks : LinkInv(v)'
  <2>1. PICK i \in DOMAIN cmds[u] :
          /\ cmds' = [cmds EXCEPT ![u] = Without(@, i)]
          /\ \/ /\ outdated' = [outdated EXCEPT ![u] = @ \/ ~cmds[u][i].old]
                /\ UNCHANGED listening
             \/ /\ outdated' = [outdated EXCEPT ![u] = cmds[u][i].old]
                /\ listening' = [listening EXCEPT ![u] = cmds[u][i].cmd = "Start"]
    BY <1>3 DEF ServerCommand, Lose
  <2>2. UNCHANGED <<alive, newest>>
    BY <1>3 DEF ServerCommand, Lose
  <2>3. /\ cmds'[u] = Without(cmds[u], i)
        /\ \/ outdated'[u] = (outdated[u] \/ ~cmds[u][i].old) /\ listening'[u] = listening[u]
           \/ /\ outdated'[u] = cmds[u][i].old
              /\ listening'[u] = (cmds[u][i].cmd = "Start")
    BY <2>1 DEF LinkTypes
  <2>4. LinkInv(u)'
    BY <1>i, <2>2, <2>3, TakenLink
  <2>5. \A v \in Uplinks \ {u} : NetKept(v)
    BY <2>1, <2>2 DEF NetKept, LinkTypes
  <2>6. \A v \in Uplinks \ {u} : LinkInv(v)'
    BY <1>i, <2>2, <2>5, KeptLink
  <2>7. QED
    BY <2>4, <2>6
<1>4. ASSUME NEW u \in Uplinks, BridgeDown(u) PROVE \A v \in Uplinks : LinkInv(v)'
  <2>1. /\ UNCHANGED <<alive, cmds, outdated, newest>> /\ ~alive[u]
        /\ \A v \in Uplinks \ {u} : listening'[v] = listening[v]
    BY <1>4 DEF BridgeDown, LinkTypes
  <2>2. newest[u] = "nothing"
    BY <1>i, <2>1 DEF LinkInv
  <2>3. LinkInv(u)'
    BY <1>i, <2>1, <2>2 DEF LinkInv, UnderWay, Obeyed
  <2>4. \A v \in Uplinks \ {u} : LinkInv(v)'
    BY <1>i, <2>1, KeptLink DEF NetKept
  <2>5. QED
    BY <2>3, <2>4
<1>5. ASSUME NEW c \in Clients, NEW a \in Addrs, RegisterClient(c, a)
      PROVE  \A v \in Uplinks : LinkInv(v)'
  <2>1. UNCHANGED <<cmds, listening, outdated, newest>> /\ alive' = [alive EXCEPT ![c] = TRUE]
    BY <1>5 DEF RegisterClient
  <2>2. \A v \in Uplinks : alive[v] => alive'[v]
    BY <1>a, <2>1
  <2>3. QED
    BY <1>k, <2>1, <2>2
<1>6. ASSUME NEW c \in Clients, NEW cmd \in Commands, Receive(c, cmd)
      PROVE  \A v \in Uplinks : LinkInv(v)'
  BY <1>6, <1>k DEF Receive
<1>7. ASSUME NEW c \in Clients, NEW u \in Uplinks, NEW cmd \in Commands, SendUp(u, cmd),
             UNCHANGED <<alive, listening>>, NEW why \in Why \ {"leaver's Stop"},
             why = "Start" => cmd = "Start",
             newest' = [newest EXCEPT ![u] = IF ~alive[u] THEN @ ELSE why]
      PROVE  \A v \in Uplinks : LinkInv(v)'
  <2>1. newest'[u] = IF ~alive[u] THEN newest[u] ELSE why
    BY <1>7 DEF LinkTypes
  <2>2. LinkInv(u)'
    BY <1>7, <1>i, <2>1, SentLink
  <2>3. \A v \in Uplinks \ {u} : NetKept(v)
    BY <1>7, SendUpTypes DEF NetKept, LinkTypes
  <2>4. \A v \in Uplinks \ {u} : LinkInv(v)'
    BY <1>7, <1>i, <2>3, KeptLink
  <2>5. QED
    BY <2>2, <2>4
<1>8. ASSUME NEW c \in Clients, Forward(c) PROVE \A v \in Uplinks : LinkInv(v)'
  <2>1. up[c] \in Uplinks /\ dg[c] \in Commands
    BY <1>8 DEF Forward, RelayTypes
  <2>2. PICK why \in Why \ {"leaver's Stop"} :
          why = IF dg[c] = "Start" THEN "Start" ELSE "client's Stop"
    <3>1. {"Start", "client's Stop"} \subseteq Why \ {"leaver's Stop"}
      BY DEF Why
    <3> QED BY <3>1
  <2>3. /\ SendUp(up[c], dg[c]) /\ UNCHANGED <<alive, listening>>
        /\ newest' = [newest EXCEPT ![up[c]] = IF ~alive[up[c]] THEN @ ELSE why]
    BY <1>8, <2>2 DEF Forward
  <2>4. QED
    BY <1>7, <2>1, <2>2, <2>3
<1>9. ASSUME NEW c \in Clients, DeleteClient(c) PROVE \A v \in Uplinks : LinkInv(v)'
  <2>1. UNCHANGED <<alive, cmds, listening, outdated, newest>>
    BY <1>9 DEF DeleteClient
  <2>2. QED
    BY <1>k, <2>1
<1>10. ASSUME NEW c \in Clients, SendStop(c) PROVE \A v \in Uplinks : LinkInv(v)'
  <2>1. up[c] \in Uplinks /\ "Stop" \in Commands /\ "last one's Stop" \in Why \ {"leaver's Stop"}
    BY <1>10 DEF SendStop, RelayTypes, Commands, Why
  <2>2. alone[c]
    BY <1>10 DEF SendStop, StreamInv, ClientInv
  <2>3. /\ SendUp(up[c], "Stop") /\ UNCHANGED <<alive, listening>>
        /\ newest' = [newest EXCEPT ![up[c]] = IF ~alive[up[c]] THEN @ ELSE "last one's Stop"]
    BY <1>10, <2>2 DEF SendStop
  <2>4. QED
    BY <1>7, <2>1, <2>3
<1>11. ASSUME NEW c \in Conns, Die(c) PROVE \A v \in Uplinks : LinkInv(v)'
  <2>1. /\ Gone({c}) /\ UNCHANGED listening
        /\ \A v \in Uplinks : alive[v] /\ v \notin {c} => alive'[v]
    BY <1>11, <1>a DEF Die
  <2>2. QED
    BY <1>i, <2>1, GoneLinks
<1>12. CASE UNCHANGED vars
  BY <1>12, <1>k DEF vars
<1>13. QED
  BY <1>1, <1>2, <1>3, <1>4, <1>5, <1>6, <1>8, <1>9, <1>10, <1>11, <1>12
  DEF Next, FarEnd, Client

LEMMA ClientsStep ==
  LinkTypes /\ RelayTypes /\ StreamInv /\ [Next]_vars => \A c \in Clients : ClientInv(c)'
<1> SUFFICES ASSUME LinkTypes, RelayTypes, StreamInv, [Next]_vars
             PROVE  \A c \in Clients : ClientInv(c)'
  OBVIOUS
<1>i. \A c \in Clients : ClientInv(c)
  BY DEF StreamInv
<1>t. /\ pc \in [Conns -> {"none", "fanout", "receive", "send", "stop"}]
      /\ alive \in [Conns -> BOOLEAN] /\ newest \in [Uplinks -> Why]
      /\ started \in [Clients -> Uplinks \cup {None}] /\ alone \in [Clients -> BOOLEAN]
      /\ Uplinks \subseteq Conns /\ Clients \subseteq Conns /\ Uplinks \cap Clients = {}
      /\ None \notin Uplinks
  BY ConnAssumption DEF LinkTypes, RelayTypes, Conns
<1>k. ASSUME NEW c \in Clients,
             UNCHANGED <<alone[c], started[c], pc[c], newest>>,
             \A u \in Uplinks : alive[u] => alive'[u]
      PROVE  ClientInv(c)'
  BY <1>i, <1>k, KeptClient DEF ClientInv
<1>1. ASSUME NEW u \in Uplinks, RegisterUplink(u) PROVE \A d \in Clients : ClientInv(d)'
  <2>1. /\ Gone({upstream} \ {None}) /\ UNCHANGED <<listening, alone>>
        /\ \A v \in Uplinks : alive[v] /\ v \notin {upstream} \ {None} => alive'[v]
        /\ \A d \in Clients : pc'[d] = pc[d]
    BY <1>1, <1>t DEF RegisterUplink
  <2>2. QED
    BY <2>1, GoneClients
<1>2. ASSUME NEW u \in Uplinks, ClearUplink(u) \/ ServerCommand(u) \/ Lose(u) \/ BridgeDown(u)
      PROVE  \A d \in Clients : ClientInv(d)'
  <2>1. UNCHANGED <<alive, newest, started, alone>> /\ \A d \in Clients : pc'[d] = pc[d]
    BY <1>2, <1>t DEF ClearUplink, ServerCommand, Lose, BridgeDown
  <2>2. QED
    BY <1>k, <2>1
<1>3. ASSUME NEW c \in Clients, NEW a \in Addrs, RegisterClient(c, a)
      PROVE  \A d \in Clients : ClientInv(d)'
  <2>1. /\ UNCHANGED <<newest, started, alone>> /\ pc[c] = "none"
        /\ pc' = [pc EXCEPT ![c] = "receive"] /\ alive' = [alive EXCEPT ![c] = TRUE]
    BY <1>3 DEF RegisterClient
  <2>2. \A u \in Uplinks : alive[u] => alive'[u]
    BY <1>t, <2>1
  <2>3. started[c] = None
    BY <1>i, <2>1 DEF ClientInv, Serving
  <2>4. ClientInv(c)'
    BY <1>t, <2>1, <2>3 DEF ClientInv
  <2>5. \A d \in Clients \ {c} : ClientInv(d)'
    BY <1>k, <1>t, <2>1, <2>2
  <2>6. QED
    BY <2>4, <2>5
<1>4. ASSUME NEW c \in Clients, NEW cmd \in Commands, Receive(c, cmd)
      PROVE  \A d \in Clients : ClientInv(d)'
  <2>1. /\ UNCHANGED <<newest, started, alone, alive>>
        /\ pc' = [pc EXCEPT ![c] = "send"]
    BY <1>4 DEF Receive
  <2>2. ClientInv(c)'
    BY <1>i, <1>t, <2>1 DEF ClientInv, Serving
  <2>3. \A d \in Clients \ {c} : ClientInv(d)'
    BY <1>k, <1>t, <2>1
  <2>4. QED
    BY <2>2, <2>3
<1>5. ASSUME NEW c \in Clients, Forward(c) PROVE \A d \in Clients : ClientInv(d)'
  <2>1. up[c] \in Uplinks
    BY <1>5 DEF Forward, RelayTypes
  <2>2. PICK why \in {"Start", "client's Stop"} :
          why = IF dg[c] = "Start" THEN "Start" ELSE "client's Stop"
    OBVIOUS
  <2>3. /\ UNCHANGED <<alone, alive>> /\ pc' = [pc EXCEPT ![c] = "receive"]
        /\ started' = [started EXCEPT ![c] =
             IF alive[up[c]] /\ dg[c] = "Start" THEN up[c] ELSE None]
        /\ newest' = [newest EXCEPT ![up[c]] = IF ~alive[up[c]] THEN @ ELSE why]
    BY <1>5, <2>2 DEF Forward
  <2>4. /\ \A u \in Uplinks : newest[u] # "nothing" => newest'[u] # "nothing"
        /\ alive[up[c]] => newest'[up[c]] = why
    BY <1>t, <2>1, <2>3
  <2>5. pc'[c] = "receive" /\ started'[c] \in {None, up[c]}
        /\ (started'[c] # None => alive[up[c]])
    BY <1>t, <2>3
  <2>6. ClientInv(c)'
    BY <2>1, <2>2, <2>3, <2>4, <2>5 DEF ClientInv, Serving
  <2>7. ASSUME NEW d \in Clients \ {c} PROVE ClientInv(d)'
    <3>1. pc'[d] = pc[d] /\ started'[d] = started[d] /\ ClientInv(d)
      BY <1>i, <1>t, <2>3
    <3>2. started[d] # None => alive'[started[d]] /\ newest'[started[d]] # "nothing"
      BY <2>3, <2>4, <3>1 DEF ClientInv
    <3> QED BY <2>3, <3>1, <3>2, KeptClient
  <2>8. QED
    BY <2>6, <2>7
<1>6. ASSUME NEW c \in Clients, DeleteClient(c) PROVE \A d \in Clients : ClientInv(d)'
  <2>1. /\ UNCHANGED <<alive, newest>> /\ started' = [started EXCEPT ![c] = None]
        /\ \A d \in Clients \ {c} : pc'[d] = pc[d] /\ alone'[d] = alone[d]
    BY <1>6, <1>t DEF DeleteClient, NoteAlone
  <2>2. pc'[c] = "stop" => alone'[c]
    <3>1. SUFFICES ASSUME pc'[c] = "stop" PROVE alone'[c]
      OBVIOUS
    <3>2. {a \in Addrs : clients'[a] # None} = {}
      BY <1>6, <3>1 DEF DeleteClient
    <3>3. \A d \in Clients : Serving(d) => clients'[addr[d]] # d
      BY <3>2, ConnAssumption DEF RelayTypes, Serving
    <3>4. alone' = [alone EXCEPT ![c] =
            pc'[c] = "stop" /\ \A d \in Clients \ {c} : Serving(d) => clients'[addr[d]] # d]
      BY <1>6 DEF DeleteClient, NoteAlone
    <3>5. alone'[c] = (pc'[c] = "stop"
                       /\ \A d \in Clients \ {c} : Serving(d) => clients'[addr[d]] # d)
      BY <1>t, <3>4, Zenon
    <3>6. QED
      BY <3>1, <3>3, <3>5
  <2>3. ClientInv(c)'
    BY <1>t, <2>1, <2>2 DEF ClientInv
  <2>4. \A d \in Clients \ {c} : ClientInv(d)'
    BY <1>k, <1>t, <2>1
  <2>5. QED
    BY <2>3, <2>4
<1>7. ASSUME NEW c \in Clients, SendStop(c) PROVE \A d \in Clients : ClientInv(d)'
  <2>1. up[c] \in Uplinks /\ pc[c] = "stop"
    BY <1>7 DEF SendStop, RelayTypes
  <2>2. /\ UNCHANGED <<started, alive>> /\ pc' = [pc EXCEPT ![c] = "none"]
        /\ alone' = [alone EXCEPT ![c] = FALSE]
        /\ newest' = [newest EXCEPT ![up[c]] =
             IF ~alive[up[c]] THEN @
             ELSE IF alone[c] THEN "last one's Stop" ELSE "leaver's Stop"]
    BY <1>7 DEF SendStop
  <2>3. \A u \in Uplinks : newest[u] # "nothing" => newest'[u] # "nothing"
    BY <1>t, <2>1, <2>2
  <2>4. started[c] = None
    BY <1>i, <2>1 DEF ClientInv, Serving
  <2>5. ClientInv(c)'
    BY <1>t, <2>2, <2>4 DEF ClientInv
  <2>6. ASSUME NEW d \in Clients \ {c} PROVE ClientInv(d)'
    <3>1. pc'[d] = pc[d] /\ alone'[d] = alone[d] /\ ClientInv(d)
      BY <1>i, <1>t, <2>2
    <3>2. started[d] # None => alive'[started[d]] /\ newest'[started[d]] # "nothing"
      BY <2>2, <2>3, <3>1 DEF ClientInv
    <3> QED BY <2>2, <3>1, <3>2, KeptClient
  <2>7. QED
    BY <2>5, <2>6
<1>8. ASSUME NEW c \in Conns, Die(c) PROVE \A d \in Clients : ClientInv(d)'
  <2>1. /\ Gone({c}) /\ UNCHANGED <<pc, listening, alone>>
        /\ \A v \in Uplinks : alive[v] /\ v \notin {c} => alive'[v]
    BY <1>8, <1>t DEF Die
  <2>2. QED
    BY <2>1, GoneClients
<1>9. CASE UNCHANGED vars
  BY <1>9, <1>k DEF vars
<1>10. QED
  BY <1>1, <1>2, <1>3, <1>4, <1>5, <1>6, <1>7, <1>8, <1>9 DEF Next, FarEnd, Client

(* However many clients and uplinks come, go, replace each other and share *)
(* addresses, and in whatever order the network hands over commands: a     *)
(* client that sent Start is streamed to, unless the network lost or       *)
(* overtook the newest command, or that command is another client's own    *)
(* Stop or the Stop of one that left when no other was registered          *)
(* (relay/main.go:234-267).                                                *)
THEOREM StartedIsStreamedTo == Spec => []ClientsStreamedTo
<1>1. Init => StreamInv
  <2> SUFFICES ASSUME Init PROVE StreamInv
    OBVIOUS
  <2>1. \A c \in Clients : ClientInv(c)
    BY DEF Init, ClientInv, Conns
  <2>2. \A u \in Uplinks : LinkInv(u)
    BY DEF Init, LinkInv, Obeyed
  <2> QED BY <2>1, <2>2 DEF StreamInv
<1>2. TypeOK /\ StreamInv /\ [Next]_vars => StreamInv'
  <2>1. StreamInv' <=> (\A c \in Clients : ClientInv(c)') /\ (\A u \in Uplinks : LinkInv(u)')
    BY DEF StreamInv
  <2> QED BY <2>1, TypesSplit, LinksStep, ClientsStep
<1>3. TypeOK /\ StreamInv => ClientsStreamedTo
  <2> SUFFICES ASSUME TypeOK, StreamInv, NEW c \in Clients, Waiting(c),
                      newest[started[c]] \notin {"client's Stop", "last one's Stop"}
               PROVE  listening[started[c]]
    BY DEF ClientsStreamedTo
  <2>1. PICK u \in Uplinks : u = started[c]
    BY DEF Waiting, StreamInv, ClientInv
  <2>2. newest[u] \in Why /\ newest[u] # "nothing" /\ LinkInv(u)
    BY <2>1 DEF TypeOK, Waiting, StreamInv, ClientInv
  <2>3. newest[u] = "Start"
    BY <2>1, <2>2 DEF LinkInv, Why
  <2>4. cmds[u] = <<>> /\ ~outdated[u]
    BY <2>1 DEF Waiting
  <2> QED BY <2>1, <2>2, <2>3, <2>4 DEF LinkInv, UnderWay, Obeyed
<1>4. QED
  BY <1>1, <1>2, <1>3, TypeCorrect, PTL DEF Spec
=============================================================================
