------------------------------- MODULE Relay --------------------------------
(***************************************************************************)
(* The relay (cmd/relay/main.go): one goroutine per QUIC connection, which *)
(* its first datagram makes an uplink or a client.  There is one upstream  *)
(* at a time, a newer uplink replaces it; clients are kept by remote       *)
(* address, their commands go upstream, and the last to leave sends Stop.  *)
(*                                                                         *)
(* Of the traffic the model keeps Start and Stop, which any client may     *)
(* send, and of the server at the other end of an uplink whether it        *)
(* streams to it (cmd/narrowcast).  Commands travel as QUIC datagrams,     *)
(* from the relay to the uplink and on: they get lost and overtake.        *)
(***************************************************************************)
EXTENDS Naturals, Sequences, FiniteSets

CONSTANTS Uplinks,    \* slots for uplink connections that exist at one time
          Clients,    \* slots for client connections
          Addrs,      \* remote addresses of clients
          AddrReuse,  \* a client may come from an address another still uses
          linkDepth,  \* commands that wait in the upstream Writer (64 in the code)
          None        \* nil

ASSUME ConnAssumption == Uplinks \cap Clients = {} /\ None \notin Uplinks \cup Clients
ASSUME DepthAssumption == linkDepth \in Nat \ {0} /\ AddrReuse \in BOOLEAN

Conns == Uplinks \cup Clients

VARIABLES
  pc,        \* where the goroutine of each connection is
  addr,      \* remote address of each client
  alive,     \* the QUIC connection works
  clients,   \* r.clients: for each address the client to write to, or None
  upstream,  \* r.upstream and r.upstreamConn, or None
  dg, up,    \* the local variables of each client's goroutine
  cmds,      \* commands sent to each uplink that its server has not seen;
             \* old: a later one was seen or lost
  listening, \* the server streams to this uplink
  outdated,  \* history: of the commands seen or lost, the one that the server
             \* saw last is not the newest
  newest,    \* history: the newest command sent, and why; see Why
  started,   \* history: the uplink to which each client's last command, a
             \* Start, was sent
  alone      \* history: no other client was registered when this one left

relayVars == <<clients, upstream>>
handVars == <<dg, up>>
netVars == <<cmds, outdated>>
linkVars == <<netVars, listening, newest>>
vars == <<pc, addr, alive, relayVars, handVars, linkVars, started, alone>>

Commands == {"Start", "Stop"}
Command == [cmd : Commands, old : BOOLEAN]

(* A client's Start or Stop; the Stop of one that was alone when it left,  *)
(* or was not.                                                             *)
Why == {"nothing", "Start", "client's Stop", "last one's Stop", "leaver's Stop"}

Goto(c, place) == pc' = [pc EXCEPT ![c] = place]

(* The goroutine of an accepted client is in its forward loop.             *)
Serving(c) == pc[c] \in {"receive", "send"}

(* The command at place i is out of the way, seen or lost: those sent      *)
(* before it are old.                                                      *)
Without(s, i) == [k \in 1..(Len(s) - 1) |-> IF k < i THEN [s[k] EXCEPT !.old = TRUE]
                                                     ELSE s[k + 1]]

Sent(cmd) == [cmd |-> cmd, old |-> FALSE]

(* Mutant: the upstream queue has no bound.                                *)
SendUp_Unbounded(u, cmd) ==
  IF ~alive[u] THEN UNCHANGED netVars
  ELSE cmds' = [cmds EXCEPT ![u] = Append(@, Sent(cmd))] /\ UNCHANGED outdated

(* The upstream Writer queues a command, shedding the oldest when it is    *)
(* full; whatever is sent to a connection that is gone is lost with it.    *)
SendUp(u, cmd) ==
  IF ~alive[u] THEN UNCHANGED netVars
  ELSE IF Len(cmds[u]) < linkDepth
  THEN cmds' = [cmds EXCEPT ![u] = Append(@, Sent(cmd))] /\ UNCHANGED outdated
  ELSE /\ cmds' = [cmds EXCEPT ![u] = Append(Without(@, 1), Sent(cmd))]
       /\ outdated' = [outdated EXCEPT ![u] = @ \/ ~Head(cmds[u]).old]

(* Connections close or die, and what is under way to them with them.      *)
Gone(dead) ==
  /\ cmds' = [u \in Uplinks |-> IF u \in dead THEN <<>> ELSE cmds[u]]
  /\ started' = [c \in Clients |-> IF started[c] \in dead THEN None ELSE started[c]]
  /\ outdated' = [u \in Uplinks |-> outdated[u] /\ u \notin dead]
  /\ newest' = [u \in Uplinks |-> IF u \in dead THEN "nothing" ELSE newest[u]]

-----------------------------------------------------------------------------
Init ==
  /\ pc = [c \in Conns |-> "none"]
  /\ alive = [c \in Conns |-> FALSE]
  /\ addr = [c \in Clients |-> None]
  /\ clients = [a \in Addrs |-> None] /\ upstream = None
  /\ dg = [c \in Clients |-> None] /\ up = [c \in Clients |-> None]
  /\ cmds = [u \in Uplinks |-> <<>>]
  /\ listening = [u \in Uplinks |-> FALSE]
  /\ started = [c \in Clients |-> None]
  /\ alone = [c \in Clients |-> FALSE]
  /\ outdated = [u \in Uplinks |-> FALSE]
  /\ newest = [u \in Uplinks |-> "nothing"]

(* A connection is accepted in a slot nobody remembers, and its first      *)
(* datagram came in time and had the right key; any other connection is    *)
(* closed without a trace.                                                 *)
Free(u) == pc[u] = "none" /\ ~listening[u] /\ \A c \in Clients : up[c] # u

(* Mutant: the upstream is set without closing the one it replaces.        *)
RegisterUplink_KeepsOld(u) ==
  /\ Free(u)
  /\ Goto(u, "fanout")
  /\ upstream' = u
  /\ alive' = [alive EXCEPT ![u] = TRUE]
  /\ UNCHANGED <<addr, clients, handVars, linkVars, started, alone>>

(* handleUplink replaces the upstream, closing it.                         *)
RegisterUplink(u) ==
  /\ Free(u)
  /\ Goto(u, "fanout")
  /\ upstream' = u
  /\ alive' = [c \in Conns |-> IF c = u THEN TRUE ELSE alive[c] /\ c # upstream]
  /\ Gone({upstream} \ {None})
  /\ UNCHANGED <<addr, clients, handVars, listening, alone>>

(* Mutant: whoever ends clears the upstream.                               *)
ClearUplink_Any(u) ==
  /\ pc[u] = "fanout" /\ ~alive[u]
  /\ Goto(u, "none")
  /\ upstream' = None
  /\ UNCHANGED <<addr, alive, clients, handVars, linkVars, started, alone>>

(* Its receive loop ends with the connection; it clears the upstream only  *)
(* if that is still this connection.                                       *)
ClearUplink(u) ==
  /\ pc[u] = "fanout" /\ ~alive[u]
  /\ Goto(u, "none")
  /\ upstream' = IF upstream = u THEN None ELSE upstream
  /\ UNCHANGED <<addr, alive, clients, handVars, linkVars, started, alone>>

-----------------------------------------------------------------------------
(* handleClient.                                                           *)
RegisterClient(c, a) ==
  /\ pc[c] = "none" /\ (AddrReuse \/ \A d \in Clients : addr[d] # a)
  /\ Goto(c, "receive")
  /\ alive' = [alive EXCEPT ![c] = TRUE]
  /\ addr' = [addr EXCEPT ![c] = a]
  /\ clients' = [clients EXCEPT ![a] = c]
  /\ UNCHANGED <<upstream, handVars, linkVars, started, alone>>

(* A Start or Stop arrives (a client may repeat it) and the upstream is    *)
(* looked up under the read lock (when there is none it is forgotten) ...  *)
Receive(c, cmd) ==
  /\ pc[c] = "receive" /\ alive[c] /\ upstream # None
  /\ Goto(c, "send")
  /\ dg' = [dg EXCEPT ![c] = cmd] /\ up' = [up EXCEPT ![c] = upstream]
  /\ UNCHANGED <<addr, alive, relayVars, linkVars, started, alone>>

(* ... and the datagram is sent without it, whatever it is.                *)
Forward(c) ==
  /\ pc[c] = "send"
  /\ Goto(c, "receive")
  /\ SendUp(up[c], dg[c])
  /\ started' = [started EXCEPT ![c] =
       IF alive[up[c]] /\ dg[c] = "Start" THEN up[c] ELSE None]
  /\ newest' = [newest EXCEPT ![up[c]] =
       IF ~alive[up[c]] THEN @
       ELSE IF dg[c] = "Start" THEN "Start" ELSE "client's Stop"]
  /\ dg' = [dg EXCEPT ![c] = None] /\ up' = [up EXCEPT ![c] = None]
  /\ UNCHANGED <<addr, alive, relayVars, listening, alone>>

NoteAlone(c) ==
  alone' = [alone EXCEPT ![c] =
    pc'[c] = "stop" /\ \A d \in Clients \ {c} : Serving(d) => clients'[addr[d]] # d]

(* Mutant: every client that leaves stops the stream.                      *)
DeleteClient_AnyStops(c) ==
  /\ pc[c] = "receive" /\ ~alive[c]
  /\ clients' = [clients EXCEPT ![addr[c]] = None]
  /\ Goto(c, IF upstream # None THEN "stop" ELSE "none")
  /\ up' = [up EXCEPT ![c] = upstream]
  /\ started' = [started EXCEPT ![c] = None]
  /\ addr' = [addr EXCEPT ![c] = None]
  /\ NoteAlone(c)
  /\ UNCHANGED <<alive, upstream, dg, linkVars>>

(* Mutant: the leaving client is still counted.                            *)
DeleteClient_CountsSelf(c) ==
  /\ pc[c] = "receive" /\ ~alive[c]
  /\ clients' = [clients EXCEPT ![addr[c]] = None]
  /\ LET remaining == {a \in Addrs : clients[a] # None}
     IN  Goto(c, IF remaining = {} /\ upstream # None THEN "stop" ELSE "none")
  /\ up' = [up EXCEPT ![c] = IF pc'[c] = "stop" THEN upstream ELSE None]
  /\ started' = [started EXCEPT ![c] = None]
  /\ addr' = [addr EXCEPT ![c] = None]
  /\ NoteAlone(c)
  /\ UNCHANGED <<alive, upstream, dg, linkVars>>

(* The receive loop ends with the connection.  Deferred, under the lock:   *)
(* forget the client, count the others, read the upstream.                 *)
DeleteClient(c) ==
  /\ pc[c] = "receive" /\ ~alive[c]
  /\ clients' = [clients EXCEPT ![addr[c]] = None]
  /\ LET remaining == {a \in Addrs : clients'[a] # None}
     IN  Goto(c, IF remaining = {} /\ upstream # None THEN "stop" ELSE "none")
  /\ up' = [up EXCEPT ![c] = IF pc'[c] = "stop" THEN upstream ELSE None]
  /\ started' = [started EXCEPT ![c] = None]
  /\ addr' = [addr EXCEPT ![c] = None]
  /\ NoteAlone(c)
  /\ UNCHANGED <<alive, upstream, dg, linkVars>>

(* Outside the lock: the last client stops the stream.                     *)
SendStop(c) ==
  /\ pc[c] = "stop"
  /\ Goto(c, "none")
  /\ SendUp(up[c], "Stop")
  /\ newest' = [newest EXCEPT ![up[c]] =
       IF ~alive[up[c]] THEN @
       ELSE IF alone[c] THEN "last one's Stop" ELSE "leaver's Stop"]
  /\ alone' = [alone EXCEPT ![c] = FALSE]
  /\ up' = [up EXCEPT ![c] = None]
  /\ UNCHANGED <<addr, alive, relayVars, dg, listening, started>>

-----------------------------------------------------------------------------
(* The network and the far end.                                            *)
Die(c) ==
  /\ alive[c] /\ alive' = [alive EXCEPT ![c] = FALSE]
  /\ Gone({c})
  /\ UNCHANGED <<pc, addr, relayVars, handVars, listening, alone>>

Lose(u) ==
  /\ alive[u]
  /\ \E i \in DOMAIN cmds[u] :
       /\ cmds' = [cmds EXCEPT ![u] = Without(@, i)]
       /\ outdated' = [outdated EXCEPT ![u] = @ \/ ~cmds[u][i].old]
  /\ UNCHANGED <<pc, addr, alive, relayVars, handVars, listening, newest, started, alone>>

(* The uplink hands a command to narrowcast's handleClient, not always the *)
(* one that was sent first.                                                *)
ServerCommand(u) ==
  /\ alive[u]
  /\ \E i \in DOMAIN cmds[u] :
       /\ cmds' = [cmds EXCEPT ![u] = Without(@, i)]
       /\ outdated' = [outdated EXCEPT ![u] = cmds[u][i].old]
       /\ listening' = [listening EXCEPT ![u] = cmds[u][i].cmd = "Start"]
  /\ UNCHANGED <<pc, addr, alive, relayVars, handVars, newest, started, alone>>

(* When its relay connection is gone the uplink closes the local one, and  *)
(* handleClient's deferred removeListener ends the stream to it.           *)
BridgeDown(u) ==
  /\ ~alive[u] /\ listening[u]
  /\ listening' = [listening EXCEPT ![u] = FALSE]
  /\ UNCHANGED <<pc, addr, alive, relayVars, handVars, netVars, newest, started, alone>>

-----------------------------------------------------------------------------
(* What a connection's goroutine does by itself.                           *)
Client(c) == Forward(c) \/ DeleteClient(c) \/ SendStop(c)

FarEnd(u) == ServerCommand(u) \/ BridgeDown(u)

Next ==
  \/ \E u \in Uplinks : \/ RegisterUplink(u) \/ ClearUplink(u)
                        \/ FarEnd(u) \/ Lose(u)
  \/ \E c \in Clients : \/ \E a \in Addrs : RegisterClient(c, a)
                        \/ \E cmd \in Commands : Receive(c, cmd)
                        \/ Client(c)
  \/ \E c \in Conns : Die(c)

Spec == Init /\ [][Next]_vars

(* Goroutines run; a datagram that is not lost arrives; a dead connection  *)
(* is noticed (QUIC times it out after MaxIdleTimeout).                    *)
FairSpec ==
  /\ Spec
  /\ \A u \in Uplinks : WF_vars(ClearUplink(u)) /\ WF_vars(FarEnd(u))
  /\ \A c \in Clients : WF_vars(Client(c))

-----------------------------------------------------------------------------
TypeOK ==
  /\ pc \in [Conns -> {"none", "fanout", "receive", "send", "stop"}]
  /\ alive \in [Conns -> BOOLEAN]
  /\ addr \in [Clients -> Addrs \cup {None}]
  /\ clients \in [Addrs -> Clients \cup {None}]
  /\ upstream \in Uplinks \cup {None}
  /\ dg \in [Clients -> Commands \cup {None}]
  /\ up \in [Clients -> Uplinks \cup {None}]
  /\ \A c \in Clients :
       /\ pc[c] \in {"send", "stop"} => up[c] \in Uplinks
       /\ pc[c] = "send" => dg[c] \in Commands
       /\ pc[c] \in {"receive", "send"} => addr[c] \in Addrs
  /\ cmds \in [Uplinks -> Seq(Command)]
  /\ \A u \in Uplinks : Len(cmds[u]) <= linkDepth
  /\ listening \in [Uplinks -> BOOLEAN]
  /\ started \in [Clients -> Uplinks \cup {None}]
  /\ alone \in [Clients -> BOOLEAN]
  /\ outdated \in [Uplinks -> BOOLEAN] /\ newest \in [Uplinks -> Why]

(* However uplinks come, go and replace each other: an uplink that is read *)
(* and was not replaced gets the clients' commands, and no command goes to *)
(* an uplink whose goroutine has ended.                                    *)
OneUpstream ==
  /\ \A u \in Uplinks : pc[u] = "fanout" /\ alive[u] => upstream = u
  /\ upstream # None => pc[upstream] = "fanout"

(* The server has seen or missed all commands sent to the uplink to which  *)
(* c sent its Start, and the network kept the newest of them, in order.    *)
Waiting(c) ==
  /\ Serving(c) /\ started[c] # None
  /\ cmds[started[c]] = <<>> /\ ~outdated[started[c]]

(* A client that sent Start is streamed to, once the command is through,   *)
(* as long as the uplink it was sent to remains, whoever else comes, sends *)
(* and goes: a client that leaves while others are registered never stops  *)
(* the stream.  The relay does not promise it when another client said     *)
(* Stop, or when the newest command is the Stop of a client that left when *)
(* no other was registered.                                                *)
ClientsStreamedTo ==
  \A c \in Clients :
    Waiting(c) /\ newest[started[c]] \notin {"client's Stop", "last one's Stop"}
      => listening[started[c]]

(* "so the SDR stops processing samples while no one is listening"         *)
(* (PROTOCOL.md:218): when all clients have gone for good, the stream ends *)
(* although uplinks may still be replaced, unless the network lost the     *)
(* newest command or handed it over before an older one.                   *)
IdleWhenAlone ==
  <>[](\A c \in Clients : ~Serving(c)) =>
    <>[](\A u \in Uplinks : listening[u] => outdated[u])

(* "the relay sends Stop upstream automatically when the last client       *)
(* disconnects" (PROTOCOL.md:218): the relay's own Stop is for when there  *)
(* is no client.                                                           *)
StopOnlyWhenAlone ==
  \A c \in Clients :
    Waiting(c) /\ newest[started[c]] # "client's Stop" => listening[started[c]]
=============================================================================
