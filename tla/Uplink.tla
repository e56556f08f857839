------------------------------- MODULE Uplink -------------------------------
(***************************************************************************)
(* The uplink (cmd/uplink/main.go): it resolves the relay once, then for   *)
(* ever dials the relay and the local narrowcast, authenticates, bridges   *)
(* datagrams both ways until one side fails, closes both connections and   *)
(* starts over.  The relay's goroutine of an uplink connection and         *)
(* narrowcast's of a local one are here as far as they touch the bridge.   *)
(*                                                                         *)
(* Of the traffic the model keeps authentication and the clients' Start.   *)
(* Datagrams may be lost and overtake each other; connections die.         *)
(***************************************************************************)
EXTENDS Naturals, Sequences

CONSTANTS RConns,     \* slots for connections to the relay
          LConns,     \* slots for connections to narrowcast
          linkDepth,  \* commands under way on one connection (64 in a Writer)
          MaxFaults,  \* outages, dead connections, lost or overtaken datagrams
          None        \* nil

Conns == RConns \cup LConns

ASSUME ConnAssumption == RConns \cap LConns = {} /\ None \notin Conns
ASSUME BoundAssumption == linkDepth \in Nat \ {0} /\ MaxFaults \in Nat

VARIABLES
  pc,         \* where main and run are
  backoff,    \* the backoff of the loop that is running, in seconds
  relayConn,  \* the connections of this run(), or None
  localConn,
  pumps,      \* forwarding goroutines that have not returned, by their source
  bridging,   \* bridgeCtx is not cancelled
  stopping,   \* ctx is cancelled by a signal
  keysMatch,  \* uplink and relay were given the same key
  netUp,      \* the network between uplink and relay works
  alive,      \* the QUIC connection works
  request,    \* CmdUplink is under way on this connection
  down,       \* datagrams under way from the relay
  toLocal,    \* commands under way to narrowcast, the localWriter's included
  rpc,        \* where the relay's goroutine of a connection is
  upstream,   \* the relay's upstreamConn, or None
  accepted,   \* history: the relay has sent AuthOK on this connection
  served,     \* narrowcast runs handleClient for this connection
  listening,  \* and streams to it
  faults      \* history: faults so far

runVars == <<relayConn, localConn>>
bridgeVars == <<pumps, bridging>>
relayVars == <<rpc, upstream, accepted>>
serverVars == <<served, listening>>
worldVars == <<keysMatch, netUp, faults>>
vars == <<pc, backoff, runVars, bridgeVars, stopping, alive, request, down,
          toLocal, relayVars, serverVars, worldVars>>

Init ==
  /\ pc = "resolve" /\ backoff = 1
  /\ relayConn = None /\ localConn = None
  /\ pumps = {} /\ bridging = FALSE /\ stopping = FALSE
  /\ keysMatch \in BOOLEAN /\ netUp = TRUE /\ faults = 0
  /\ alive = [c \in Conns |-> FALSE]
  /\ request = [r \in RConns |-> FALSE]
  /\ down = [r \in RConns |-> <<>>]
  /\ toLocal = [l \in LConns |-> <<>>]
  /\ rpc = [r \in RConns |-> "none"] /\ upstream = None
  /\ accepted = [r \in RConns |-> FALSE]
  /\ served = [l \in LConns |-> FALSE] /\ listening = [l \in LConns |-> FALSE]

-----------------------------------------------------------------------------
(* resolveRelayWithFallback: the system's resolver or, if it fails, the    *)
(* public one; when both fail, again after the backoff.                    *)
Resolve ==
  /\ pc = "resolve" /\ ~stopping
  /\ \/ pc' = "dial" /\ backoff' = 1
     \/ ~netUp /\ pc' = "resolveWait" /\ UNCHANGED backoff
  /\ UNCHANGED <<runVars, bridgeVars, stopping, alive, request, down, toLocal,
                 relayVars, serverVars, worldVars>>

ResolveAgain ==
  /\ pc = "resolveWait" /\ pc' = "resolve"
  /\ backoff' = IF backoff < 30 THEN 2 * backoff ELSE backoff
  /\ UNCHANGED <<runVars, bridgeVars, stopping, alive, request, down, toLocal,
                 relayVars, serverVars, worldVars>>

(* run: dial the relay until it answers.  The relay's goroutine waits for  *)
(* the first datagram.  (backoff is not used afterwards.)                  *)
FreeRelayConn(r) == rpc[r] = "none" /\ r # relayConn

DialRelay ==
  /\ pc = "dial" /\ ~stopping
  /\ \E r \in RConns :
       /\ FreeRelayConn(r)
       /\ relayConn' = r
       /\ alive' = [alive EXCEPT ![r] = TRUE]
       /\ rpc' = [rpc EXCEPT ![r] = "first"]
       /\ accepted' = [accepted EXCEPT ![r] = FALSE]
       /\ request' = [request EXCEPT ![r] = FALSE]
       /\ down' = [down EXCEPT ![r] = <<>>]
  /\ pc' = "local" /\ backoff' = 1
  /\ UNCHANGED <<localConn, bridgeVars, stopping, toLocal, upstream, serverVars,
                 worldVars>>

DialFails ==
  /\ pc = "dial" /\ ~netUp /\ ~stopping
  /\ pc' = "dialWait"
  /\ UNCHANGED <<backoff, runVars, bridgeVars, stopping, alive, request, down,
                 toLocal, relayVars, serverVars, worldVars>>

(* Mutant: the backoff doubles without a ceiling.                          *)
Redial_NoCeiling ==
  /\ pc = "dialWait" /\ pc' = "dial"
  /\ backoff' = 2 * backoff
  /\ UNCHANGED <<runVars, bridgeVars, stopping, alive, request, down, toLocal,
                 relayVars, serverVars, worldVars>>

Redial ==
  /\ pc = "dialWait" /\ pc' = "dial"
  /\ backoff' = IF backoff < 10 THEN 2 * backoff ELSE backoff
  /\ UNCHANGED <<runVars, bridgeVars, stopping, alive, request, down, toLocal,
                 relayVars, serverVars, worldVars>>

(* Dial narrowcast once.  A failure ends run().                            *)
FreeLocalConn(l) == ~served[l] /\ l # localConn

DialLocal ==
  /\ pc = "local" /\ ~stopping
  /\ \E l \in LConns :
       /\ FreeLocalConn(l)
       /\ localConn' = l
       /\ alive' = [alive EXCEPT ![l] = TRUE]
       /\ served' = [served EXCEPT ![l] = TRUE]
       /\ toLocal' = [toLocal EXCEPT ![l] = <<>>]
  /\ pc' = "send"
  /\ UNCHANGED <<backoff, relayConn, bridgeVars, stopping, request, down,
                 relayVars, listening, worldVars>>

(* A step of run that changes nothing but its place.                       *)
Goto(place) ==
  /\ pc' = place
  /\ UNCHANGED <<backoff, runVars, bridgeVars, stopping, alive, request, down,
                 toLocal, relayVars, serverVars, worldVars>>

LocalFails ==
  /\ pc = "local" /\ faults < MaxFaults
  /\ pc' = "return" /\ faults' = faults + 1
  /\ UNCHANGED <<backoff, runVars, bridgeVars, stopping, alive, request, down,
                 toLocal, relayVars, serverVars, keysMatch, netUp>>

SendUplink ==
  /\ pc = "send" /\ alive[relayConn]
  /\ pc' = "auth" /\ request' = [request EXCEPT ![relayConn] = TRUE]
  /\ UNCHANGED <<backoff, runVars, bridgeVars, stopping, alive, down, toLocal,
                 relayVars, serverVars, worldVars>>

(* Mutant: any answer of the relay will do.                                *)
AuthReply_Any ==
  /\ pc = "auth" /\ down[relayConn] # <<>>
  /\ pc' = "hello"
  /\ down' = [down EXCEPT ![relayConn] = Tail(@)]
  /\ UNCHANGED <<backoff, runVars, bridgeVars, stopping, alive, request, toLocal,
                 relayVars, serverVars, worldVars>>

(* The first datagram from the relay is the answer; there is no timeout,   *)
(* and anything but AuthOK ends run().                                     *)
AuthReply ==
  /\ pc = "auth" /\ down[relayConn] # <<>>
  /\ pc' = IF Head(down[relayConn]) = "AuthOK" THEN "hello" ELSE "return"
  /\ down' = [down EXCEPT ![relayConn] = Tail(@)]
  /\ UNCHANGED <<backoff, runVars, bridgeVars, stopping, alive, request, toLocal,
                 relayVars, serverVars, worldVars>>

(* Hello to narrowcast, then both forwarding goroutines.                   *)
StartBridge ==
  /\ pc = "hello" /\ alive[localConn]
  /\ pc' = "bridge"
  /\ pumps' = {"local", "relay"} /\ bridging' = TRUE
  /\ UNCHANGED <<backoff, runVars, stopping, alive, request, down, toLocal,
                 relayVars, serverVars, worldVars>>

(* SendDatagram and ReceiveDatagram fail on a connection that is gone.     *)
StepFails ==
  /\ \/ pc \in {"send", "auth"} /\ ~alive[relayConn]
     \/ pc = "hello" /\ ~alive[localConn]
  /\ Goto("return")

-----------------------------------------------------------------------------
(* The bridge.  A Writer never blocks and sheds its oldest datagram.       *)
Queued(q, d) == Append(IF Len(q) < linkDepth THEN q ELSE Tail(q), d)

PumpCommand ==
  /\ "relay" \in pumps /\ down[relayConn] # <<>>
  /\ down' = [down EXCEPT ![relayConn] = Tail(@)]
  /\ toLocal' = IF alive[localConn]
                THEN [toLocal EXCEPT ![localConn] = Queued(@, Head(down[relayConn]))]
                ELSE toLocal
  /\ UNCHANGED <<pc, backoff, runVars, bridgeVars, stopping, alive, request,
                 relayVars, serverVars, worldVars>>

Source(side) == IF side = "local" THEN localConn ELSE relayConn

(* Mutant: the goroutine whose connection fails does not cancel the other. *)
PumpEnds_NoCancel(side) ==
  /\ side \in pumps /\ (~alive[Source(side)] \/ ~bridging \/ stopping)
  /\ pumps' = pumps \ {side}
  /\ UNCHANGED <<pc, backoff, runVars, bridging, stopping, alive, request, down,
                 toLocal, relayVars, serverVars, worldVars>>

(* ReceiveDatagram(bridgeCtx) fails: the connection is gone, the other     *)
(* goroutine has cancelled, or the program is told to stop.                *)
PumpEnds(side) ==
  /\ side \in pumps /\ (~alive[Source(side)] \/ ~bridging \/ stopping)
  /\ pumps' = pumps \ {side} /\ bridging' = FALSE
  /\ UNCHANGED <<pc, backoff, runVars, stopping, alive, request, down, toLocal,
                 relayVars, serverVars, worldVars>>

(* wg.Wait returns.                                                        *)
BridgeEnds == pc = "bridge" /\ pumps = {} /\ Goto("return")

(* Mutant: only the relay's connection is closed.                          *)
Return_LeavesLocal ==
  /\ pc = "return"
  /\ alive' = [c \in Conns |-> alive[c] /\ c # relayConn]
  /\ relayConn' = None /\ localConn' = None
  /\ pc' = IF stopping THEN "done" ELSE "wait"
  /\ UNCHANGED <<backoff, bridgeVars, stopping, request, down, toLocal, relayVars,
                 serverVars, worldVars>>

(* Mutant: the relay's connection is closed only together with a local one.*)
Return_LeavesRelay ==
  /\ pc = "return"
  /\ alive' = IF localConn = None THEN alive
              ELSE [c \in Conns |-> alive[c] /\ c \notin {relayConn, localConn}]
  /\ relayConn' = None /\ localConn' = None
  /\ pc' = IF stopping THEN "done" ELSE "wait"
  /\ UNCHANGED <<backoff, bridgeVars, stopping, request, down, toLocal, relayVars,
                 serverVars, worldVars>>

(* The deferred calls of run: both connections are closed.  main goes on.  *)
Return ==
  /\ pc = "return"
  /\ alive' = [c \in Conns |-> alive[c] /\ c \notin {relayConn, localConn}]
  /\ relayConn' = None /\ localConn' = None
  /\ pc' = IF stopping THEN "done" ELSE "wait"
  /\ UNCHANGED <<backoff, bridgeVars, stopping, request, down, toLocal, relayVars,
                 serverVars, worldVars>>

(* Three seconds later.                                                    *)
Reconnect == pc = "wait" /\ Goto("dial")

(* A signal cancels ctx ...                                                *)
Signal ==
  /\ ~stopping /\ stopping' = TRUE
  /\ UNCHANGED <<pc, backoff, runVars, bridgeVars, alive, request, down, toLocal,
                 relayVars, serverVars, worldVars>>

(* Mutant: the wait for the relay's answer does not heed ctx.              *)
Cancelled_NotAuth ==
  /\ stopping
  /\ \/ pc \in {"resolve", "resolveWait", "wait"} /\ Goto("done")
     \/ pc \in {"dial", "dialWait", "local"} /\ Goto("return")

(* ... which every call that waits heeds.                                  *)
Cancelled ==
  /\ stopping
  /\ \/ pc \in {"resolve", "resolveWait", "wait"} /\ Goto("done")
     \/ pc \in {"dial", "dialWait", "local", "auth"} /\ Goto("return")

-----------------------------------------------------------------------------
(* The relay: handleNewConnection, checkAuth.                              *)
RelayAccepts(r) ==
  /\ rpc[r] = "first" /\ request[r]
  /\ request' = [request EXCEPT ![r] = FALSE]
  /\ IF keysMatch
     THEN /\ down' = [down EXCEPT ![r] = IF alive[r] THEN Append(@, "AuthOK") ELSE @]
          /\ accepted' = [accepted EXCEPT ![r] = TRUE]
          /\ rpc' = [rpc EXCEPT ![r] = "register"]
          /\ UNCHANGED alive
     ELSE /\ down' = [down EXCEPT ![r] = IF alive[r] THEN Append(@, "AuthFail") ELSE @]
          /\ alive' = [alive EXCEPT ![r] = FALSE]
          /\ rpc' = [rpc EXCEPT ![r] = "none"]
          /\ UNCHANGED accepted
  /\ UNCHANGED <<pc, backoff, runVars, bridgeVars, stopping, toLocal, upstream,
                 serverVars, worldVars>>

(* No first datagram: the connection is gone, or ten seconds have passed   *)
(* since it was accepted, more than the uplink needs before it sends.      *)
RelayGivesUp(r) ==
  /\ rpc[r] = "first" /\ ~request[r]
  /\ ~alive[r] \/ (r = relayConn /\ pc = "auth")
  /\ rpc' = [rpc EXCEPT ![r] = "none"]
  /\ alive' = [alive EXCEPT ![r] = FALSE]
  /\ UNCHANGED <<pc, backoff, runVars, bridgeVars, stopping, request, down,
                 toLocal, upstream, accepted, serverVars, worldVars>>

(* handleUplink replaces the upstream ...                                  *)
RelayRegisters(r) ==
  /\ rpc[r] = "register"
  /\ rpc' = [rpc EXCEPT ![r] = "fanout"]
  /\ upstream' = r
  /\ alive' = IF upstream = None THEN alive ELSE [alive EXCEPT ![upstream] = FALSE]
  /\ UNCHANGED <<pc, backoff, runVars, bridgeVars, stopping, request, down,
                 toLocal, accepted, serverVars, worldVars>>

(* ... and its receive loop ends with the connection.                      *)
RelayEnds(r) ==
  /\ rpc[r] = "fanout" /\ ~alive[r]
  /\ rpc' = [rpc EXCEPT ![r] = "none"]
  /\ upstream' = IF upstream = r THEN None ELSE upstream
  /\ UNCHANGED <<pc, backoff, runVars, bridgeVars, stopping, alive, request, down,
                 toLocal, accepted, serverVars, worldVars>>

(* The relay's handleClient sends a client's Start upstream.               *)
ClientCommand ==
  /\ upstream # None /\ alive[upstream]
  /\ Len(SelectSeq(down[upstream], LAMBDA d : d = "Start")) < linkDepth
  /\ down' = [down EXCEPT ![upstream] = Append(@, "Start")]
  /\ UNCHANGED <<pc, backoff, runVars, bridgeVars, stopping, alive, request,
                 toLocal, relayVars, serverVars, worldVars>>

Relay(r) == RelayAccepts(r) \/ RelayGivesUp(r) \/ RelayRegisters(r) \/ RelayEnds(r)

-----------------------------------------------------------------------------
(* narrowcast's handleClient takes a command, and ends with its connection.*)
ServerCommand(l) ==
  /\ served[l] /\ toLocal[l] # <<>>
  /\ toLocal' = [toLocal EXCEPT ![l] = Tail(@)]
  /\ listening' = [listening EXCEPT ![l] = @ \/ Head(toLocal[l]) = "Start"]
  /\ UNCHANGED <<pc, backoff, runVars, bridgeVars, stopping, alive, request, down,
                 relayVars, served, worldVars>>

ServerEnds(l) ==
  /\ served[l] /\ ~alive[l]
  /\ served' = [served EXCEPT ![l] = FALSE]
  /\ listening' = [listening EXCEPT ![l] = FALSE]
  /\ toLocal' = [toLocal EXCEPT ![l] = <<>>]
  /\ UNCHANGED <<pc, backoff, runVars, bridgeVars, stopping, alive, request, down,
                 relayVars, worldVars>>

Server(l) == ServerCommand(l) \/ ServerEnds(l)

-----------------------------------------------------------------------------
(* The network fails, at most MaxFaults times.                             *)
Fault == faults < MaxFaults /\ faults' = faults + 1

Outage ==
  /\ netUp /\ Fault
  /\ netUp' = FALSE
  /\ UNCHANGED <<pc, backoff, runVars, bridgeVars, stopping, alive, request, down,
                 toLocal, relayVars, serverVars, keysMatch>>

OutageEnds ==
  /\ ~netUp /\ netUp' = TRUE
  /\ UNCHANGED <<pc, backoff, runVars, bridgeVars, stopping, alive, request, down,
                 toLocal, relayVars, serverVars, keysMatch, faults>>

(* What has arrived on a connection that dies may still be read.           *)
Die(c) ==
  /\ alive[c] /\ Fault
  /\ alive' = [alive EXCEPT ![c] = FALSE]
  /\ \E arrived \in BOOLEAN :
       /\ request' = [r \in RConns |-> request[r] /\ (r = c => arrived)]
       /\ down' = [r \in RConns |-> IF r = c /\ ~arrived THEN <<>> ELSE down[r]]
  /\ UNCHANGED <<pc, backoff, runVars, bridgeVars, stopping, toLocal, relayVars,
                 serverVars, keysMatch, netUp>>

Lose(r) ==
  /\ Fault
  /\ \/ request[r] /\ request' = [request EXCEPT ![r] = FALSE] /\ UNCHANGED down
     \/ down[r] # <<>> /\ down' = [down EXCEPT ![r] = Tail(@)] /\ UNCHANGED request
  /\ UNCHANGED <<pc, backoff, runVars, bridgeVars, stopping, alive, toLocal,
                 relayVars, serverVars, keysMatch, netUp>>

Overtake(r) ==
  /\ Fault
  /\ Len(down[r]) > 1
  /\ down' = [down EXCEPT ![r] = Append(Tail(@), Head(@))]
  /\ UNCHANGED <<pc, backoff, runVars, bridgeVars, stopping, alive, request,
                 toLocal, relayVars, serverVars, keysMatch, netUp>>

-----------------------------------------------------------------------------
(* What the uplink does by itself.                                         *)
Run ==
  \/ Resolve \/ ResolveAgain \/ DialRelay \/ DialFails \/ Redial \/ DialLocal
  \/ SendUplink \/ AuthReply \/ StartBridge \/ StepFails
  \/ BridgeEnds \/ Return \/ Reconnect \/ Cancelled

(* After shutdown the far ends notice and nothing is left to do.           *)
Terminated == pc = "done" /\ UNCHANGED vars

Next ==
  \/ Run \/ LocalFails \/ PumpCommand \/ Signal \/ ClientCommand
  \/ \E side \in {"local", "relay"} : PumpEnds(side)
  \/ \E r \in RConns : Relay(r) \/ Lose(r) \/ Overtake(r)
  \/ \E l \in LConns : Server(l)
  \/ \E c \in Conns : Die(c)
  \/ Outage \/ OutageEnds \/ Terminated

Spec == Init /\ [][Next]_vars

(* Goroutines run, dials and lookups are answered once the network works,  *)
(* dead connections are noticed (keepalive and idle timeout).  No fairness *)
(* of clients: nobody need send a command.                                 *)
FairSpec ==
  /\ Spec
  /\ WF_vars(Run) /\ WF_vars(OutageEnds) /\ WF_vars(PumpCommand)
  /\ \A side \in {"local", "relay"} : WF_vars(PumpEnds(side))
  /\ \A r \in RConns : WF_vars(Relay(r))
  /\ \A l \in LConns : WF_vars(Server(l))

-----------------------------------------------------------------------------
(* A connection variable is set exactly where run() has that connection,   *)
(* and the backoffs stay within what their loops allow: 16 seconds between *)
(* dials, 32 between lookups.                                              *)
Places == {"resolve", "resolveWait", "dial", "dialWait", "local", "send", "auth",
           "hello", "bridge", "return", "wait", "done"}
Linked == {"send", "auth", "hello", "bridge"}

TypeOK ==
  /\ pc \in Places
  /\ backoff \in {1, 2, 4, 8, 16, 32}
  /\ backoff = 32 => pc \in {"resolve", "resolveWait", "done"}
  /\ relayConn \in RConns \cup {None} /\ localConn \in LConns \cup {None}
  /\ pc \in Linked \cup {"local"} => relayConn \in RConns
  /\ pc \in Linked => localConn \in LConns
  /\ pumps \subseteq {"local", "relay"} /\ (pumps # {} => pc = "bridge")
  /\ bridging \in BOOLEAN /\ stopping \in BOOLEAN /\ keysMatch \in BOOLEAN
  /\ netUp \in BOOLEAN /\ faults \in 0 .. MaxFaults
  /\ alive \in [Conns -> BOOLEAN] /\ request \in [RConns -> BOOLEAN]
  /\ down \in [RConns -> Seq({"AuthOK", "AuthFail", "Start"})]
  /\ toLocal \in [LConns -> Seq({"AuthOK", "AuthFail", "Start"})]
  /\ rpc \in [RConns -> {"none", "first", "register", "fanout"}]
  /\ upstream \in RConns \cup {None}
  /\ accepted \in [RConns -> BOOLEAN]
  /\ served \in [LConns -> BOOLEAN] /\ listening \in [LConns -> BOOLEAN]

(* Whatever answers are lost or overtaken by clients' commands, datagrams  *)
(* are bridged only to a relay that accepted this connection, so that      *)
(* commands of strangers never reach the radio.                            *)
BridgesAccepted ==
  /\ pc \in {"hello", "bridge"} => accepted[relayConn] /\ keysMatch
  /\ \A l \in LConns : listening[l] => keysMatch

(* On every way out of run() both connections are closed: the uplink holds *)
(* no connection it does not use, and between two runs none at all.        *)
NothingLeftOpen ==
  /\ \A c \in Conns : alive[c] => c \in {relayConn, localConn}
  /\ pc \in {"resolve", "resolveWait", "dial", "dialWait", "wait", "done"} =>
       relayConn = None /\ localConn = None
  /\ pc = "local" => localConn = None

(* When the bridge is gone, for whatever reason, narrowcast stops          *)
(* streaming to the connection it used: the radio is not left on.          *)
AbandonedStops ==
  \A l \in LConns : listening[l] /\ l # localConn ~> ~listening[l]

(* A signal ends the program wherever it waits, with the stream stopped.   *)
SignalEnds == stopping ~> pc = "done" /\ \A l \in LConns : ~listening[l]

(* Once the network fails no more, an uplink with the right key is bridged *)
(* and is the relay's upstream, for good, even if its older connections    *)
(* were registered late.  The exception: its AuthOK was lost, there is no  *)
(* timeout, and no client sends a command that would be taken for a        *)
(* refusal.                                                                *)
Bridged == pc = "bridge" /\ upstream = relayConn /\ alive[relayConn]

Deaf == pc = "auth" /\ upstream = relayConn /\ alive[relayConn]

Rebridges ==
  keysMatch /\ []~stopping =>
    \/ <>[]Bridged
    \/ <>[]Deaf /\ ~[]<><<ClientCommand>>_vars
=============================================================================
