----------------------------- MODULE Lifecycle ------------------------------
(***************************************************************************)
(* The life of the shared DSP pipeline in cmd/narrowcast/main.go: every    *)
(* QUIC connection is served by a handleClient goroutine, connections that *)
(* sent Start are counted, the first of them starts the one runPipeline    *)
(* goroutine and the last one to leave stops it, waits for it and empties  *)
(* the IQ queue, all while the SDR callback keeps firing on the USB thread.*)
(*                                                                         *)
(* What the pipeline computes is in module Pipeline; here a block is only  *)
(* a place in iqChan.                                                      *)
(***************************************************************************)
EXTENDS Naturals, FiniteSets

CONSTANTS Conns,        \* slots for connections that exist at one time
          Runs,         \* names for pipeline goroutines alive at one time
          iqChanDepth,  \* capacity of iqChan
          None          \* nil: no pipeStop, nobody holds pipeMu

ASSUME NoneAssumption == None \notin Conns /\ None \notin Runs
ASSUME DepthAssumption == iqChanDepth \in Nat \ {0}

VARIABLES
  hpc,        \* where each handleClient goroutine is
  listening,  \* its local variable of that name
  leaving,    \* its receive loop has ended, it runs its deferred calls
  listeners,  \* s.listeners
  pipeMu,     \* who holds s.pipeMu across a step, or None
  pipeStop,   \* s.pipeStop: the run whose stop channel it is, or None
  stopped,    \* runs whose stop channel is closed
  ppc,        \* ppc[r]: where pipeline goroutine r is, "none" if there is none
  failed,     \* the latest pipeline gave up: its DSP chain could not be built
  subs,       \* s.subs, the connections whose Writer broadcast reaches
  iqWanted,   \* s.iqWanted
  onIQpc,     \* where the SDR callback is
  iq,         \* blocks in s.iqChan
  ctxDone     \* the server's context is cancelled

handlerVars == <<hpc, listening, leaving>>
pipeVars == <<listeners, pipeMu, pipeStop, stopped, ppc, failed>>
iqVars == <<iqWanted, onIQpc, iq>>
vars == <<handlerVars, pipeVars, subs, iqVars, ctxDone>>

(* Pipeline goroutines that have not returned: what pipeWg counts.         *)
Alive == {r \in Runs : ppc[r] # "none"}

Goto(c, place) == hpc' = [hpc EXCEPT ![c] = place]

-----------------------------------------------------------------------------
Init ==
  /\ hpc = [c \in Conns |-> "none"]
  /\ listening = [c \in Conns |-> FALSE]
  /\ leaving = [c \in Conns |-> FALSE]
  /\ listeners = 0 /\ pipeMu = None /\ pipeStop = None
  /\ stopped = {} /\ ppc = [r \in Runs |-> "none"] /\ failed = FALSE
  /\ subs = {}
  /\ iqWanted = FALSE /\ onIQpc = "idle" /\ iq = 0
  /\ ctxDone = FALSE

(* A connection is accepted: handleClient begins with a fresh Writer.      *)
Connect(c) ==
  /\ hpc[c] = "none" /\ ~ctxDone
  /\ Goto(c, "subscribe")
  /\ UNCHANGED <<listening, leaving, pipeVars, subs, iqVars, ctxDone>>

AddSubscriber(c) ==
  /\ hpc[c] = "subscribe"
  /\ Goto(c, "receive")
  /\ subs' = subs \cup {c}
  /\ UNCHANGED <<listening, leaving, pipeVars, iqVars, ctxDone>>

(* Mutant: a repeated Start counts again.                                  *)
RecvStart_Repeated(c) ==
  /\ hpc[c] = "receive"
  /\ listening' = [listening EXCEPT ![c] = TRUE]
  /\ Goto(c, "add")
  /\ UNCHANGED <<leaving, pipeVars, subs, iqVars, ctxDone>>

(* CmdStart; ignored when this connection already listens.                 *)
RecvStart(c) ==
  /\ hpc[c] = "receive" /\ ~listening[c]
  /\ listening' = [listening EXCEPT ![c] = TRUE]
  /\ Goto(c, "add")
  /\ UNCHANGED <<leaving, pipeVars, subs, iqVars, ctxDone>>

(* CmdStop; ignored when this connection does not listen.                  *)
RecvStop(c) ==
  /\ hpc[c] = "receive" /\ listening[c]
  /\ listening' = [listening EXCEPT ![c] = FALSE]
  /\ Goto(c, "remove")
  /\ UNCHANGED <<leaving, pipeVars, subs, iqVars, ctxDone>>

(* ReceiveDatagram fails: the peer is gone or the server shuts down.       *)
RecvError(c) ==
  /\ hpc[c] = "receive"
  /\ leaving' = [leaving EXCEPT ![c] = TRUE]
  /\ Goto(c, IF listening[c] THEN "remove" ELSE "unsubscribe")
  /\ UNCHANGED <<listening, pipeVars, subs, iqVars, ctxDone>>

(* Where a handler goes after removeListener.                              *)
Return(c) == Goto(c, IF leaving[c] THEN "unsubscribe" ELSE "receive")

(* Mutant: the IQ gate is opened only once per process.                    *)
AddListener_NoGate(c) ==
  /\ hpc[c] = "add" /\ pipeMu = None
  /\ listeners' = listeners + 1
  /\ \/ /\ listeners > 0
        /\ UNCHANGED <<pipeStop, stopped, ppc, failed>>
     \/ /\ listeners = 0
        /\ \E r \in Runs \ Alive :
             /\ pipeStop' = r
             /\ stopped' = stopped \ {r}
             /\ ppc' = [ppc EXCEPT ![r] = "build"]
        /\ failed' = FALSE
  /\ Goto(c, "receive")
  /\ UNCHANGED <<listening, leaving, pipeMu, subs, iqVars, ctxDone>>

(* addListener: nothing in the critical section waits, so it is one step.  *)
AddListener(c) ==
  /\ hpc[c] = "add" /\ pipeMu = None
  /\ listeners' = listeners + 1
  /\ \/ /\ listeners > 0
        /\ UNCHANGED <<pipeStop, stopped, ppc, failed, iqWanted>>
     \/ /\ listeners = 0
        /\ \E r \in Runs \ Alive :
             /\ pipeStop' = r
             /\ stopped' = stopped \ {r}
             /\ ppc' = [ppc EXCEPT ![r] = "build"]
        /\ iqWanted' = TRUE /\ failed' = FALSE
  /\ Goto(c, "receive")
  /\ UNCHANGED <<listening, leaving, pipeMu, subs, onIQpc, iq, ctxDone>>

(* removeListener, not the last one out.                                   *)
RemoveListener(c) ==
  /\ hpc[c] = "remove" /\ pipeMu = None
  /\ listeners # 1
  /\ listeners' = IF listeners = 0 THEN 0 ELSE listeners - 1
  /\ Return(c)
  /\ UNCHANGED <<listening, leaving, pipeMu, pipeStop, stopped, ppc, failed,
                 subs, iqVars, ctxDone>>

(* Mutant: pipeMu is released before pipeWg.Wait.                          *)
RemoveLast_Unlocked(c) ==
  /\ hpc[c] = "remove" /\ pipeMu = None /\ listeners = 1
  /\ listeners' = 0
  /\ pipeStop' = None /\ stopped' = stopped \cup ({pipeStop} \ {None})
  /\ iqWanted' = FALSE
  /\ Return(c)
  /\ UNCHANGED <<listening, leaving, pipeMu, ppc, failed, subs, onIQpc, iq, ctxDone>>

(* removeListener, the last one out: closes the gate and the stop channel  *)
(* and keeps pipeMu while it waits for the pipeline and drains.            *)
RemoveLast(c) ==
  /\ hpc[c] = "remove" /\ pipeMu = None /\ listeners = 1
  /\ listeners' = 0
  /\ pipeMu' = c
  /\ pipeStop' = None /\ stopped' = stopped \cup ({pipeStop} \ {None})
  /\ iqWanted' = FALSE
  /\ Goto(c, "wait")
  /\ UNCHANGED <<listening, leaving, ppc, failed, subs, onIQpc, iq, ctxDone>>

(* Mutant: removeListener does not drain.                                  *)
PipeWait_NoDrain(c) ==
  /\ hpc[c] = "wait" /\ Alive = {}
  /\ pipeMu' = None /\ Return(c)
  /\ UNCHANGED <<listening, leaving, listeners, pipeStop, stopped, ppc, failed,
                 subs, iqVars, ctxDone>>

(* pipeWg.Wait returns.                                                    *)
PipeWait(c) ==
  /\ hpc[c] = "wait" /\ Alive = {}
  /\ Goto(c, "drain")
  /\ UNCHANGED <<listening, leaving, pipeVars, subs, iqVars, ctxDone>>

(* drainIQ takes one block at a time until it finds none, then unlocks.    *)
DrainIQ(c) ==
  /\ hpc[c] = "drain"
  /\ \/ /\ iq > 0 /\ iq' = iq - 1
        /\ UNCHANGED <<hpc, pipeMu>>
     \/ /\ iq = 0 /\ pipeMu' = None /\ Return(c)
        /\ UNCHANGED iq
  /\ UNCHANGED <<listening, leaving, listeners, pipeStop, stopped, ppc, failed,
                 subs, iqWanted, onIQpc, ctxDone>>

(* The last deferred calls: unsubscribe and close the Writer.  The slot is *)
(* free for the next connection.                                           *)
RemoveSubscriber(c) ==
  /\ hpc[c] = "unsubscribe"
  /\ Goto(c, "none")
  /\ subs' = subs \ {c}
  /\ listening' = [listening EXCEPT ![c] = FALSE]
  /\ leaving' = [leaving EXCEPT ![c] = FALSE]
  /\ UNCHANGED <<pipeVars, iqVars, ctxDone>>

-----------------------------------------------------------------------------
(* runPipeline builds its DSP chain, or returns when it cannot.            *)
PipeBuild(r) ==
  /\ ppc[r] = "build"
  /\ \/ ppc' = [ppc EXCEPT ![r] = "loop"] /\ UNCHANGED failed
     \/ ppc' = [ppc EXCEPT ![r] = "none"] /\ failed' = TRUE
  /\ UNCHANGED <<handlerVars, listeners, pipeMu, pipeStop, stopped, subs,
                 iqVars, ctxDone>>

(* Mutant: the pipeline takes pipeMu on its way out.                       *)
PipeReturn_Locks(r) ==
  /\ ppc[r] = "loop" /\ (r \in stopped \/ ctxDone)
  /\ pipeMu = None
  /\ ppc' = [ppc EXCEPT ![r] = "none"]
  /\ UNCHANGED <<handlerVars, listeners, pipeMu, pipeStop, stopped, failed,
                 subs, iqVars, ctxDone>>

(* Its select sees stop or the context.                                    *)
PipeReturn(r) ==
  /\ ppc[r] = "loop" /\ (r \in stopped \/ ctxDone)
  /\ ppc' = [ppc EXCEPT ![r] = "none"]
  /\ UNCHANGED <<handlerVars, listeners, pipeMu, pipeStop, stopped, failed,
                 subs, iqVars, ctxDone>>

(* Its select takes a block, also when stop is ready as well.              *)
PipeBlock(r) ==
  /\ ppc[r] = "loop" /\ iq > 0
  /\ iq' = iq - 1
  /\ UNCHANGED <<handlerVars, pipeVars, subs, iqWanted, onIQpc, ctxDone>>

(* onIQ looks at the gate, copies, then queues the block or counts a drop. *)
OnIQGate ==
  /\ onIQpc = "idle" /\ iqWanted
  /\ onIQpc' = "queue"
  /\ UNCHANGED <<handlerVars, pipeVars, subs, iqWanted, iq, ctxDone>>

(* Mutant: no bound on the queue.                                          *)
OnIQQueue_Unbounded ==
  /\ onIQpc = "queue"
  /\ onIQpc' = "idle" /\ iq' = iq + 1
  /\ UNCHANGED <<handlerVars, pipeVars, subs, iqWanted, ctxDone>>

OnIQQueue ==
  /\ onIQpc = "queue"
  /\ onIQpc' = "idle"
  /\ iq' = IF iq < iqChanDepth THEN iq + 1 ELSE iq
  /\ UNCHANGED <<handlerVars, pipeVars, subs, iqWanted, ctxDone>>

Shutdown ==
  /\ ~ctxDone /\ ctxDone' = TRUE
  /\ UNCHANGED <<handlerVars, pipeVars, subs, iqVars>>

-----------------------------------------------------------------------------
(* A handler's own work, the receiving of commands apart.                  *)
Handler(c) ==
  \/ AddSubscriber(c) \/ AddListener(c) \/ RemoveListener(c) \/ RemoveLast(c)
  \/ PipeWait(c) \/ DrainIQ(c) \/ RemoveSubscriber(c)

Pipe(r) == PipeBuild(r) \/ PipeReturn(r) \/ PipeBlock(r)

Next ==
  \/ \E c \in Conns : \/ Connect(c) \/ RecvStart(c) \/ RecvStop(c)
                      \/ RecvError(c) \/ Handler(c)
  \/ \E r \in Runs : Pipe(r)
  \/ OnIQGate \/ OnIQQueue \/ Shutdown

Spec == Init /\ [][Next]_vars

(* Goroutines keep running.  sync.Mutex hands the lock to a waiter that    *)
(* has starved, hence strong fairness of a handler, which may wait for it; a   *)
(* select with several ready cases picks each of them again and again,     *)
(* hence strong fairness of the pipeline's return.                         *)
FairSpec ==
  /\ Spec
  /\ \A c \in Conns : SF_vars(Handler(c))
  /\ SF_vars(\E r \in Runs : PipeBuild(r) \/ PipeReturn(r))

-----------------------------------------------------------------------------
Places == {"none", "subscribe", "receive", "add", "remove", "wait", "drain",
           "unsubscribe"}

TypeOK ==
  /\ hpc \in [Conns -> Places]
  /\ listening \in [Conns -> BOOLEAN] /\ leaving \in [Conns -> BOOLEAN]
  /\ listeners \in Nat
  /\ pipeMu \in Conns \cup {None}
  /\ pipeStop \in Runs \cup {None} /\ stopped \subseteq Runs
  /\ ppc \in [Runs -> {"none", "build", "loop"}] /\ failed \in BOOLEAN
  /\ subs \subseteq Conns
  /\ iqWanted \in BOOLEAN /\ onIQpc \in {"idle", "queue"}
  /\ iq \in 0..iqChanDepth
  /\ ctxDone \in BOOLEAN

(* Two pipelines would steal alternating IQ blocks from each other: a      *)
(* reconnect that arrives during teardown must not start a second one.     *)
OnePipeline == \A r, s \in Alive : r = s

(* The count is the number of connections that sent Start and have neither *)
(* sent Stop nor gone, whatever the order of repeated Starts, Stops and    *)
(* lost connections.                                                       *)
Registered(c) == hpc[c] = "remove" \/ (hpc[c] = "receive" /\ listening[c])
CountExact == listeners = Cardinality({c \in Conns : Registered(c)})

(* Nobody listens: no pipeline runs, nothing is copied out of the USB      *)
(* ring, and at most the one block the callback was already copying is     *)
(* left in the queue for the next pipeline to start on.                    *)
IdleIsQuiet ==
  pipeMu = None /\ listeners = 0 =>
    /\ ~iqWanted /\ Alive = {}
    /\ iq + (IF onIQpc = "queue" THEN 1 ELSE 0) <= 1

(* Somebody listens: the gate is open and the current pipeline has not     *)
(* been told to stop; it is there unless it could not build its DSP chain  *)
(* (nothing restarts it then) or the server shuts down.                    *)
ListenersServed ==
  pipeMu = None /\ listeners > 0 =>
    /\ iqWanted /\ pipeStop \in Runs \ stopped
    /\ pipeStop \in Alive \/ failed \/ ctxDone

(* "The pipeline never takes pipeMu, so this cannot deadlock"              *)
(* (main.go:312): a teardown ends, even while blocks keep arriving, and a  *)
(* lost connection is cleaned up.                                          *)
LeaversLeave == \A c \in Conns : leaving[c] ~> hpc[c] = "none"
=============================================================================
