-------------------------- MODULE LifecycleProofs ---------------------------
(***************************************************************************)
(* Proofs about the pipeline's life, for any number of connections: type   *)
(* correctness, that two pipelines never run at one time, that listeners   *)
(* are counted exactly and served, and that nothing runs without them.     *)
(***************************************************************************)
EXTENDS Lifecycle, FiniteSetTheorems, TLAPS

USE DEF handlerVars, pipeVars, iqVars, Goto, Return, Alive

-----------------------------------------------------------------------------
(* Every reachable state has its type; in particular the IQ queue never    *)
(* exceeds its capacity although callback and drains interleave.           *)
THEOREM TypeCorrect == Spec => []TypeOK
<1>1. Init => TypeOK
  <2> SUFFICES ASSUME Init PROVE TypeOK
    OBVIOUS
  <2>1. /\ hpc \in [Conns -> Places]
        /\ listening \in [Conns -> BOOLEAN] /\ leaving \in [Conns -> BOOLEAN]
        /\ ppc \in [Runs -> {"none", "build", "loop"}]
    BY DEF Init, Places
  <2>2. /\ listeners \in Nat /\ iq \in 0..iqChanDepth
        /\ pipeMu \in Conns \cup {None} /\ pipeStop \in Runs \cup {None}
    BY DepthAssumption DEF Init
  <2>3. QED
    BY <2>1, <2>2 DEF Init, TypeOK
<1>2. TypeOK /\ [Next]_vars => TypeOK'
  <2> SUFFICES ASSUME TypeOK, [Next]_vars PROVE TypeOK'
    OBVIOUS
  <2> USE DepthAssumption DEF TypeOK, Places
  <2>1. ASSUME NEW c \in Conns, Connect(c) PROVE TypeOK'
    BY <2>1 DEF Connect
  <2>2. ASSUME NEW c \in Conns, RecvStart(c) PROVE TypeOK'
    BY <2>2 DEF RecvStart
  <2>3. ASSUME NEW c \in Conns, RecvStop(c) PROVE TypeOK'
    BY <2>3 DEF RecvStop
  <2>4. ASSUME NEW c \in Conns, RecvError(c) PROVE TypeOK'
    BY <2>4 DEF RecvError
  <2>5. ASSUME NEW c \in Conns, AddSubscriber(c) PROVE TypeOK'
    BY <2>5 DEF AddSubscriber
  <2>6. ASSUME NEW c \in Conns, AddListener(c) PROVE TypeOK'
    <3>1. hpc' \in [Conns -> Places] /\ listeners' \in Nat
      BY <2>6 DEF AddListener
    <3>2. iqWanted' \in BOOLEAN /\ failed' \in BOOLEAN
      <4>1. CASE listeners > 0
        BY <2>6, <4>1 DEF AddListener
      <4>2. CASE listeners = 0
        BY <2>6, <4>2 DEF AddListener
      <4>3. QED
        BY <4>1, <4>2
    <3>3. /\ pipeStop' \in Runs \cup {None} /\ stopped' \subseteq Runs
          /\ ppc' \in [Runs -> {"none", "build", "loop"}]
      <4>1. CASE listeners > 0
        BY <2>6, <4>1 DEF AddListener
      <4>2. CASE listeners = 0
        <5>1. PICK r \in Runs : /\ pipeStop' = r /\ stopped' = stopped \ {r}
                                /\ ppc' = [ppc EXCEPT ![r] = "build"]
          BY <2>6, <4>2 DEF AddListener
        <5>2. QED
          BY <5>1
      <4>3. QED
        BY <4>1, <4>2
    <3>4. QED
      BY <2>6, <3>1, <3>2, <3>3 DEF AddListener
  <2>7. ASSUME NEW c \in Conns, RemoveListener(c) PROVE TypeOK'
    BY <2>7 DEF RemoveListener
  <2>8. ASSUME NEW c \in Conns, RemoveLast(c) PROVE TypeOK'
    BY <2>8 DEF RemoveLast
  <2>9. ASSUME NEW c \in Conns, PipeWait(c) PROVE TypeOK'
    BY <2>9 DEF PipeWait
  <2>10. ASSUME NEW c \in Conns, DrainIQ(c) PROVE TypeOK'
    <3>1. iq' \in 0..iqChanDepth /\ pipeMu' \in Conns \cup {None}
      BY <2>10 DEF DrainIQ
    <3>2. hpc' \in [Conns -> Places]
      BY <2>10 DEF DrainIQ
    <3>3. QED
      BY <2>10, <3>1, <3>2 DEF DrainIQ
  <2>11. ASSUME NEW c \in Conns, RemoveSubscriber(c) PROVE TypeOK'
    BY <2>11 DEF RemoveSubscriber
  <2>12. ASSUME NEW r \in Runs, Pipe(r) PROVE TypeOK'
    <3>1. CASE PipeBuild(r)
      BY <3>1 DEF PipeBuild
    <3>2. CASE PipeReturn(r)
      BY <3>2 DEF PipeReturn
    <3>3. CASE PipeBlock(r)
      <4>1. iq' \in 0..iqChanDepth
        BY <3>3 DEF PipeBlock
      <4>2. QED
        BY <3>3, <4>1 DEF PipeBlock
    <3>4. QED
      BY <2>12, <3>1, <3>2, <3>3 DEF Pipe
  <2>13. CASE OnIQGate \/ OnIQQueue \/ Shutdown
    <3>1. iq' \in 0..iqChanDepth
      BY <2>13 DEF OnIQGate, OnIQQueue, Shutdown
    <3>2. QED
      BY <2>13, <3>1 DEF OnIQGate, OnIQQueue, Shutdown
  <2>14. CASE UNCHANGED vars
    BY <2>14 DEF vars
  <2>15. QED
    BY <2>1, <2>2, <2>3, <2>4, <2>5, <2>6, <2>7, <2>8, <2>9, <2>10, <2>11,
       <2>12, <2>13, <2>14 DEF Next, Handler
<1>3. QED
  BY <1>1, <1>2, PTL DEF Spec
-----------------------------------------------------------------------------
(* Why a second pipeline never starts: pipeMu is held from the moment the  *)
(* count reaches zero until the pipeline has returned, so whoever finds    *)
(* the lock free and the count at zero finds no pipeline either; and while *)
(* the count is positive the only pipeline is the one pipeStop belongs to. *)
Exclusive ==
  /\ \A c \in Conns : hpc[c] \in {"wait", "drain"} => pipeMu = c /\ listeners = 0
  /\ pipeMu # None => hpc[pipeMu] \in {"wait", "drain"}
  /\ \A c \in Conns : hpc[c] = "drain" => Alive = {}
  /\ pipeMu = None => IF listeners = 0 THEN Alive = {} ELSE Alive \subseteq {pipeStop}
  /\ OnePipeline

LEMMA ExclusiveInit == Init => Exclusive
BY NoneAssumption DEF Init, Exclusive, OnePipeline

LEMMA ExclusiveStep == TypeOK /\ Exclusive /\ [Next]_vars => Exclusive'
<1> SUFFICES ASSUME TypeOK, Exclusive, [Next]_vars PROVE Exclusive'
  OBVIOUS
<1> USE NoneAssumption DEF Exclusive, OnePipeline
<1>t. /\ listeners \in Nat /\ hpc \in [Conns -> Places]
      /\ ppc \in [Runs -> {"none", "build", "loop"}]
      /\ pipeMu \in Conns \cup {None} /\ pipeStop \in Runs \cup {None}
  BY DEF TypeOK
<1> HIDE DEF Places
(* Steps that leave the pipeline, the lock and the count alone. *)
<1>1. ASSUME NEW c \in Conns,
             Connect(c) \/ RecvStart(c) \/ RecvStop(c) \/ RecvError(c)
             \/ AddSubscriber(c) \/ RemoveSubscriber(c)
      PROVE  Exclusive'
  <2>1. /\ UNCHANGED <<listeners, pipeMu, pipeStop, ppc>>
        /\ hpc[c] \notin {"wait", "drain"}
        /\ \E p \in {"subscribe", "receive", "add", "remove", "unsubscribe",
                    "none"} : hpc' = [hpc EXCEPT ![c] = p]
    BY <1>1 DEF Connect, RecvStart, RecvStop, RecvError, AddSubscriber,
                RemoveSubscriber
  <2>2. QED
    BY <1>t, <2>1
<1>2. ASSUME NEW c \in Conns, AddListener(c) PROVE Exclusive'
  <2>1. /\ pipeMu = None /\ pipeMu' = None
        /\ listeners' = listeners + 1 /\ listeners' # 0
        /\ hpc' = [hpc EXCEPT ![c] = "receive"]
    BY <1>2, <1>t DEF AddListener
  <2>2. \A d \in Conns : hpc'[d] \notin {"wait", "drain"}
    BY <2>1, <1>t
  <2>3. Alive' \subseteq {pipeStop'}
    <3>1. CASE listeners > 0
      BY <1>2, <3>1, <2>1, <1>t DEF AddListener
    <3>2. CASE listeners = 0
      <4>1. PICK r \in Runs : pipeStop' = r /\ ppc' = [ppc EXCEPT ![r] = "build"]
        BY <1>2, <3>2 DEF AddListener
      <4>2. Alive = {}
        BY <3>2, <2>1
      <4>3. QED
        BY <4>1, <4>2, <1>t
    <3>3. QED
      BY <3>1, <3>2, <1>t
  <2>4. QED
    BY <2>1, <2>2, <2>3
<1>3. ASSUME NEW c \in Conns, RemoveListener(c) PROVE Exclusive'
  <2>1. pipeMu = None /\ UNCHANGED <<pipeMu, pipeStop, ppc>>
    BY <1>3 DEF RemoveListener
  <2>2. (listeners = 0) <=> (listeners' = 0)
    BY <1>3, <1>t DEF RemoveListener
  <2>3. \E p \in {"receive", "unsubscribe"} : hpc' = [hpc EXCEPT ![c] = p]
    BY <1>3 DEF RemoveListener
  <2>4. QED
    BY <2>1, <2>2, <2>3, <1>t
<1>4. ASSUME NEW c \in Conns, RemoveLast(c) PROVE Exclusive'
  <2>1. /\ pipeMu = None /\ pipeMu' = c /\ listeners' = 0 /\ UNCHANGED ppc
        /\ hpc' = [hpc EXCEPT ![c] = "wait"]
    BY <1>4 DEF RemoveLast
  <2>2. QED
    BY <2>1, <1>t
<1>5. ASSUME NEW c \in Conns, PipeWait(c) PROVE Exclusive'
  <2>1. /\ Alive = {} /\ hpc[c] = "wait"
        /\ UNCHANGED <<pipeMu, listeners, pipeStop, ppc>>
        /\ hpc' = [hpc EXCEPT ![c] = "drain"]
    BY <1>5 DEF PipeWait
  <2>2. QED
    BY <2>1, <1>t
<1>6. ASSUME NEW c \in Conns, DrainIQ(c) PROVE Exclusive'
  <2>1. /\ hpc[c] = "drain" /\ UNCHANGED <<listeners, pipeStop, ppc>>
        /\ \/ UNCHANGED <<hpc, pipeMu>>
           \/ /\ pipeMu' = None
              /\ \E p \in {"receive", "unsubscribe"} : hpc' = [hpc EXCEPT ![c] = p]
    BY <1>6 DEF DrainIQ
  <2>2. QED
    BY <2>1, <1>t
<1>7. ASSUME NEW r \in Runs, Pipe(r) PROVE Exclusive'
  <2>1. /\ UNCHANGED <<hpc, listeners, pipeMu, pipeStop>>
        /\ Alive' \subseteq Alive
    BY <1>7, <1>t DEF Pipe, PipeBuild, PipeReturn, PipeBlock
  <2>2. QED
    BY <2>1, <1>t
<1>8. CASE OnIQGate \/ OnIQQueue \/ Shutdown \/ UNCHANGED vars
  <2>1. UNCHANGED <<hpc, listeners, pipeMu, pipeStop, ppc>>
    BY <1>8 DEF OnIQGate, OnIQQueue, Shutdown, vars
  <2>2. QED
    BY <2>1, <1>t
<1>9. QED
  BY <1>1, <1>2, <1>3, <1>4, <1>5, <1>6, <1>7, <1>8 DEF Next, Handler

(* A reconnect during a teardown, a Start racing the last Stop, any order  *)
(* of connections coming and going: at most one pipeline reads iqChan.     *)
THEOREM AtMostOnePipeline == Spec => []OnePipeline
<1>1. TypeOK /\ Exclusive => OnePipeline
  BY DEF Exclusive
<1>2. QED
  BY <1>1, TypeCorrect, ExclusiveInit, ExclusiveStep, PTL DEF Spec

-----------------------------------------------------------------------------
(* Who listens.  A handler that is about to be counted has `listening'     *)
(* set; one that is being counted out has it cleared, or is leaving.       *)
Flags ==
  \A c \in Conns :
    /\ hpc[c] = "add" => listening[c]
    /\ hpc[c] \in {"none", "subscribe"} => ~listening[c]
    /\ hpc[c] \in {"remove", "wait", "drain"} /\ ~leaving[c] => ~listening[c]

Counted == {c \in Conns : Registered(c)}

CountInv == Flags /\ IsFiniteSet(Counted) /\ CountExact

(* What a handler's step does to its own flags, and to nobody else's.      *)
LEMMA FlagsStep == TypeOK /\ Flags /\ [Next]_vars => Flags'
<1> SUFFICES ASSUME TypeOK, Flags, [Next]_vars, NEW d \in Conns
             PROVE  /\ hpc'[d] = "add" => listening'[d]
                    /\ hpc'[d] \in {"none", "subscribe"} => ~listening'[d]
                    /\ hpc'[d] \in {"remove", "wait", "drain"} /\ ~leaving'[d] => ~listening'[d]
  BY DEF Flags
<1>t. /\ hpc \in [Conns -> Places] /\ listening \in [Conns -> BOOLEAN]
      /\ leaving \in [Conns -> BOOLEAN]
  BY DEF TypeOK
<1>f. /\ hpc[d] = "add" => listening[d]
      /\ hpc[d] \in {"none", "subscribe"} => ~listening[d]
      /\ hpc[d] \in {"remove", "wait", "drain"} /\ ~leaving[d] => ~listening[d]
  BY DEF Flags
<1>1. ASSUME NEW c \in Conns, Connect(c) \/ AddSubscriber(c) PROVE
        /\ hpc'[d] = "add" => listening'[d]
        /\ hpc'[d] \in {"none", "subscribe"} => ~listening'[d]
        /\ hpc'[d] \in {"remove", "wait", "drain"} /\ ~leaving'[d] => ~listening'[d]
  BY <1>1, <1>t, <1>f DEF Connect, AddSubscriber
<1>2. ASSUME NEW c \in Conns, RecvStart(c) \/ RecvStop(c) \/ RecvError(c) PROVE
        /\ hpc'[d] = "add" => listening'[d]
        /\ hpc'[d] \in {"none", "subscribe"} => ~listening'[d]
        /\ hpc'[d] \in {"remove", "wait", "drain"} /\ ~leaving'[d] => ~listening'[d]
  BY <1>2, <1>t, <1>f DEF RecvStart, RecvStop, RecvError
<1>3. ASSUME NEW c \in Conns,
             AddListener(c) \/ RemoveListener(c) \/ RemoveLast(c) \/ PipeWait(c) \/ DrainIQ(c)
      PROVE
        /\ hpc'[d] = "add" => listening'[d]
        /\ hpc'[d] \in {"none", "subscribe"} => ~listening'[d]
        /\ hpc'[d] \in {"remove", "wait", "drain"} /\ ~leaving'[d] => ~listening'[d]
  <2>1. UNCHANGED <<listening, leaving>>
    BY <1>3 DEF AddListener, RemoveListener, RemoveLast, PipeWait, DrainIQ
  <2>2. \/ hpc' = hpc
        \/ \E p \in {"receive", "unsubscribe"} : hpc' = [hpc EXCEPT ![c] = p]
        \/ /\ hpc[c] \in {"remove", "wait"}
           /\ \E p \in {"wait", "drain"} : hpc' = [hpc EXCEPT ![c] = p]
    BY <1>3 DEF AddListener, RemoveListener, RemoveLast, PipeWait, DrainIQ
  <2> QED BY <1>t, <1>f, <2>1, <2>2
<1>4. ASSUME NEW c \in Conns, RemoveSubscriber(c) PROVE
        /\ hpc'[d] = "add" => listening'[d]
        /\ hpc'[d] \in {"none", "subscribe"} => ~listening'[d]
        /\ hpc'[d] \in {"remove", "wait", "drain"} /\ ~leaving'[d] => ~listening'[d]
  BY <1>4, <1>t, <1>f DEF RemoveSubscriber
<1>5. CASE (\E r \in Runs : Pipe(r)) \/ OnIQGate \/ OnIQQueue \/ Shutdown \/ UNCHANGED vars
  <2>1. UNCHANGED <<hpc, listening, leaving>>
    BY <1>5 DEF Pipe, PipeBuild, PipeReturn, PipeBlock, OnIQGate, OnIQQueue, Shutdown, vars
  <2> QED BY <1>f, <2>1
<1> QED BY <1>1, <1>2, <1>3, <1>4, <1>5 DEF Next, Handler

(* Every step adds the handler it counts, or takes away the one it counts  *)
(* out, or leaves the set and the count alone.                             *)
LEMMA CountStep == TypeOK /\ Exclusive /\ CountInv /\ [Next]_vars => CountInv'
<1> SUFFICES ASSUME TypeOK, Exclusive, CountInv, [Next]_vars PROVE CountInv'
  OBVIOUS
<1>t. /\ hpc \in [Conns -> Places] /\ listening \in [Conns -> BOOLEAN]
      /\ leaving \in [Conns -> BOOLEAN] /\ listeners \in Nat
  BY DEF TypeOK
<1>f. Flags'
  BY FlagsStep DEF CountInv
<1>c. IsFiniteSet(Counted) /\ listeners = Cardinality(Counted)
  BY DEF CountInv, CountExact, Counted
<1>g. \A c \in Conns : /\ hpc[c] = "add" => listening[c]
                       /\ hpc[c] \in {"none", "subscribe"} => ~listening[c]
                       /\ hpc[c] \in {"remove", "wait", "drain"} /\ ~leaving[c] => ~listening[c]
  BY DEF CountInv, Flags
<1>same. ASSUME Counted' = Counted, listeners' = listeners PROVE CountInv'
  BY <1>f, <1>c, <1>same DEF CountInv, CountExact, Counted
<1>1. ASSUME NEW c \in Conns,
             Connect(c) \/ AddSubscriber(c) \/ RecvStart(c) \/ RecvStop(c) \/ RecvError(c)
             \/ PipeWait(c) \/ DrainIQ(c) \/ RemoveSubscriber(c)
      PROVE  CountInv'
  <2>1. listeners' = listeners
    BY <1>1 DEF Connect, AddSubscriber, RecvStart, RecvStop, RecvError, PipeWait, DrainIQ,
                RemoveSubscriber
  <2>2. ASSUME NEW d \in Conns PROVE Registered(d)' <=> Registered(d)
    <3>1. CASE Connect(c) \/ AddSubscriber(c)
      BY <3>1, <1>t, <1>g DEF Connect, AddSubscriber, Registered
    <3>2. CASE RecvStart(c)
      BY <3>2, <1>t, <1>g DEF RecvStart, Registered
    <3>3. CASE RecvStop(c)
      BY <3>3, <1>t, <1>g DEF RecvStop, Registered
    <3>4. CASE RecvError(c)
      BY <3>4, <1>t, <1>g DEF RecvError, Registered
    <3>5. CASE PipeWait(c)
      BY <3>5, <1>t, <1>g DEF PipeWait, Registered
    <3>6. CASE DrainIQ(c)
      BY <3>6, <1>t, <1>g DEF DrainIQ, Registered
    <3>7. CASE RemoveSubscriber(c)
      BY <3>7, <1>t, <1>g DEF RemoveSubscriber, Registered
    <3> QED BY <1>1, <3>1, <3>2, <3>3, <3>4, <3>5, <3>6, <3>7
  <2>3. Counted' = Counted
    BY <2>2 DEF Counted
  <2> QED BY <1>same, <2>1, <2>3
<1>2. ASSUME NEW c \in Conns, AddListener(c) PROVE CountInv'
  <2>1. /\ hpc[c] = "add" /\ hpc' = [hpc EXCEPT ![c] = "receive"]
        /\ listeners' = listeners + 1 /\ listening' = listening /\ listening[c]
    BY <1>2, <1>g DEF AddListener
  <2>2. ASSUME NEW d \in Conns PROVE Registered(d)' <=> Registered(d) \/ d = c
    BY <2>1, <1>t DEF Registered
  <2>3. Counted' = Counted \cup {c} /\ c \notin Counted
    BY <2>1, <2>2 DEF Counted, Registered
  <2>4. IsFiniteSet(Counted') /\ Cardinality(Counted') = Cardinality(Counted) + 1
    BY <1>c, <2>3, FS_AddElement
  <2> QED BY <1>f, <1>c, <2>1, <2>4 DEF CountInv, CountExact, Counted
<1>3. ASSUME NEW c \in Conns, RemoveListener(c) \/ RemoveLast(c) PROVE CountInv'
  <2>1. /\ hpc[c] = "remove" /\ listening' = listening /\ leaving' = leaving
        /\ \/ hpc' = [hpc EXCEPT ![c] = "wait"]
           \/ leaving[c] /\ hpc' = [hpc EXCEPT ![c] = "unsubscribe"]
           \/ ~leaving[c] /\ hpc' = [hpc EXCEPT ![c] = "receive"]
    BY <1>3 DEF RemoveListener, RemoveLast
  <2>2. ASSUME NEW d \in Conns PROVE Registered(d)' <=> Registered(d) /\ d # c
    BY <2>1, <1>t, <1>g DEF Registered
  <2>3. Counted' = Counted \ {c} /\ c \in Counted
    BY <2>1, <2>2 DEF Counted, Registered
  <2>4. IsFiniteSet(Counted') /\ Cardinality(Counted') = Cardinality(Counted) - 1
    BY <1>c, <2>3, FS_RemoveElement
  <2>5. Counted # {}
    BY <2>3
  <2>6. Cardinality(Counted) \in Nat /\ Cardinality(Counted) # 0
    <3>1. Cardinality(Counted) \in Nat
      BY <1>c, FS_CardinalityType
    <3>2. Cardinality(Counted) # 0
      BY <1>c, <2>5, FS_EmptySet
    <3> QED BY <3>1, <3>2
  <2>7. listeners' = listeners - 1
    BY <1>3, <1>c, <2>6 DEF RemoveListener, RemoveLast
  <2> QED BY <1>f, <1>c, <2>4, <2>7 DEF CountInv, CountExact, Counted
<1>4. CASE (\E r \in Runs : Pipe(r)) \/ OnIQGate \/ OnIQQueue \/ Shutdown \/ UNCHANGED vars
  <2>1. UNCHANGED <<hpc, listening, leaving, listeners>>
    BY <1>4 DEF Pipe, PipeBuild, PipeReturn, PipeBlock, OnIQGate, OnIQQueue, Shutdown, vars
  <2>2. Counted' = Counted
    BY <2>1 DEF Counted, Registered
  <2> QED BY <1>same, <2>1, <2>2
<1> QED BY <1>1, <1>2, <1>3, <1>4 DEF Next, Handler

(* The count is exact for any number of connections, whatever the order of *)
(* repeated Starts, Stops and lost connections.                            *)
THEOREM ListenersCounted == Spec => []CountExact
<1>1. Init => CountInv
  <2> SUFFICES ASSUME Init PROVE CountInv
    OBVIOUS
  <2>1. Counted = {}
    BY DEF Init, Counted, Registered
  <2>2. Flags
    BY DEF Init, Flags
  <2> QED BY <2>1, <2>2, FS_EmptySet DEF Init, CountInv, CountExact, Counted
<1>2. CountInv => CountExact
  BY DEF CountInv
<1> QED BY <1>1, <1>2, TypeCorrect, ExclusiveInit, ExclusiveStep, CountStep, PTL DEF Spec

-----------------------------------------------------------------------------
(* What listeners get, and what is left when there are none.               *)
Served ==
  listeners > 0 => /\ iqWanted /\ pipeStop \in Runs \ stopped
                   /\ pipeStop \in Alive \/ failed \/ ctxDone

Pending == IF onIQpc = "queue" THEN 1 ELSE 0

Silent ==
  /\ listeners = 0 => ~iqWanted
  /\ pipeMu = None /\ listeners = 0 => iq + Pending <= 1

LEMMA ServedStep == TypeOK /\ Served /\ [Next]_vars => Served'
<1> SUFFICES ASSUME TypeOK, Served, [Next]_vars PROVE Served'
  OBVIOUS
<1>t. /\ listeners \in Nat /\ ppc \in [Runs -> {"none", "build", "loop"}]
      /\ pipeStop \in Runs \cup {None} /\ stopped \subseteq Runs
  BY DEF TypeOK
<1>1. ASSUME NEW c \in Conns, AddListener(c) PROVE Served'
  <2>1. CASE listeners > 0
    <3>1. UNCHANGED <<pipeStop, stopped, ppc, failed, iqWanted, ctxDone>>
      BY <1>1, <2>1 DEF AddListener
    <3> QED BY <2>1, <3>1 DEF Served
  <2>2. CASE listeners = 0
    <3>1. PICK r \in Runs : /\ pipeStop' = r /\ stopped' = stopped \ {r}
                            /\ ppc' = [ppc EXCEPT ![r] = "build"]
      BY <1>1, <2>2 DEF AddListener
    <3>2. iqWanted'
      BY <1>1, <2>2 DEF AddListener
    <3> QED BY <1>t, <3>1, <3>2 DEF Served
  <2> QED BY <1>t, <2>1, <2>2
<1>2. ASSUME NEW c \in Conns, RemoveListener(c) PROVE Served'
  <2>1. UNCHANGED <<pipeStop, stopped, ppc, failed, iqWanted, ctxDone>>
    BY <1>2 DEF RemoveListener
  <2>2. listeners' > 0 => listeners > 0
    BY <1>2, <1>t DEF RemoveListener
  <2> QED BY <2>1, <2>2 DEF Served
<1>3. ASSUME NEW c \in Conns, RemoveLast(c) PROVE Served'
  BY <1>3 DEF RemoveLast, Served
<1>4. ASSUME NEW r \in Runs, PipeBuild(r) PROVE Served'
  <2>1. UNCHANGED <<listeners, pipeStop, stopped, iqWanted, ctxDone>>
    BY <1>4 DEF PipeBuild
  <2>2. \/ failed'
        \/ failed' = failed /\ Alive' = Alive
    BY <1>4, <1>t DEF PipeBuild
  <2> QED BY <2>1, <2>2 DEF Served
<1>5. ASSUME NEW r \in Runs, PipeReturn(r) PROVE Served'
  <2>1. UNCHANGED <<listeners, pipeStop, stopped, failed, iqWanted, ctxDone>>
    BY <1>5 DEF PipeReturn
  <2>2. ctxDone \/ r \in stopped
    BY <1>5 DEF PipeReturn
  <2>3. pipeStop # r /\ pipeStop \in Alive => pipeStop \in Alive'
    BY <1>5, <1>t DEF PipeReturn
  <2> QED BY <2>1, <2>2, <2>3 DEF Served
<1>6. ASSUME NEW c \in Conns,
             Connect(c) \/ AddSubscriber(c) \/ RecvStart(c) \/ RecvStop(c) \/ RecvError(c)
             \/ PipeWait(c) \/ DrainIQ(c) \/ RemoveSubscriber(c)
      PROVE  Served'
  <2>1. UNCHANGED <<listeners, pipeStop, stopped, ppc, failed, iqWanted, ctxDone>>
    BY <1>6 DEF Connect, AddSubscriber, RecvStart, RecvStop, RecvError, PipeWait, DrainIQ,
                RemoveSubscriber
  <2> QED BY <2>1 DEF Served
<1>7. CASE (\E r \in Runs : PipeBlock(r)) \/ OnIQGate \/ OnIQQueue \/ UNCHANGED vars
  <2>1. UNCHANGED <<listeners, pipeStop, stopped, ppc, failed, iqWanted, ctxDone>>
    BY <1>7 DEF PipeBlock, OnIQGate, OnIQQueue, vars
  <2> QED BY <2>1 DEF Served
<1>8. CASE Shutdown
  BY <1>8 DEF Shutdown, Served
<1> QED BY <1>1, <1>2, <1>3, <1>4, <1>5, <1>6, <1>7, <1>8 DEF Next, Handler, Pipe

(* Whoever sent Start is served for any number of connections: the gate is *)
(* open and the current pipeline is there and has not been told to stop,   *)
(* unless its chain could not be built or the server shuts down.           *)
THEOREM ListenersAreServed == Spec => []ListenersServed
<1>1. Init => Served
  BY DEF Init, Served
<1>2. Served => ListenersServed
  BY DEF Served, ListenersServed
<1> QED BY <1>1, <1>2, TypeCorrect, ServedStep, PTL DEF Spec

LEMMA SilentStep == TypeOK /\ Exclusive /\ Silent /\ [Next]_vars => Silent'
<1> SUFFICES ASSUME TypeOK, Exclusive, Silent, [Next]_vars PROVE Silent'
  OBVIOUS
<1>t. /\ listeners \in Nat /\ iq \in Nat /\ onIQpc \in {"idle", "queue"}
      /\ Pending \in {0, 1}
  BY DepthAssumption DEF TypeOK, Pending
<1>1. ASSUME NEW c \in Conns, AddListener(c) PROVE Silent'
  <2>1. listeners' = listeners + 1
    BY <1>1 DEF AddListener
  <2> QED BY <1>t, <2>1 DEF Silent
<1>2. ASSUME NEW c \in Conns, RemoveListener(c) PROVE Silent'
  <2>1. UNCHANGED <<pipeMu, iqWanted, onIQpc, iq>>
    BY <1>2 DEF RemoveListener
  <2>2. listeners' = 0 => listeners = 0
    BY <1>2, <1>t DEF RemoveListener
  <2> QED BY <2>1, <2>2 DEF Silent, Pending
<1>3. ASSUME NEW c \in Conns, RemoveLast(c) PROVE Silent'
  <2>1. ~iqWanted' /\ pipeMu' = c /\ c # None
    BY <1>3, NoneAssumption DEF RemoveLast
  <2> QED BY <2>1 DEF Silent
<1>4. ASSUME NEW c \in Conns, DrainIQ(c) PROVE Silent'
  <2>1. UNCHANGED <<listeners, iqWanted, onIQpc>> /\ Pending' = Pending
    BY <1>4 DEF DrainIQ, Pending
  <2>2. hpc[c] = "drain" /\ pipeMu = c /\ c # None
    BY <1>4, NoneAssumption DEF DrainIQ, Exclusive
  <2>3. pipeMu' = pipeMu \/ iq' = 0
    BY <1>4 DEF DrainIQ
  <2> QED BY <1>t, <2>1, <2>2, <2>3 DEF Silent
<1>5. CASE OnIQGate
  <2>1. iqWanted /\ UNCHANGED <<listeners, iqWanted>>
    BY <1>5 DEF OnIQGate
  <2> QED BY <2>1 DEF Silent
<1>6. CASE OnIQQueue
  <2>1. UNCHANGED <<listeners, pipeMu, iqWanted>>
    BY <1>6 DEF OnIQQueue
  <2>2. /\ Pending = 1 /\ Pending' = 0 /\ (iq' = iq + 1 \/ iq' = iq)
    BY <1>6 DEF OnIQQueue, Pending
  <2> QED BY <1>t, <2>1, <2>2 DEF Silent
<1>7. ASSUME NEW r \in Runs, Pipe(r) PROVE Silent'
  <2>1. UNCHANGED <<listeners, pipeMu, iqWanted, onIQpc>> /\ Pending' = Pending
    BY <1>7 DEF Pipe, PipeBuild, PipeReturn, PipeBlock, Pending
  <2>2. iq' = iq \/ iq' = iq - 1
    BY <1>7 DEF Pipe, PipeBuild, PipeReturn, PipeBlock
  <2> QED BY <1>t, <2>1, <2>2 DEF Silent
<1>8. ASSUME NEW c \in Conns,
             Connect(c) \/ AddSubscriber(c) \/ RecvStart(c) \/ RecvStop(c) \/ RecvError(c)
             \/ PipeWait(c) \/ RemoveSubscriber(c)
      PROVE  Silent'
  <2>1. UNCHANGED <<listeners, pipeMu, iqWanted, onIQpc, iq>>
    BY <1>8 DEF Connect, AddSubscriber, RecvStart, RecvStop, RecvError, PipeWait,
                RemoveSubscriber
  <2> QED BY <2>1 DEF Silent, Pending
<1>9. CASE Shutdown \/ UNCHANGED vars
  <2>1. UNCHANGED <<listeners, pipeMu, iqWanted, onIQpc, iq>>
    BY <1>9 DEF Shutdown, vars
  <2> QED BY <2>1 DEF Silent, Pending
<1> QED BY <1>1, <1>2, <1>3, <1>4, <1>5, <1>6, <1>7, <1>8, <1>9 DEF Next, Handler

(* Nobody listens: for any number of connections and any queue no pipeline *)
(* runs, the gate is shut, and at most one block is left in the queue.     *)
THEOREM QuietWhenIdle == Spec => []IdleIsQuiet
<1>1. Init => Silent
  BY DEF Init, Silent, Pending
<1>2. Exclusive /\ Silent => IdleIsQuiet
  BY DEF Exclusive, Silent, Pending, IdleIsQuiet
<1> QED BY <1>1, <1>2, TypeCorrect, ExclusiveInit, ExclusiveStep, SilentStep, PTL DEF Spec
=============================================================================
