--------------------------- MODULE PipelineProofs ---------------------------
(***************************************************************************)
(* Proofs about the IQ path for any number of handlers, buffers, transfers *)
(* and queue places: type correctness, that every sample buffer has one    *)
(* owner, that a retune and a transmission are clean cuts, and that Status *)
(* reports the mode that is heard.                                         *)
(***************************************************************************)
EXTENDS Pipeline, TLAPS, SequenceTheorems

USE DEF commandVars, transferVars, callbackVars, queueVars, chainVars, historyVars, pipeVars

-----------------------------------------------------------------------------
(* Sequences of blocks, and the buffers they hold.                         *)
Distinct(s) == \A i, j \in DOMAIN s : s[i].buf = s[j].buf => i = j

LEMMA HeldTail ==
  ASSUME NEW s \in Seq(Block), s # <<>>, Distinct(s)
  PROVE  /\ Head(s) \in Block /\ Tail(s) \in Seq(Block)
         /\ Len(Tail(s)) = Len(s) - 1 /\ Len(s) \in Nat
         /\ Distinct(Tail(s))
         /\ Held(Tail(s)) = Held(s) \ {Head(s).buf}
         /\ Head(s).buf \in Held(s)
<1>1. /\ Head(s) \in Block /\ Tail(s) \in Seq(Block)
      /\ Len(Tail(s)) = Len(s) - 1 /\ Len(s) \in Nat /\ Len(s) > 0
      /\ Head(s) = s[1]
      /\ \A i \in 1..Len(Tail(s)) : Tail(s)[i] = s[i + 1]
      /\ DOMAIN s = 1..Len(s) /\ DOMAIN Tail(s) = 1..Len(Tail(s))
  BY HeadTailProperties, LenProperties
<1>2. Distinct(Tail(s))
  BY <1>1 DEF Distinct
<1>3. Held(Tail(s)) \subseteq Held(s)
  BY <1>1 DEF Held
<1>4. Head(s).buf \notin Held(Tail(s))
  BY <1>1 DEF Held, Distinct
<1>5. ASSUME NEW b \in Held(s), b # Head(s).buf PROVE b \in Held(Tail(s))
  <2>1. PICK i \in 1..Len(s) : b = s[i].buf
    BY <1>1 DEF Held
  <2>2. i # 1
    BY <1>1, <1>5, <2>1
  <2>3. i - 1 \in 1..Len(Tail(s)) /\ Tail(s)[i - 1] = s[i]
    BY <1>1, <2>2
  <2>4. QED
    BY <1>1, <2>1, <2>3 DEF Held
<1>6. Head(s).buf \in Held(s)
  BY <1>1 DEF Held
<1>7. QED
  BY <1>1, <1>2, <1>3, <1>4, <1>5, <1>6

LEMMA HeldAppend ==
  ASSUME NEW s \in Seq(Block), NEW d \in Block, Distinct(s), d.buf \notin Held(s)
  PROVE  /\ Append(s, d) \in Seq(Block) /\ Len(Append(s, d)) = Len(s) + 1
         /\ Distinct(Append(s, d))
         /\ Held(Append(s, d)) = Held(s) \cup {d.buf}
<1>1. /\ Append(s, d) \in Seq(Block) /\ Len(Append(s, d)) = Len(s) + 1
      /\ \A i \in 1..Len(s) : Append(s, d)[i] = s[i]
      /\ Append(s, d)[Len(s) + 1] = d
      /\ Len(s) \in Nat
      /\ DOMAIN s = 1..Len(s) /\ DOMAIN Append(s, d) = 1..(Len(s) + 1)
  BY AppendProperties, LenProperties
<1>2. \A i \in 1..Len(s) : s[i].buf # d.buf
  BY <1>1 DEF Held
<1>3. Distinct(Append(s, d))
  BY <1>1, <1>2 DEF Distinct
<1>4. Held(Append(s, d)) = Held(s) \cup {d.buf}
  BY <1>1 DEF Held
<1>5. QED
  BY <1>1, <1>3, <1>4

(* A sequence of at most one block.                                        *)
LEMMA HeldOne ==
  /\ Held(<<>>) = {}
  /\ \A d : Held(<<d>>) = {d.buf}
BY DEF Held

-----------------------------------------------------------------------------
(* The free list: takeBuf gives away its head, recycleBuf adds a buffer if *)
(* there is room.                                                          *)
PoolOK(pool) ==
  /\ pool \in Seq(Bufs) /\ Len(pool) <= iqBufPoolDepth
  /\ IsInjective(pool)

LEMMA PoolTail ==
  ASSUME NEW pool, PoolOK(pool), pool # <<>>
  PROVE  /\ PoolOK(Tail(pool)) /\ Head(pool) \in Bufs
         /\ Range(Tail(pool)) = Range(pool) \ {Head(pool)}
         /\ Head(pool) \in Range(pool)
<1>1. /\ Head(pool) \in Bufs /\ Tail(pool) \in Seq(Bufs)
      /\ Len(Tail(pool)) = Len(pool) - 1 /\ Len(pool) \in Nat /\ Len(pool) > 0
      /\ Head(pool) = pool[1]
      /\ \A i \in 1..Len(Tail(pool)) : Tail(pool)[i] = pool[i + 1]
      /\ DOMAIN pool = 1..Len(pool) /\ DOMAIN Tail(pool) = 1..Len(Tail(pool))
  BY HeadTailProperties, LenProperties DEF PoolOK
<1>2. \A i, j \in 1..Len(pool) : pool[i] = pool[j] => i = j
  BY <1>1 DEF PoolOK, IsInjective
<1>3. IsInjective(Tail(pool)) /\ Len(Tail(pool)) <= iqBufPoolDepth
  BY <1>1, <1>2, DepthAssumption DEF IsInjective, PoolOK
<1>4. Range(Tail(pool)) \subseteq Range(pool) /\ Head(pool) \notin Range(Tail(pool))
  BY <1>1, <1>2 DEF Range
<1>5. ASSUME NEW b \in Range(pool), b # Head(pool) PROVE b \in Range(Tail(pool))
  <2>1. PICK i \in 1..Len(pool) : b = pool[i]
    BY <1>1 DEF Range
  <2>2. i - 1 \in 1..Len(Tail(pool)) /\ Tail(pool)[i - 1] = pool[i]
    BY <1>1, <1>5, <2>1
  <2>3. QED
    BY <1>1, <2>1, <2>2 DEF Range
<1>6. Head(pool) \in Range(pool)
  BY <1>1 DEF Range
<1>7. QED
  BY <1>1, <1>3, <1>4, <1>5, <1>6 DEF PoolOK

LEMMA PoolRecycled ==
  ASSUME PoolOK(bufPool), NEW b \in Bufs, b \notin Range(bufPool)
  PROVE  /\ PoolOK(Recycled(b))
         /\ Range(Recycled(b)) \subseteq Range(bufPool) \cup {b}
<1>1. /\ Append(bufPool, b) \in Seq(Bufs) /\ Len(Append(bufPool, b)) = Len(bufPool) + 1
      /\ \A i \in 1..Len(bufPool) : Append(bufPool, b)[i] = bufPool[i]
      /\ Append(bufPool, b)[Len(bufPool) + 1] = b
      /\ Len(bufPool) \in Nat /\ DOMAIN bufPool = 1..Len(bufPool)
      /\ DOMAIN Append(bufPool, b) = 1..(Len(bufPool) + 1)
  BY AppendProperties, LenProperties DEF PoolOK
<1>2. \A i \in 1..Len(bufPool) : bufPool[i] # b
  BY <1>1 DEF Range
<1>3. \A i, j \in 1..Len(bufPool) : bufPool[i] = bufPool[j] => i = j
  BY <1>1 DEF PoolOK, IsInjective
<1>4. IsInjective(Append(bufPool, b))
  BY <1>1, <1>2, <1>3 DEF IsInjective
<1>5. Range(Append(bufPool, b)) \subseteq Range(bufPool) \cup {b}
  BY <1>1 DEF Range
<1>6. QED
  BY <1>1, <1>4, <1>5, DepthAssumption DEF PoolOK, Recycled

-----------------------------------------------------------------------------
(* The inductive invariant, in parts: commands, flags and the four places  *)
(* a buffer can be in.                                                     *)
CommandTypes ==
  /\ hpc \in [Handlers -> {"receive", "tune", "notify", "push", "room", "again"}]
  /\ arg \in [Handlers -> Freqs \cup Modes \cup {None}]
  /\ \A h \in Handlers : /\ hpc[h] = "tune" => arg[h] \in Freqs
                         /\ InSetMode(h) => arg[h] \in Modes
  /\ freqHz \in Freqs /\ tuned \in Freqs
  /\ smode \in Modes /\ mode \in Modes
  /\ modeChan \in Seq(Modes) /\ Len(modeChan) <= 1
  /\ stale \in Nat /\ excused \subseteq {"race", "start"}

FlagTypes ==
  /\ flushChan \in BOOLEAN /\ iqWanted \in BOOLEAN /\ dropsUnseen \in BOOLEAN
  /\ gap \in BOOLEAN /\ stop \in BOOLEAN /\ wasOpen \in BOOLEAN
  /\ filtered \in BOOLEAN /\ partial \in BOOLEAN /\ joined \in BOOLEAN
  /\ cut \in BOOLEAN

Holding == {"check", "process", "recycle"}

Queues ==
  /\ cbpc \in {"idle", "queue", "drop"} /\ ppc \in Places
  /\ PoolOK(bufPool)
  /\ iqChan \in Seq(Block) /\ Len(iqChan) <= iqChanDepth /\ Distinct(iqChan)
  /\ IF cbpc = "idle" THEN cb = <<>> ELSE \E d \in Block : cb = <<d>>
  /\ IF ppc \in Holding THEN \E d \in Block : hand = <<d>> ELSE hand = <<>>
  /\ Range(bufPool) \cap (Held(iqChan) \cup Held(cb) \cup Held(hand)) = {}
  /\ Held(iqChan) \cap (Held(cb) \cup Held(hand)) = {}
  /\ Held(cb) \cap Held(hand) = {}

(* The transfers: each is with the tuner, full, or with the callback.      *)
Transfers ==
  /\ filled \in Seq(Freqs)
  /\ filling = <<>> \/ \E f \in Freqs : filling = <<f>>
  /\ Len(filled) + Len(filling) + Busy <= iqBufCount

IInv == CommandTypes /\ FlagTypes /\ Queues /\ Transfers

LEMMA OneBlock ==
  /\ <<>> \in Seq(Block) /\ Len(<<>>) = 0
  /\ \A d \in Block : <<d>> \in Seq(Block) /\ Len(<<d>>) = 1
OBVIOUS

LEMMA InvariantSuffices == IInv => TypeOK /\ BuffersOwned
<1> SUFFICES ASSUME IInv PROVE TypeOK /\ BuffersOwned
  OBVIOUS
<1>1. cb \in Seq(Block) /\ Len(cb) = IF cbpc = "idle" THEN 0 ELSE 1
  BY OneBlock DEF IInv, Queues
<1>2. /\ hand \in Seq(Block)
      /\ Len(hand) = IF ppc \in {"check", "process", "recycle"} THEN 1 ELSE 0
  BY OneBlock DEF IInv, Queues, Holding
<1>3. \A b \in {iqWanted, dropsUnseen, gap, stop, wasOpen, filtered, partial,
                joined, cut} : b \in BOOLEAN
  BY DEF IInv, FlagTypes
<1>4. flushChan \in BOOLEAN
  BY DEF IInv, FlagTypes
<1>t. filling \in Seq(Freqs) /\ Len(filling) <= 1
  <2>1. CASE filling = <<>>
    BY <2>1
  <2>2. ASSUME NEW f \in Freqs, filling = <<f>> PROVE filling \in Seq(Freqs) /\ Len(filling) <= 1
    BY <2>2
  <2> QED BY <2>1, <2>2 DEF IInv, Transfers
<1>5. TypeOK
  BY <1>1, <1>2, <1>3, <1>4, <1>t DEF IInv, CommandTypes, Queues, Transfers, PoolOK, TypeOK
<1>6. BuffersOwned
  BY DEF IInv, Queues, PoolOK, Distinct, BuffersOwned
<1>7. QED
  BY <1>5, <1>6

LEMMA InvariantInit == Init => IInv
<1> SUFFICES ASSUME Init PROVE IInv
  OBVIOUS
<1>1. CommandTypes
  BY DEF Init, CommandTypes, InSetMode
<1>2. FlagTypes
  BY DEF Init, FlagTypes
<1>3. Queues
  <2>1. PoolOK(<<>>) /\ Distinct(<<>>)
    BY DepthAssumption DEF PoolOK, Distinct, IsInjective
  <2>2. QED
    BY <2>1, HeldOne, DepthAssumption DEF Init, Queues, Holding, Places
<1>4. Transfers
  BY DepthAssumption DEF Init, Transfers, Busy
<1>5. QED
  BY <1>1, <1>2, <1>3, <1>4 DEF IInv

-----------------------------------------------------------------------------
(* A step of the system is a step of one of its actions.                   *)
LEMMA NextCases ==
  ASSUME [Next]_vars, NEW P,
         UNCHANGED vars => P,
         \A h \in Handlers :
           /\ \A f \in Freqs : SetFreqStore(h, f) => P
           /\ \A m \in Modes : SetModeStore(h, m) => P
           /\ SetFreqTune(h) => P
           /\ SetFreqNotify(h) => P
           /\ ReplacePush(h) => P
           /\ ReplaceMakeRoom(h) => P
           /\ ReplaceAgain(h) => P,
         Callback => P, Run => P, Start => P, Stop => P, StopDrain => P
  PROVE  P
BY DEF Next, Handle

(* Commands: what a handler carries fits the command it is executing.      *)
LEMMA CommandsKept == IInv /\ [Next]_vars => CommandTypes'
<1> SUFFICES ASSUME IInv, [Next]_vars PROVE CommandTypes'
  OBVIOUS
<1> USE DEF IInv, CommandTypes, InSetMode, Done
<1> USE DEF handlerUnchanged, callbackUnchanged, transferUnchanged, pipeUnchanged,
            processUnchanged, replaceUnchanged
<1> DEFINE Same == UNCHANGED <<hpc, arg, freqHz, smode, tuned, modeChan, mode,
                               stale, excused>>
<1>1. Same => CommandTypes'
  OBVIOUS
<1>2. ASSUME NEW h \in Handlers, NEW f \in Freqs, SetFreqStore(h, f)
      PROVE  CommandTypes'
  BY <1>2 DEF SetFreqStore
<1>3. ASSUME NEW h \in Handlers, NEW m \in Modes, SetModeStore(h, m)
      PROVE  CommandTypes'
  BY <1>3 DEF SetModeStore
<1>4. ASSUME NEW h \in Handlers, SetFreqTune(h) PROVE CommandTypes'
  BY <1>4 DEF SetFreqTune
<1>5. ASSUME NEW h \in Handlers, SetFreqNotify(h) PROVE CommandTypes'
  BY <1>5 DEF SetFreqNotify
<1>6. ASSUME NEW h \in Handlers, ReplacePush(h) PROVE CommandTypes'
  <2>1. CASE modeChan = <<>>
    <3>1. arg[h] \in Modes
      BY <1>6 DEF ReplacePush
    <3>2. modeChan' \in Seq(Modes) /\ Len(modeChan') <= 1
      <4>1. modeChan' = <<arg[h]>>
        BY <1>6, <2>1 DEF ReplacePush
      <4>2. <<arg[h]>> \in Seq(Modes) /\ Len(<<arg[h]>>) <= 1
        BY <3>1
      <4>3. QED
        BY <4>1, <4>2
    <3>3. /\ hpc' = [hpc EXCEPT ![h] = "receive"]
          /\ arg' = [arg EXCEPT ![h] = None]
          /\ UNCHANGED <<freqHz, smode, tuned, mode, stale, excused>>
      BY <1>6, <2>1 DEF ReplacePush
    <3>4. QED
      BY <3>2, <3>3
  <2>2. CASE modeChan # <<>>
    BY <1>6, <2>2 DEF ReplacePush
  <2>3. QED
    BY <2>1, <2>2
<1>7. ASSUME NEW h \in Handlers, ReplaceMakeRoom(h) PROVE CommandTypes'
  BY <1>7 DEF ReplaceMakeRoom
<1>8. ASSUME NEW h \in Handlers, ReplaceAgain(h) PROVE CommandTypes'
  BY <1>8 DEF ReplaceAgain
<1>9. Callback => Same
  BY DEF Callback, BeginTransfer, CompleteTransfer, OnIQ, OnIQQueue, OnIQDrop
<1>10. Run => CommandTypes'
  <2>1. ReadMode => CommandTypes'
    BY DEF ReadMode
  <2>2. DrainMode => CommandTypes'
    BY DEF DrainMode
  <2>3. SelectMode => CommandTypes'
    <3>1. SelectMode => Head(modeChan) \in Modes
      BY HeadTailProperties DEF SelectMode
    <3>2. SelectMode => mode' \in Modes /\ excused' \subseteq {"race", "start"}
      BY <3>1 DEF SelectMode
    <3>3. SelectMode => modeChan' \in Seq(Modes) /\ Len(modeChan') <= 1
      BY DEF SelectMode
    <3>4. QED
      BY <3>2, <3>3 DEF SelectMode
  <2>4. FlushDrain => CommandTypes'
    BY DEF FlushDrain
  <2>5. Process => CommandTypes'
    BY DEF Process
  <2>6. \/ Build \/ DrainFlush \/ Baseline \/ SelectStop \/ SelectFlush
        \/ SelectBlock \/ CheckDrops \/ Recycle
        => Same
    BY DEF Build, DrainFlush, Baseline, SelectStop, SelectFlush, SelectBlock,
           CheckDrops, Recycle
  <2>7. QED
    BY <1>1, <2>1, <2>2, <2>3, <2>4, <2>5, <2>6 DEF Run
<1>11. Start \/ Stop \/ StopDrain \/ UNCHANGED vars => Same
  BY DEF Start, Stop, StopDrain, vars
<1>12. QED
  BY <1>1, <1>2, <1>3, <1>4, <1>5, <1>6, <1>7, <1>8, <1>9, <1>10, <1>11, NextCases

LEMMA FlagsKept == IInv /\ [Next]_vars => FlagTypes'
<1> SUFFICES ASSUME IInv, [Next]_vars PROVE FlagTypes'
  OBVIOUS
<1> USE DEF IInv, FlagTypes, ChainReset
<1> USE DEF handlerUnchanged, callbackUnchanged, transferUnchanged, pipeUnchanged,
            processUnchanged, replaceUnchanged
<1>1. ASSUME NEW h \in Handlers
      PROVE  /\ \A f \in Freqs : SetFreqStore(h, f) => FlagTypes'
             /\ \A m \in Modes : SetModeStore(h, m) => FlagTypes'
             /\ SetFreqTune(h) => FlagTypes'
             /\ SetFreqNotify(h) => FlagTypes'
             /\ ReplacePush(h) => FlagTypes'
             /\ ReplaceMakeRoom(h) => FlagTypes'
             /\ ReplaceAgain(h) => FlagTypes'
  <2>1. /\ \A f \in Freqs : SetFreqStore(h, f) => FlagTypes'
        /\ \A m \in Modes : SetModeStore(h, m) => FlagTypes'
    BY DEF SetFreqStore, SetModeStore
  <2>2. SetFreqTune(h) => FlagTypes'
    BY DEF SetFreqTune
  <2>5. SetFreqNotify(h) => FlagTypes'
    BY DEF SetFreqNotify
  <2>3. ReplacePush(h) \/ ReplaceMakeRoom(h) \/ ReplaceAgain(h) => FlagTypes'
    BY DEF ReplacePush, ReplaceMakeRoom, ReplaceAgain
  <2>4. QED
    BY <2>1, <2>2, <2>3, <2>5
<1>2. Callback => FlagTypes'
  BY DEF Callback, BeginTransfer, CompleteTransfer, OnIQ, OnIQQueue, OnIQDrop
<1>3. Run => FlagTypes'
  <2>1. ReadMode \/ Build \/ DrainMode \/ DrainFlush \/ Baseline => FlagTypes'
    BY DEF ReadMode, Build, DrainMode, DrainFlush, Baseline
  <2>2. SelectStop \/ SelectMode \/ SelectFlush \/ FlushDrain => FlagTypes'
    BY DEF SelectStop, SelectMode, SelectFlush, FlushDrain
  <2>3. SelectBlock \/ CheckDrops \/ Process \/ Recycle => FlagTypes'
    BY DEF SelectBlock, CheckDrops, Process, Recycle
  <2>4. QED
    BY <2>1, <2>2, <2>3 DEF Run
<1>4. Start \/ Stop \/ StopDrain \/ UNCHANGED vars => FlagTypes'
  BY DEF Start, Stop, StopDrain, vars
<1>5. QED
  BY <1>1, <1>2, <1>3, <1>4, NextCases

-----------------------------------------------------------------------------
(* The four places of a buffer.  Every action that moves a block is one of *)
(* these four moves, or leaves all four alone.                             *)
Still ==
  /\ UNCHANGED <<cbpc, cb, iqChan, bufPool, hand>>
  /\ ppc' \in Places /\ (ppc' \in Holding <=> ppc \in Holding)

LEMMA StillKeeps == Queues /\ Still => Queues'
<1> SUFFICES ASSUME Queues, Still PROVE Queues'
  OBVIOUS
<1>1. /\ cbpc' = cbpc /\ cb' = cb /\ iqChan' = iqChan
      /\ bufPool' = bufPool /\ hand' = hand
  BY DEF Still
<1>2. PoolOK(bufPool)' /\ (iqChan \in Seq(Block) /\ Len(iqChan) <= iqChanDepth /\ Distinct(iqChan))'
  <2>1. PoolOK(bufPool) /\ iqChan \in Seq(Block) /\ Len(iqChan) <= iqChanDepth /\ Distinct(iqChan)
    BY DEF Queues
  <2>2. QED
    BY <1>1, <2>1 DEF PoolOK, Distinct
<1>3. /\ Held(iqChan)' = Held(iqChan) /\ Held(cb)' = Held(cb)
      /\ Held(hand)' = Held(hand) /\ Range(bufPool)' = Range(bufPool)
  BY <1>1 DEF Held
<1>4. ppc' \in Places /\ (ppc' \in Holding <=> ppc \in Holding)
  BY DEF Still
<1>5. /\ cbpc' \in {"idle", "queue", "drop"}
      /\ (IF cbpc = "idle" THEN cb = <<>> ELSE \E d \in Block : cb = <<d>>)'
  BY <1>1 DEF Queues
<1>6. (IF ppc \in Holding THEN \E d \in Block : hand = <<d>> ELSE hand = <<>>)'
  <2>1. IF ppc \in Holding THEN \E d \in Block : hand = <<d>> ELSE hand = <<>>
    BY DEF Queues
  <2>2. QED
    BY <1>1, <1>4, <2>1
<1>7. (/\ Range(bufPool) \cap (Held(iqChan) \cup Held(cb) \cup Held(hand)) = {}
       /\ Held(iqChan) \cap (Held(cb) \cup Held(hand)) = {}
       /\ Held(cb) \cap Held(hand) = {})'
  <2>1. /\ Range(bufPool) \cap (Held(iqChan) \cup Held(cb) \cup Held(hand)) = {}
        /\ Held(iqChan) \cap (Held(cb) \cup Held(hand)) = {}
        /\ Held(cb) \cap Held(hand) = {}
    BY DEF Queues
  <2>2. QED
    BY <1>3, <2>1
<1>8. QED
  BY <1>2, <1>4, <1>5, <1>6, <1>7 DEF Queues

(* The head of the queue is recycled: drainIQ, by a flush or at the stop.  *)
LEMMA DrainKeeps ==
  ASSUME Queues, iqChan # <<>>,
         bufPool' = Recycled(Head(iqChan).buf), iqChan' = Tail(iqChan),
         UNCHANGED <<cbpc, cb, hand>>, ppc' \in Places,
         ppc' \in Holding <=> ppc \in Holding
  PROVE  Queues'
<1>1. /\ Head(iqChan) \in Block /\ iqChan' \in Seq(Block)
      /\ Len(iqChan') = Len(iqChan) - 1 /\ Len(iqChan) \in Nat
      /\ Distinct(iqChan)'
      /\ Held(iqChan)' = Held(iqChan) \ {Head(iqChan).buf}
      /\ Head(iqChan).buf \in Held(iqChan)
  <2>1. /\ Head(iqChan) \in Block /\ Tail(iqChan) \in Seq(Block)
        /\ Len(Tail(iqChan)) = Len(iqChan) - 1 /\ Len(iqChan) \in Nat
        /\ Distinct(Tail(iqChan))
        /\ Held(Tail(iqChan)) = Held(iqChan) \ {Head(iqChan).buf}
        /\ Head(iqChan).buf \in Held(iqChan)
    BY HeldTail DEF Queues
  <2>2. /\ Distinct(iqChan)' <=> Distinct(Tail(iqChan))
        /\ Held(iqChan)' = Held(Tail(iqChan))
    BY Zenon DEF Distinct, Held
  <2>3. QED
    BY <2>1, <2>2
<1>2. Head(iqChan).buf \in Bufs /\ Head(iqChan).buf \notin Range(bufPool)
  BY <1>1 DEF Queues, Block
<1>3. /\ PoolOK(bufPool')
      /\ Range(bufPool') \subseteq Range(bufPool) \cup {Head(iqChan).buf}
  BY <1>2, PoolRecycled DEF Queues
<1>4. Held(cb)' = Held(cb) /\ Held(hand)' = Held(hand)
  BY DEF Held
<1>5. PoolOK(bufPool)' /\ Len(iqChan') <= iqChanDepth
  BY <1>1, <1>3, DepthAssumption DEF Queues, PoolOK
<1>6. /\ Range(bufPool') \cap (Held(iqChan)' \cup Held(cb)' \cup Held(hand)') = {}
      /\ Held(iqChan)' \cap (Held(cb)' \cup Held(hand)') = {}
      /\ Held(cb)' \cap Held(hand)' = {}
  BY <1>1, <1>3, <1>4 DEF Queues
<1>7. QED
  BY <1>1, <1>5, <1>6 DEF Queues

(* The pipeline gives up the block in its hand.                            *)
LEMMA ReleaseKeeps ==
  ASSUME Queues, ppc \in Holding, Release, UNCHANGED <<cbpc, cb, iqChan>>
  PROVE  Queues'
<1>1. PICK d \in Block : hand = <<d>>
  BY DEF Queues
<1>2. Head(hand) = d /\ Held(hand) = {d.buf} /\ d.buf \in Bufs
  BY <1>1, HeldOne DEF Block
<1>3. d.buf \notin Range(bufPool)
  BY <1>2 DEF Queues
<1>4. PoolOK(bufPool') /\ Range(bufPool') \subseteq Range(bufPool) \cup {d.buf}
  BY <1>2, <1>3, PoolRecycled DEF Queues, Release
<1>5. /\ Held(cb)' = Held(cb) /\ Held(iqChan)' = Held(iqChan)
      /\ Held(hand)' = {} /\ Distinct(iqChan)'
  BY HeldOne DEF Held, Release, Distinct, Queues
<1>6. hand' = <<>> /\ ppc' \in Places /\ ppc' \notin Holding
  BY DEF Release, Places, Holding
<1>7. /\ Range(bufPool') \cap (Held(iqChan)' \cup Held(cb)' \cup Held(hand)') = {}
      /\ Held(iqChan)' \cap (Held(cb)' \cup Held(hand)') = {}
      /\ Held(cb)' \cap Held(hand)' = {}
  BY <1>2, <1>4, <1>5 DEF Queues
<1>8. PoolOK(bufPool)'
  BY <1>4 DEF PoolOK
<1>9. QED
  BY <1>5, <1>6, <1>7, <1>8 DEF Queues

(* The callback takes a buffer from the free list, or a fresh one.         *)
LEMMA OnIQKeeps == Queues /\ FlagTypes /\ Transfers /\ OnIQ => Queues'
<1> SUFFICES ASSUME Queues, FlagTypes, Transfers, OnIQ PROVE Queues'
  OBVIOUS
<1>f. Head(filled) \in Freqs
  BY HeadTailProperties DEF OnIQ, Transfers
<1>1. /\ UNCHANGED <<iqChan, ppc, hand>>
      /\ Held(iqChan)' = Held(iqChan) /\ Held(hand)' = Held(hand)
      /\ cb = <<>> /\ Distinct(iqChan)'
  BY DEF OnIQ, callbackUnchanged, Held, Distinct, Queues
<1>2. CASE ~iqWanted /\ UNCHANGED <<cbpc, cb, bufPool>>
  BY <1>1, <1>2, StillKeeps DEF Still, Queues
<1>3. CASE iqWanted /\ cbpc' = "queue"
  <2>1. PICK b \in TakeBuf : cb' = <<[buf |-> b, freq |-> Head(filled), gap |-> FALSE]>>
    BY <1>3 DEF OnIQ, Queues
  <2>2. bufPool' = IF bufPool = <<>> THEN <<>> ELSE Tail(bufPool)
    BY <1>3 DEF OnIQ, Queues
  <2>3. /\ b \in Bufs /\ b \notin Held(iqChan) \cup Held(hand)
        /\ PoolOK(bufPool') /\ Range(bufPool') \subseteq Range(bufPool)
        /\ b \notin Range(bufPool')
    <3>1. CASE bufPool = <<>>
      BY <2>1, <2>2, <3>1 DEF TakeBuf, InUse, Queues
    <3>2. CASE bufPool # <<>>
      BY <2>1, <2>2, <3>2, PoolTail DEF TakeBuf, Queues
    <3>3. QED
      BY <3>1, <3>2
  <2>4. Held(cb)' = {b}
    BY <2>1, HeldOne DEF Held
  <2>5. \E d \in Block : cb' = <<d>>
    BY <1>f, <2>1, <2>3 DEF Block
  <2>6. PoolOK(bufPool)'
    BY <2>3 DEF PoolOK
  <2>7. /\ Range(bufPool') \cap (Held(iqChan)' \cup Held(cb)' \cup Held(hand)') = {}
        /\ Held(iqChan)' \cap (Held(cb)' \cup Held(hand)') = {}
        /\ Held(cb)' \cap Held(hand)' = {}
    BY <1>1, <2>3, <2>4 DEF Queues
  <2>8. QED
    BY <1>1, <1>3, <2>5, <2>6, <2>7 DEF Queues
<1>4. QED
  BY <1>2, <1>3 DEF OnIQ

LEMMA OnIQQueueKeeps == Queues /\ FlagTypes /\ OnIQQueue => Queues'
<1> SUFFICES ASSUME Queues, FlagTypes, OnIQQueue PROVE Queues'
  OBVIOUS
<1>1. UNCHANGED <<bufPool, ppc, hand>> /\ Held(hand)' = Held(hand)
  BY DEF OnIQQueue, callbackUnchanged, Held
<1>2. PICK c \in Block : cb = <<c>>
  BY DEF OnIQQueue, Queues
<1>3. Held(cb) = {c.buf} /\ Head(cb) = c
  BY <1>2, HeldOne
<1>4. CASE Len(iqChan) < iqChanDepth /\ cb' = <<>> /\ cbpc' = "idle"
           /\ iqChan' = Append(iqChan, [Head(cb) EXCEPT !.gap = gap])
  <2> DEFINE d == [Head(cb) EXCEPT !.gap = gap]
  <2>1. d \in Block /\ d.buf = c.buf
    BY <1>2, <1>3 DEF Block, FlagTypes
  <2>2. d.buf \notin Held(iqChan) /\ Distinct(iqChan) /\ iqChan \in Seq(Block)
    BY <1>3, <2>1 DEF Queues
  <2>3. /\ iqChan' \in Seq(Block) /\ Len(iqChan') = Len(iqChan) + 1
        /\ Distinct(iqChan') /\ Held(iqChan') = Held(iqChan) \cup {c.buf}
    <3> HIDE DEF d
    <3>1. iqChan' = Append(iqChan, d)
      BY <1>4 DEF d
    <3>2. QED
      BY <2>1, <2>2, <3>1, HeldAppend
  <2>4. /\ Distinct(iqChan)' /\ Held(iqChan)' = Held(iqChan) \cup {c.buf}
        /\ Held(cb)' = {}
    <3>1. /\ Distinct(iqChan)' <=> Distinct(iqChan')
          /\ Held(iqChan)' = Held(iqChan')
          /\ Held(cb)' = Held(<<>>)
      BY <1>4 DEF Held, Distinct
    <3>2. QED
      BY <2>3, <3>1, HeldOne
  <2>5. Len(iqChan') <= iqChanDepth
    BY <1>4, <2>3, DepthAssumption DEF Queues
  <2>6. PoolOK(bufPool)'
    BY <1>1 DEF PoolOK, Queues
  <2>7. /\ Range(bufPool') \cap (Held(iqChan)' \cup Held(cb)' \cup Held(hand)') = {}
        /\ Held(iqChan)' \cap (Held(cb)' \cup Held(hand)') = {}
        /\ Held(cb)' \cap Held(hand)' = {}
    BY <1>1, <1>3, <2>4 DEF Queues
  <2>8. QED
    BY <1>1, <1>4, <2>3, <2>4, <2>5, <2>6, <2>7 DEF Queues
<1>5. CASE cbpc' = "drop" /\ UNCHANGED <<iqChan, cb, gap>>
  <2>1. /\ Held(iqChan)' = Held(iqChan) /\ Held(cb)' = Held(cb)
        /\ Distinct(iqChan)' <=> Distinct(iqChan)
        /\ PoolOK(bufPool)' <=> PoolOK(bufPool)
    BY <1>1, <1>5 DEF Held, Distinct, PoolOK
  <2>2. \E d \in Block : cb' = <<d>>
    BY <1>2, <1>5
  <2>3. QED
    BY <1>1, <1>5, <2>1, <2>2 DEF Queues
<1>6. QED
  BY <1>4, <1>5 DEF OnIQQueue

LEMMA OnIQDropKeeps == Queues /\ OnIQDrop => Queues'
<1> SUFFICES ASSUME Queues, OnIQDrop PROVE Queues'
  OBVIOUS
<1>1. /\ UNCHANGED <<iqChan, ppc, hand>> /\ Held(hand)' = Held(hand)
      /\ Held(iqChan)' = Held(iqChan) /\ Distinct(iqChan)'
  BY DEF OnIQDrop, callbackUnchanged, Held, Distinct, Queues
<1>2. PICK c \in Block : cb = <<c>>
  BY DEF OnIQDrop, Queues
<1>3. Held(cb) = {c.buf} /\ Head(cb) = c /\ c.buf \in Bufs
  BY <1>2, HeldOne DEF Block
<1>4. c.buf \notin Range(bufPool)
  BY <1>3 DEF Queues
<1>5. PoolOK(bufPool') /\ Range(bufPool') \subseteq Range(bufPool) \cup {c.buf}
  BY <1>3, <1>4, PoolRecycled DEF Queues, OnIQDrop
<1>6. cb' = <<>> /\ cbpc' = "idle" /\ Held(cb)' = {}
  BY HeldOne DEF OnIQDrop, Held
<1>7. PoolOK(bufPool)'
  BY <1>5 DEF PoolOK
<1>8. /\ Range(bufPool') \cap (Held(iqChan)' \cup Held(cb)' \cup Held(hand)') = {}
      /\ Held(iqChan)' \cap (Held(cb)' \cup Held(hand)') = {}
      /\ Held(cb)' \cap Held(hand)' = {}
  BY <1>1, <1>3, <1>5, <1>6 DEF Queues
<1>9. QED
  BY <1>1, <1>6, <1>7, <1>8 DEF Queues

(* The pipeline takes the head of the queue into its hand.                 *)
LEMMA SelectBlockKeeps == Queues /\ SelectBlock => Queues'
<1> SUFFICES ASSUME Queues, SelectBlock PROVE Queues'
  OBVIOUS
<1>1. /\ UNCHANGED <<cbpc, cb, bufPool>> /\ iqChan # <<>>
      /\ hand' = <<Head(iqChan)>> /\ iqChan' = Tail(iqChan) /\ ppc' = "check"
  BY DEF SelectBlock, pipeUnchanged
<1>2. /\ Head(iqChan) \in Block /\ iqChan' \in Seq(Block)
      /\ Len(iqChan') = Len(iqChan) - 1 /\ Len(iqChan) \in Nat
      /\ Distinct(iqChan)'
      /\ Held(iqChan)' = Held(iqChan) \ {Head(iqChan).buf}
      /\ Head(iqChan).buf \in Held(iqChan)
  <2>1. /\ Head(iqChan) \in Block /\ Tail(iqChan) \in Seq(Block)
        /\ Len(Tail(iqChan)) = Len(iqChan) - 1 /\ Len(iqChan) \in Nat
        /\ Distinct(Tail(iqChan))
        /\ Held(Tail(iqChan)) = Held(iqChan) \ {Head(iqChan).buf}
        /\ Head(iqChan).buf \in Held(iqChan)
    BY <1>1, HeldTail DEF Queues
  <2>2. /\ Distinct(iqChan)' <=> Distinct(Tail(iqChan))
        /\ Held(iqChan)' = Held(Tail(iqChan))
    BY <1>1, Zenon DEF Distinct, Held
  <2>3. QED
    BY <1>1, <2>1, <2>2
<1>3. hand = <<>> /\ Held(hand) = {} /\ Held(hand)' = {Head(iqChan).buf}
  BY <1>1, HeldOne DEF Queues, Held, Holding, SelectBlock
<1>4. PoolOK(bufPool)' /\ Len(iqChan') <= iqChanDepth /\ Held(cb)' = Held(cb)
  BY <1>1, <1>2, DepthAssumption DEF Queues, PoolOK, Held
<1>5. /\ Range(bufPool') \cap (Held(iqChan)' \cup Held(cb)' \cup Held(hand)') = {}
      /\ Held(iqChan)' \cap (Held(cb)' \cup Held(hand)') = {}
      /\ Held(cb)' \cap Held(hand)' = {}
  BY <1>1, <1>2, <1>3, <1>4 DEF Queues
<1>6. ppc' \in Places /\ ppc' \in Holding
  BY <1>1 DEF Places, Holding
<1>7. \E d \in Block : hand' = <<d>>
  BY <1>1, <1>2
<1>8. QED
  BY <1>1, <1>2, <1>4, <1>5, <1>6, <1>7 DEF Queues

LEMMA QueuesKept == IInv /\ [Next]_vars => Queues'
<1> SUFFICES ASSUME IInv, [Next]_vars PROVE Queues'
  OBVIOUS
<1> USE DEF IInv
<1> USE DEF handlerUnchanged, pipeUnchanged, processUnchanged, replaceUnchanged
<1>1. Still => Queues'
  BY StillKeeps
<1>2. ppc \in Places
  BY DEF Queues
<1>3. ASSUME NEW h \in Handlers
      PROVE  /\ \A f \in Freqs : SetFreqStore(h, f) => Still
             /\ \A m \in Modes : SetModeStore(h, m) => Still
             /\ SetFreqTune(h) \/ SetFreqNotify(h) => Still
             /\ ReplacePush(h) \/ ReplaceMakeRoom(h) \/ ReplaceAgain(h) => Still
  <2>1. /\ \A f \in Freqs : SetFreqStore(h, f) => Still
        /\ \A m \in Modes : SetModeStore(h, m) => Still
    BY <1>2 DEF SetFreqStore, SetModeStore, Still
  <2>2. SetFreqTune(h) \/ SetFreqNotify(h) => Still
    BY <1>2 DEF SetFreqTune, SetFreqNotify, Still
  <2>3. ReplacePush(h) \/ ReplaceMakeRoom(h) \/ ReplaceAgain(h) => Still
    BY <1>2 DEF ReplacePush, ReplaceMakeRoom, ReplaceAgain, Still
  <2>4. QED
    BY <2>1, <2>2, <2>3
<1>4. Callback => Queues'
  <2>1. BeginTransfer \/ CompleteTransfer => Still
    BY <1>2 DEF BeginTransfer, CompleteTransfer, transferUnchanged, Still
  <2>2. QED
    BY <1>1, <2>1, OnIQKeeps, OnIQQueueKeeps, OnIQDropKeeps DEF Callback
<1>5. Run => Queues'
  <2>1. ReadMode \/ Build \/ DrainMode \/ DrainFlush \/ Baseline => Still
    BY DEF ReadMode, Build, DrainMode, DrainFlush, Baseline, Still, Places, Holding
  <2>2. SelectStop \/ SelectMode \/ SelectFlush \/ CheckDrops => Still
    BY DEF SelectStop, SelectMode, SelectFlush, CheckDrops, Still, Places, Holding
  <2>3. ASSUME FlushDrain PROVE Queues'
    <3>1. CASE iqChan # <<>> /\ bufPool' = Recycled(Head(iqChan).buf)
               /\ iqChan' = Tail(iqChan) /\ UNCHANGED ppc
      BY <1>2, <2>3, <3>1, DrainKeeps DEF FlushDrain
    <3>2. CASE ppc' = "baseline" /\ UNCHANGED <<bufPool, iqChan>>
      BY <1>1, <2>3, <3>2 DEF FlushDrain, Still, Places, Holding
    <3>3. QED
      BY <2>3, <3>1, <3>2 DEF FlushDrain
  <2>4. ASSUME Process \/ Recycle PROVE Queues'
    <3>1. ppc \in Holding /\ Release /\ UNCHANGED <<cbpc, cb, iqChan>>
      BY <2>4 DEF Process, Recycle, Holding
    <3>2. QED
      BY <3>1, ReleaseKeeps
  <2>5. QED
    BY <1>1, <2>1, <2>2, <2>3, <2>4, SelectBlockKeeps DEF Run
<1>6. Start \/ Stop => Still
  BY <1>2 DEF Start, Stop, Still, Places, Holding
<1>7. ASSUME StopDrain PROVE Queues'
  <2>1. CASE iqChan # <<>> /\ bufPool' = Recycled(Head(iqChan).buf)
             /\ iqChan' = Tail(iqChan) /\ UNCHANGED ppc
    BY <1>2, <1>7, <2>1, DrainKeeps DEF StopDrain
  <2>2. CASE ppc' = "off" /\ UNCHANGED <<bufPool, iqChan>>
    BY <1>1, <1>7, <2>2 DEF StopDrain, Still, Places, Holding
  <2>3. QED
    BY <1>7, <2>1, <2>2 DEF StopDrain
<1>8. UNCHANGED vars => Still
  BY <1>2 DEF vars, Still
<1>9. QED
  BY <1>1, <1>3, <1>4, <1>5, <1>6, <1>7, <1>8, NextCases

(* A transfer goes from the tuner to those that are full, from there to    *)
(* the callback, and is free when the callback returns.                    *)
LEMMA TransfersKept == IInv /\ [Next]_vars => Transfers'
<1> SUFFICES ASSUME IInv, [Next]_vars PROVE Transfers'
  OBVIOUS
<1> USE DEF handlerUnchanged, callbackUnchanged, transferUnchanged, pipeUnchanged,
            processUnchanged, replaceUnchanged
<1>t. /\ Transfers /\ tuned \in Freqs /\ filled \in Seq(Freqs) /\ Len(filled) \in Nat
      /\ iqBufCount \in Nat
  BY LenProperties, DepthAssumption DEF IInv, Transfers, CommandTypes
<1> DEFINE Same == UNCHANGED <<filling, filled, cbpc>>
<1>1. Same => Transfers'
  BY <1>t DEF Transfers, Busy
<1>2. ASSUME NEW h \in Handlers
      PROVE  /\ \A f \in Freqs : SetFreqStore(h, f) => Same
             /\ \A m \in Modes : SetModeStore(h, m) => Same
             /\ SetFreqTune(h) \/ SetFreqNotify(h) => Same
             /\ ReplacePush(h) \/ ReplaceMakeRoom(h) \/ ReplaceAgain(h) => Same
  BY DEF SetFreqStore, SetModeStore, SetFreqTune, SetFreqNotify, ReplacePush,
         ReplaceMakeRoom, ReplaceAgain
<1>3. BeginTransfer => Transfers'
  BY <1>t DEF BeginTransfer, Transfers, Busy
<1>4. ASSUME CompleteTransfer PROVE Transfers'
  <2>1. PICK f \in Freqs : filling = <<f>>
    BY <1>t, <1>4 DEF CompleteTransfer, Transfers
  <2>2. filled' = filled \o <<f>> /\ filling' = <<>> /\ cbpc' = cbpc
    BY <1>4, <2>1 DEF CompleteTransfer
  <2>3. filled' \in Seq(Freqs) /\ Len(filled') = Len(filled) + 1
    BY <1>t, <2>2, ConcatProperties
  <2>4. Len(filling) = 1 /\ Len(filling') = 0
    BY <2>1, <2>2
  <2> QED
    BY <1>t, <2>2, <2>3, <2>4 DEF Transfers, Busy
<1>5. ASSUME OnIQ PROVE Transfers'
  <2>1. /\ filled' = Tail(filled) /\ filling' = filling /\ cbpc = "idle" /\ filled # <<>>
    BY <1>5 DEF OnIQ
  <2>2. filled' \in Seq(Freqs) /\ Len(filled') = Len(filled) - 1
    BY <1>t, <2>1, HeadTailProperties
  <2>3. Busy = 0 /\ Busy' \in {0, 1} /\ Len(filling) \in Nat
    BY <1>t, <2>1 DEF Busy, Transfers
  <2> QED
    BY <1>t, <2>1, <2>2, <2>3 DEF Transfers
<1>6. OnIQQueue \/ OnIQDrop => Transfers'
  <2>1. OnIQQueue \/ OnIQDrop => UNCHANGED <<filling, filled>> /\ Busy' <= Busy
    BY DEF OnIQQueue, OnIQDrop, Busy
  <2>2. Len(filling) \in Nat /\ Busy \in {0, 1} /\ Busy' \in {0, 1}
    BY <1>t DEF Busy, Transfers
  <2> QED
    BY <1>t, <2>1, <2>2 DEF Transfers
<1>7. Run => Same
  BY DEF Run, ReadMode, Build, DrainMode, DrainFlush, Baseline, SelectStop, SelectMode,
         SelectFlush, FlushDrain, SelectBlock, CheckDrops, Process, Recycle
<1>8. Start \/ Stop \/ StopDrain \/ UNCHANGED vars => Same
  BY DEF Start, Stop, StopDrain, vars
<1>9. QED
  BY <1>1, <1>2, <1>3, <1>4, <1>5, <1>6, <1>7, <1>8, NextCases DEF Callback

-----------------------------------------------------------------------------
LEMMA Invariant == Spec => []IInv
<1>1. IInv /\ [Next]_vars => IInv'
  BY CommandsKept, FlagsKept, QueuesKept, TransfersKept DEF IInv
<1>2. QED
  BY <1>1, InvariantInit, PTL DEF Spec

(* Every variable keeps its type, with any number of handlers and whatever *)
(* the depths of iqChan and bufPool (main.go:228-245): in particular no    *)
(* more blocks are ever queued than the channel holds.                     *)
THEOREM TypeCorrect == Spec => []TypeOK
<1>1. IInv => TypeOK
  BY InvariantSuffices
<1>2. QED
  BY <1>1, Invariant, PTL

(* A sample buffer is in one place only: the free list, the callback's     *)
(* hand, the queue or the pipeline's hand (takeBuf and recycleBuf,         *)
(* main.go:228-245), so the USB thread never overwrites samples that are   *)
(* yet to be converted.                                                    *)
THEOREM BuffersHaveOneOwner == Spec => []BuffersOwned
<1>1. IInv => BuffersOwned
  BY InvariantSuffices
<1>2. QED
  BY <1>1, Invariant, PTL

-----------------------------------------------------------------------------
(* A retune is a clean cut: once the pipeline has flushed, a block that    *)
(* began before the retune is at most iqBufCount places from being heard,  *)
(* and the more of them have been heard the nearer it is.                  *)
InHand == IF ppc \in {"check", "process"} THEN 1 ELSE 0
Old(f) == f # tuned

(* A block with so many others before it may still be old.                 *)
MayBeOld(before) == stale + before + 1 <= iqBufCount

HandNear == InHand = 1 /\ Old(Head(hand).freq) => MayBeOld(0)
QueueNear ==
  \A i \in 1..Len(iqChan) : Old(iqChan[i].freq) => MayBeOld(InHand + i - 1)
Queued == InHand + Len(iqChan)
CallbackNear == cbpc # "idle" /\ Old(Head(cb).freq) => MayBeOld(Queued)
FilledNear ==
  \A i \in 1..Len(filled) : Old(filled[i]) => MayBeOld(Queued + Busy + i - 1)
FillingNear ==
  filling # <<>> /\ Old(Head(filling)) => MayBeOld(Queued + Busy + Len(filled))

Near == /\ stale <= iqBufCount
        /\ HandNear /\ QueueNear /\ CallbackNear /\ FilledNear /\ FillingNear
CutInv == cut => Near

(* What is counted is a number.                                            *)
LEMMA Counts ==
  IInv => /\ stale \in Nat /\ InHand \in Nat /\ InHand \in {0, 1}
          /\ Busy \in Nat /\ Busy \in {0, 1}
          /\ iqChan \in Seq(Block) /\ Len(iqChan) \in Nat /\ Queued \in Nat
          /\ filled \in Seq(Freqs) /\ Len(filled) \in Nat
BY LenProperties DEF IInv, CommandTypes, Queues, Transfers, InHand, Busy, Queued

(* The transfers, when no more blocks are before them than there were.     *)
LEMMA TransfersNearer ==
  ASSUME IInv, Near, UNCHANGED <<filling, filled, tuned, stale>>,
         NEW b \in Nat, Queued' + Busy' = b, b <= Queued + Busy
  PROVE  FilledNear' /\ FillingNear'
<1>c. /\ stale \in Nat /\ Len(filled) \in Nat /\ Queued + Busy \in Nat
  BY Counts
<1>1. FilledNear'
  <2> SUFFICES ASSUME NEW i \in 1..Len(filled), filled[i] # tuned
               PROVE  MayBeOld(Queued + Busy + i - 1)'
    BY DEF FilledNear, Old
  <2>1. MayBeOld(Queued + Busy + i - 1)
    BY DEF Near, FilledNear, Old
  <2>2. stale + (Queued + Busy + i - 1) + 1 <= iqBufCount
    BY <2>1 DEF MayBeOld
  <2>3. stale' + ((Queued' + Busy') + i - 1) + 1 <= iqBufCount
    BY <1>c, <2>2, DepthAssumption
  <2> QED
    BY <2>3 DEF MayBeOld
<1>2. FillingNear'
  <2> SUFFICES ASSUME filling # <<>>, Head(filling) # tuned
               PROVE  MayBeOld(Queued + Busy + Len(filled))'
    BY DEF FillingNear, Old
  <2>1. stale + (Queued + Busy + Len(filled)) + 1 <= iqBufCount
    BY DEF Near, FillingNear, Old, MayBeOld
  <2>2. stale' + ((Queued' + Busy') + Len(filled)) + 1 <= iqBufCount
    BY <1>c, <2>1, DepthAssumption
  <2> QED
    BY <2>2 DEF MayBeOld
<1> QED BY <1>1, <1>2

(* A step that moves no block, or only makes the pipeline's hand lighter.  *)
LEMMA NearStays ==
  ASSUME IInv, CutInv, UNCHANGED <<cbpc, cb, filling, filled, iqChan, tuned, stale>>,
         cut' => cut, InHand' <= InHand, InHand' = 1 => hand' = hand
  PROVE  CutInv'
<1> SUFFICES ASSUME cut' PROVE Near'
  BY DEF CutInv
<1>1. Near
  BY DEF CutInv
<1>h. PICK h \in Nat : InHand' = h /\ h <= InHand
  BY DEF InHand
<1>2. /\ stale \in Nat /\ Len(iqChan) \in Nat /\ InHand \in Nat /\ Busy \in Nat
      /\ Busy' = Busy
  BY Counts DEF InHand, Busy
<1>3. PICK q \in Nat : Queued' = q /\ q <= Queued /\ Queued \in Nat
  BY <1>2, <1>h DEF Queued
<1>4. QueueNear'
  <2>1. SUFFICES ASSUME NEW i \in 1..Len(iqChan), iqChan[i].freq # tuned
                 PROVE  MayBeOld(InHand + i - 1)'
    BY DEF QueueNear, Old
  <2>2. stale + (InHand + i - 1) + 1 <= iqBufCount
    BY <1>1, <2>1 DEF Near, QueueNear, Old, MayBeOld
  <2>3. stale' + (InHand' + i - 1) + 1 <= iqBufCount
    BY <1>2, <1>h, <2>2, DepthAssumption
  <2>4. QED
    BY <2>3 DEF MayBeOld
<1>5. HandNear'
  <2>1. InHand' = 1 => InHand = 1
    BY DEF InHand
  <2> QED BY <1>1, <1>2, <2>1 DEF Near, HandNear, Old, MayBeOld
<1>6. CallbackNear'
  <2>1. cbpc # "idle" /\ Head(cb).freq # tuned => stale + Queued + 1 <= iqBufCount
    BY <1>1 DEF Near, CallbackNear, Old, MayBeOld
  <2>2. cbpc # "idle" /\ Head(cb).freq # tuned => stale' + Queued' + 1 <= iqBufCount
    BY <1>2, <1>3, <2>1, DepthAssumption
  <2> QED BY <2>2 DEF CallbackNear, Old, MayBeOld
<1>7. Queued' + Busy' = q + Busy /\ q + Busy \in Nat /\ q + Busy <= Queued + Busy
  BY <1>2, <1>3
<1>8. stale' <= iqBufCount
  BY <1>1 DEF Near
<1>9. QED
  BY <1>1, <1>4, <1>5, <1>6, <1>7, <1>8, TransfersNearer DEF Near

(* The tuner begins a block at the frequency it has now.                   *)
LEMMA BeginNear == IInv /\ CutInv /\ BeginTransfer => CutInv'
<1> SUFFICES ASSUME IInv, CutInv, BeginTransfer, cut' PROVE Near'
  BY DEF CutInv
<1>1. /\ UNCHANGED <<filled, cbpc, cb, iqChan, ppc, hand, tuned, stale, cut>>
      /\ Head(filling') = tuned
  BY DEF BeginTransfer, transferUnchanged
<1>2. Near
  BY <1>1 DEF CutInv
<1>3. FillingNear'
  BY <1>1 DEF FillingNear, Old
<1>4. HandNear' /\ QueueNear' /\ CallbackNear' /\ FilledNear' /\ stale' <= iqBufCount
  BY <1>1, <1>2
  DEF Near, HandNear, QueueNear, CallbackNear, FilledNear, Old, MayBeOld, Queued, InHand, Busy
<1> QED BY <1>3, <1>4 DEF Near

(* A full transfer keeps its place.                                        *)
LEMMA CompleteNear == IInv /\ CutInv /\ CompleteTransfer => CutInv'
<1> SUFFICES ASSUME IInv, CutInv, CompleteTransfer, cut' PROVE Near'
  BY DEF CutInv
<1>1. /\ UNCHANGED <<cbpc, cb, iqChan, ppc, hand, tuned, stale, cut>>
      /\ filling # <<>> /\ filling' = <<>> /\ filled' = filled \o filling
  BY DEF CompleteTransfer, transferUnchanged
<1>2. Near
  BY <1>1 DEF CutInv
<1>3. PICK f \in Freqs : filling = <<f>>
  BY <1>1 DEF IInv, Transfers
<1>4. /\ Len(filled') = Len(filled) + 1 /\ Len(filled) \in Nat
      /\ \A i \in 1..Len(filled) : filled'[i] = filled[i]
      /\ filled'[Len(filled) + 1] = f
  <2>1. filled \in Seq(Freqs) /\ <<f>> \in Seq(Freqs) /\ Len(<<f>>) = 1 /\ <<f>>[1] = f
    BY Counts
  <2>2. filled' = filled \o <<f>>
    BY <1>1, <1>3
  <2> QED
    BY <2>1, <2>2, LenProperties, ConcatProperties
<1>5. Queued' = Queued /\ Busy' = Busy /\ InHand' = InHand /\ Queued \in Nat /\ Busy \in {0, 1}
  BY <1>1, Counts DEF Queued, Busy, InHand
<1>6. FilledNear'
  <2> SUFFICES ASSUME NEW i \in 1..Len(filled'), filled'[i] # tuned
               PROVE  MayBeOld(Queued + Busy + i - 1)'
    BY <1>1 DEF FilledNear, Old
  <2>1. CASE i \in 1..Len(filled)
    <3>1. MayBeOld(Queued + Busy + i - 1)
      BY <1>2, <1>4, <2>1 DEF Near, FilledNear, Old
    <3> QED BY <1>1, <1>5, <3>1 DEF MayBeOld
  <2>2. CASE i = Len(filled) + 1
    <3>1. Head(filling) # tuned
      BY <1>3, <1>4, <2>2
    <3>2. stale + (Queued + Busy + Len(filled)) + 1 <= iqBufCount
      BY <1>1, <1>2, <3>1 DEF Near, FillingNear, Old, MayBeOld
    <3>3. Queued + Busy + i - 1 = Queued + Busy + Len(filled)
      BY <1>4, <1>5, <2>2
    <3> QED BY <1>1, <1>5, <3>2, <3>3 DEF MayBeOld
  <2> QED BY <1>4, <2>1, <2>2
<1>7. FillingNear' /\ HandNear' /\ QueueNear' /\ CallbackNear' /\ stale' <= iqBufCount
  BY <1>1, <1>2, <1>5
  DEF Near, HandNear, QueueNear, CallbackNear, FillingNear, Old, MayBeOld
<1> QED BY <1>6, <1>7 DEF Near

(* The callback takes the first full transfer, or lets it go.              *)
LEMMA OnIQNear == IInv /\ CutInv /\ OnIQ => CutInv'
<1> SUFFICES ASSUME IInv, CutInv, OnIQ, cut' PROVE Near'
  BY DEF CutInv
<1>1. /\ UNCHANGED <<filling, iqChan, ppc, hand, tuned, stale, cut>>
      /\ cbpc = "idle" /\ filled # <<>> /\ filled' = Tail(filled)
  BY DEF OnIQ, callbackUnchanged
<1>2. Near
  BY <1>1 DEF CutInv
<1>3. cbpc' = "idle" \/ (cbpc' = "queue" /\ Head(cb').freq = Head(filled))
  BY <1>1 DEF OnIQ
<1>4. /\ stale \in Nat /\ Queued \in Nat /\ InHand' = InHand /\ Queued' = Queued
      /\ Busy = 0 /\ Len(filled) \in Nat
  BY <1>1, <1>3, Counts DEF InHand, Queued, Busy
<1>b. PICK b \in Nat : Busy' = b /\ b <= 1
  BY DEF Busy
<1>5. /\ Len(filled') = Len(filled) - 1 /\ Head(filled) = filled[1] /\ Len(filled) > 0
      /\ \A i \in 1..Len(filled') : filled'[i] = filled[i + 1]
  BY <1>1, Counts, HeadTailProperties, LenProperties
<1>6. CallbackNear'
  <2> SUFFICES ASSUME filled[1] # tuned PROVE MayBeOld(Queued)'
    BY <1>1, <1>3, <1>5 DEF CallbackNear, Old
  <2>1. stale + (Queued + Busy + 1 - 1) + 1 <= iqBufCount
    BY <1>2, <1>4, <1>5 DEF Near, FilledNear, Old, MayBeOld
  <2> QED BY <1>1, <1>4, <2>1 DEF MayBeOld
<1>7. FilledNear'
  <2> SUFFICES ASSUME NEW i \in 1..Len(filled'), filled'[i] # tuned
               PROVE  MayBeOld(Queued + Busy + i - 1)'
    BY <1>1 DEF FilledNear, Old
  <2>1. i + 1 \in 1..Len(filled) /\ filled[i + 1] # tuned
    BY <1>4, <1>5
  <2>2. stale + (Queued + Busy + (i + 1) - 1) + 1 <= iqBufCount
    BY <1>2, <2>1 DEF Near, FilledNear, Old, MayBeOld
  <2>3. stale' + (Queued' + Busy' + i - 1) + 1 <= iqBufCount
    BY <1>1, <1>4, <1>b, <2>2, DepthAssumption
  <2> QED BY <2>3 DEF MayBeOld
<1>8. FillingNear'
  <2> SUFFICES ASSUME filling # <<>>, Head(filling) # tuned
               PROVE  MayBeOld(Queued + Busy + Len(filled))'
    BY <1>1 DEF FillingNear, Old
  <2>1. stale + (Queued + Busy + Len(filled)) + 1 <= iqBufCount
    BY <1>2 DEF Near, FillingNear, Old, MayBeOld
  <2>2. stale' + (Queued' + Busy' + Len(filled')) + 1 <= iqBufCount
    BY <1>1, <1>4, <1>5, <1>b, <2>1, DepthAssumption
  <2> QED BY <2>2 DEF MayBeOld
<1>9. QueueNear' /\ HandNear' /\ stale' <= iqBufCount
  BY <1>1, <1>2, <1>4 DEF Near, QueueNear, HandNear, Old, MayBeOld
<1> QED
  BY <1>6, <1>7, <1>8, <1>9 DEF Near

(* The callback's block keeps its place at the end of the queue.           *)
LEMMA OnIQQueueNear == IInv /\ CutInv /\ OnIQQueue => CutInv'
<1> SUFFICES ASSUME IInv, CutInv, OnIQQueue, cut' PROVE Near'
  BY DEF CutInv
<1>1. UNCHANGED <<filling, filled, ppc, hand, tuned, stale, cut>> /\ cbpc = "queue"
  BY DEF OnIQQueue, callbackUnchanged
<1>2. Near
  BY <1>1 DEF CutInv
<1>3. /\ stale \in Nat /\ iqChan \in Seq(Block) /\ Len(iqChan) \in Nat
      /\ InHand \in {0, 1} /\ InHand' = InHand /\ Queued \in Nat /\ Busy = 1
  BY <1>1, Counts DEF InHand, Busy
<1>4. CASE Len(iqChan) < iqChanDepth /\ cbpc' = "idle"
           /\ iqChan' = Append(iqChan, [Head(cb) EXCEPT !.gap = gap])
  <2> DEFINE d == [Head(cb) EXCEPT !.gap = gap]
  <2>1. d \in Block /\ d.freq = Head(cb).freq
    <3>1. PICK c \in Block : cb = <<c>>
      BY <1>1 DEF IInv, Queues
    <3>2. gap \in BOOLEAN /\ Head(cb) = c
      BY <3>1 DEF IInv, FlagTypes
    <3>3. QED
      BY <3>2 DEF Block
  <2>2. /\ Len(iqChan') = Len(iqChan) + 1
        /\ \A i \in 1..Len(iqChan) : iqChan'[i] = iqChan[i]
        /\ iqChan'[Len(iqChan) + 1] = d
    <3> HIDE DEF d
    <3>1. iqChan' = Append(iqChan, d)
      BY <1>4 DEF d
    <3>2. QED
      BY <1>3, <2>1, <3>1, AppendProperties
  <2> HIDE DEF d
  <2>3. Busy' = 0 /\ Queued' = Queued + 1
    BY <1>3, <1>4, <2>2 DEF Busy, Queued
  <2>4. QueueNear'
    <3>1. SUFFICES ASSUME NEW i \in 1..Len(iqChan'), iqChan'[i].freq # tuned
                   PROVE  MayBeOld(InHand + i - 1)'
      BY <1>1 DEF QueueNear, Old
    <3>2. CASE i \in 1..Len(iqChan)
      <4>1. MayBeOld(InHand + i - 1)
        BY <1>2, <2>2, <3>1, <3>2 DEF Near, QueueNear, Old
      <4> QED BY <1>1, <1>3, <4>1 DEF MayBeOld
    <3>3. CASE i = Len(iqChan) + 1
      <4>1. stale + Queued + 1 <= iqBufCount
        BY <1>1, <1>2, <2>1, <2>2, <3>1, <3>3 DEF Near, CallbackNear, Old, MayBeOld
      <4>2. InHand + i - 1 = Queued
        BY <1>3, <3>3 DEF Queued
      <4> QED BY <1>1, <1>3, <4>1, <4>2 DEF MayBeOld
    <3>4. QED
      BY <1>3, <2>2, <3>2, <3>3
  <2>5. FilledNear' /\ FillingNear'
    <3>1. Queued' + Busy' = Queued + 1 /\ Queued + 1 \in Nat /\ Queued + 1 <= Queued + Busy
      BY <1>3, <2>3
    <3> QED BY <1>1, <1>2, <3>1, TransfersNearer
  <2>6. HandNear' /\ CallbackNear' /\ stale' <= iqBufCount
    BY <1>1, <1>2, <1>3, <1>4 DEF Near, HandNear, CallbackNear, Old, MayBeOld
  <2>7. QED
    BY <2>4, <2>5, <2>6 DEF Near
<1>5. CASE cbpc' = "drop" /\ UNCHANGED <<iqChan, cb, gap>>
  <2>1. Queued' = Queued /\ Busy' = Busy
    BY <1>3, <1>5 DEF Queued, Busy
  <2> QED
    BY <1>1, <1>2, <1>3, <1>5, <2>1
    DEF Near, HandNear, QueueNear, CallbackNear, FilledNear, FillingNear, Old, MayBeOld
<1>6. QED
  BY <1>4, <1>5 DEF OnIQQueue

LEMMA OnIQDropNear == IInv /\ CutInv /\ OnIQDrop => CutInv'
<1> SUFFICES ASSUME IInv, CutInv, OnIQDrop, cut' PROVE Near'
  BY DEF CutInv
<1>1. /\ UNCHANGED <<filling, filled, iqChan, ppc, hand, tuned, stale, cut>>
      /\ cbpc = "drop" /\ cbpc' = "idle"
  BY DEF OnIQDrop, callbackUnchanged
<1>2. Near
  BY <1>1 DEF CutInv
<1>3. /\ InHand' = InHand /\ Queued' = Queued /\ Queued \in Nat
      /\ Busy = 1 /\ Busy' = 0
  BY <1>1, Counts DEF InHand, Queued, Busy
<1>4. Queued' + Busy' = Queued /\ Queued \in Nat /\ Queued <= Queued + Busy
  BY <1>3
<1>5. FilledNear' /\ FillingNear'
  BY <1>1, <1>2, <1>4, TransfersNearer
<1>6. QED
  BY <1>1, <1>2, <1>3, <1>5
  DEF Near, HandNear, QueueNear, CallbackNear, Old, MayBeOld

(* The head of the queue goes into the pipeline's hand, or away.           *)
LEMMA HeadTaken ==
  ASSUME IInv, CutInv, iqChan # <<>>, iqChan' = Tail(iqChan),
         UNCHANGED <<cbpc, cb, filling, filled, tuned, stale, cut>>,
         InHand = 0,
         InHand' = 0 \/ hand' = <<Head(iqChan)>>
  PROVE  CutInv'
<1> SUFFICES ASSUME cut' PROVE Near'
  BY DEF CutInv
<1>1. Near
  BY DEF CutInv
<1>h. PICK h \in Nat : InHand' = h /\ h <= 1
  BY DEF InHand
<1>2. /\ stale \in Nat /\ Len(iqChan) \in Nat /\ Len(iqChan) > 0
      /\ Busy' = Busy /\ Busy \in Nat
      /\ Head(iqChan) = iqChan[1]
      /\ Len(iqChan') = Len(iqChan) - 1
      /\ \A i \in 1..Len(iqChan') : iqChan'[i] = iqChan[i + 1]
  BY HeadTailProperties, LenProperties, Counts DEF InHand, Busy
<1>3. HandNear'
  <2>1. SUFFICES ASSUME InHand' = 1, iqChan[1].freq # tuned PROVE MayBeOld(0)'
    BY <1>2 DEF HandNear, Old
  <2>2. MayBeOld(InHand + 1 - 1)
    BY <1>1, <1>2, <2>1 DEF Near, QueueNear, Old
  <2>3. QED
    BY <1>2, <2>2 DEF MayBeOld
<1>4. QueueNear'
  <2>1. SUFFICES ASSUME NEW i \in 1..Len(iqChan'), iqChan'[i].freq # tuned
                 PROVE  MayBeOld(InHand + i - 1)'
    BY DEF QueueNear, Old
  <2>2. i + 1 \in 1..Len(iqChan) /\ iqChan[i + 1].freq # tuned
    BY <1>2, <2>1
  <2>3. stale + (InHand + (i + 1) - 1) + 1 <= iqBufCount
    BY <1>1, <2>2 DEF Near, QueueNear, Old, MayBeOld
  <2>4. stale' + (InHand' + i - 1) + 1 <= iqBufCount
    BY <1>2, <1>h, <2>3, DepthAssumption
  <2>5. QED
    BY <2>4 DEF MayBeOld
<1>5. PICK q \in Nat : Queued' = q /\ q <= Queued /\ Queued \in Nat
  BY <1>2, <1>h DEF Queued
<1>6. CallbackNear' /\ stale' <= iqBufCount
  <2>1. cbpc # "idle" /\ Head(cb).freq # tuned => stale + Queued + 1 <= iqBufCount
    BY <1>1 DEF Near, CallbackNear, Old, MayBeOld
  <2>2. cbpc # "idle" /\ Head(cb).freq # tuned => stale' + Queued' + 1 <= iqBufCount
    BY <1>2, <1>5, <2>1, DepthAssumption
  <2> QED BY <1>1, <2>2 DEF Near, CallbackNear, Old, MayBeOld
<1>7. Queued' + Busy' = q + Busy /\ q + Busy \in Nat /\ q + Busy <= Queued + Busy
  BY <1>2, <1>5
<1>8. QED
  BY <1>1, <1>3, <1>4, <1>6, <1>7, TransfersNearer DEF Near

(* The block in the hand is heard: one more, all others are nearer.        *)
LEMMA ProcessNear == IInv /\ CutInv /\ Process => CutInv'
<1> SUFFICES ASSUME IInv, CutInv, Process, cut' PROVE Near'
  BY DEF CutInv
<1>1. /\ UNCHANGED <<filling, filled, cbpc, cb, iqChan, tuned, cut>>
      /\ InHand = 1 /\ InHand' = 0
      /\ stale' = IF cut /\ Head(hand).freq # tuned THEN stale + 1 ELSE stale
  BY DEF Process, Release, pipeUnchanged, processUnchanged, InHand
<1>2. /\ Near /\ stale \in Nat /\ Len(iqChan) \in Nat /\ Len(filled) \in Nat
      /\ Busy' = Busy /\ Busy \in Nat /\ Queued = Len(iqChan) + 1
      /\ Queued' = Len(iqChan)
  BY <1>1, Counts DEF CutInv, Busy, Queued
<1>3. PICK t \in Nat : stale' = t /\ t <= stale + 1 /\ t <= iqBufCount
  <2>1. Head(hand).freq # tuned => stale + 0 + 1 <= iqBufCount
    BY <1>1, <1>2 DEF Near, HandNear, Old, MayBeOld
  <2>2. stale <= iqBufCount
    BY <1>2 DEF Near
  <2>3. CASE cut /\ Head(hand).freq # tuned
    BY <1>1, <1>2, <2>1, <2>3, DepthAssumption
  <2>4. CASE ~(cut /\ Head(hand).freq # tuned)
    BY <1>1, <1>2, <2>2, <2>4, DepthAssumption
  <2> QED BY <2>3, <2>4
<1>4. QueueNear'
  <2>1. SUFFICES ASSUME NEW i \in 1..Len(iqChan), iqChan[i].freq # tuned
                 PROVE  MayBeOld(InHand + i - 1)'
    BY <1>1 DEF QueueNear, Old
  <2>2. stale + (1 + i - 1) + 1 <= iqBufCount
    BY <1>1, <1>2, <2>1 DEF Near, QueueNear, Old, MayBeOld
  <2>3. stale' + (0 + i - 1) + 1 <= iqBufCount
    BY <1>2, <1>3, <2>2, DepthAssumption
  <2>4. QED
    BY <1>1, <2>3 DEF MayBeOld
<1>5. HandNear'
  BY <1>1 DEF HandNear
<1>6. CallbackNear'
  BY <1>1, <1>2, <1>3, DepthAssumption DEF Near, CallbackNear, Old, MayBeOld
<1>7. FilledNear'
  <2> SUFFICES ASSUME NEW i \in 1..Len(filled), filled[i] # tuned
               PROVE  MayBeOld(Queued + Busy + i - 1)'
    BY <1>1 DEF FilledNear, Old
  <2>1. stale + (Queued + Busy + i - 1) + 1 <= iqBufCount
    BY <1>2 DEF Near, FilledNear, Old, MayBeOld
  <2>2. stale' + (Queued' + Busy' + i - 1) + 1 <= iqBufCount
    BY <1>2, <1>3, <2>1, DepthAssumption
  <2> QED BY <2>2 DEF MayBeOld
<1>8. FillingNear'
  <2> SUFFICES ASSUME filling # <<>>, Head(filling) # tuned
               PROVE  MayBeOld(Queued + Busy + Len(filled))'
    BY <1>1 DEF FillingNear, Old
  <2>1. stale + (Queued + Busy + Len(filled)) + 1 <= iqBufCount
    BY <1>2 DEF Near, FillingNear, Old, MayBeOld
  <2>2. stale' + (Queued' + Busy' + Len(filled')) + 1 <= iqBufCount
    BY <1>1, <1>2, <1>3, <2>1, DepthAssumption
  <2> QED BY <2>2 DEF MayBeOld
<1>9. QED
  BY <1>3, <1>4, <1>5, <1>6, <1>7, <1>8 DEF Near

(* The flush is over: only the callback's block and the transfers are      *)
(* left, and those are never more than there are transfers.                *)
LEMMA FlushNear ==
  ASSUME IInv, iqChan = <<>>, stale' = 0, ppc' = "baseline",
         UNCHANGED <<iqChan, cbpc, cb, filling, filled, tuned>>
  PROVE  CutInv'
<1>1. InHand' = 0 /\ Len(iqChan') = 0 /\ Queued' = 0 /\ Busy' = Busy
  BY DEF InHand, Queued, Busy
<1>2. /\ Busy \in {0, 1} /\ Len(filled) \in Nat /\ iqBufCount \in Nat \ {0}
      /\ Len(filled) + Busy + Len(filling) <= iqBufCount
      /\ filling # <<>> => Len(filling) = 1
      /\ Len(filling) \in Nat
  BY Counts, DepthAssumption DEF IInv, Transfers
<1>3. HandNear' /\ QueueNear' /\ stale' <= iqBufCount
  BY <1>1, <1>2 DEF HandNear, QueueNear
<1>4. CallbackNear'
  BY <1>1, <1>2 DEF CallbackNear, MayBeOld
<1>5. FilledNear'
  <2> SUFFICES ASSUME NEW i \in 1..Len(filled) PROVE MayBeOld(Queued + Busy + i - 1)'
    BY DEF FilledNear
  <2>1. 0 + (0 + Busy + i - 1) + 1 <= iqBufCount
    BY <1>2
  <2> QED BY <1>1, <2>1 DEF MayBeOld
<1>6. FillingNear'
  BY <1>1, <1>2 DEF FillingNear, MayBeOld
<1>7. QED
  BY <1>3, <1>4, <1>5, <1>6 DEF CutInv, Near

LEMMA CutKept == IInv /\ CutInv /\ [Next]_vars => CutInv'
<1> SUFFICES ASSUME IInv, CutInv, [Next]_vars PROVE CutInv'
  OBVIOUS
<1> USE DEF handlerUnchanged, pipeUnchanged, processUnchanged, replaceUnchanged
<1> DEFINE Calm == /\ UNCHANGED <<cbpc, cb, filling, filled, iqChan, tuned,
                                stale, cut, hand>>
                   /\ InHand' <= InHand
<1>1. Calm => CutInv'
  BY NearStays
<1>2. (ppc' = ppc \/ ppc' \notin {"check", "process"}) => InHand' <= InHand
  BY DEF InHand
<1>3. ASSUME NEW h \in Handlers
      PROVE  /\ \A f \in Freqs : SetFreqStore(h, f) => Calm
             /\ \A m \in Modes : SetModeStore(h, m) => Calm
             /\ SetFreqNotify(h) => Calm
             /\ ReplacePush(h) \/ ReplaceMakeRoom(h) \/ ReplaceAgain(h) => Calm
  <2>1. /\ \A f \in Freqs : SetFreqStore(h, f) => Calm
        /\ \A m \in Modes : SetModeStore(h, m) => Calm
    BY <1>2 DEF SetFreqStore, SetModeStore
  <2>2. SetFreqNotify(h) => Calm
    BY <1>2 DEF SetFreqNotify
  <2>3. ReplacePush(h) \/ ReplaceMakeRoom(h) \/ ReplaceAgain(h) => Calm
    BY <1>2 DEF ReplacePush, ReplaceMakeRoom, ReplaceAgain
  <2>4. QED
    BY <2>1, <2>2, <2>3
<1>4. ASSUME NEW h \in Handlers, SetFreqTune(h) PROVE CutInv'
  <2>1. CASE cut' = FALSE
    BY <2>1 DEF CutInv
  <2>2. CASE UNCHANGED <<tuned, cut, stale>>
    BY <1>1, <1>2, <1>4, <2>2 DEF SetFreqTune
  <2>3. QED
    BY <1>4, <2>1, <2>2 DEF SetFreqTune
<1>5. Callback => CutInv'
  BY BeginNear, CompleteNear, OnIQNear, OnIQQueueNear, OnIQDropNear DEF Callback
<1>6. Run => CutInv'
  <2>1. ReadMode \/ Build \/ DrainMode \/ DrainFlush \/ Baseline => Calm
    BY <1>2 DEF ReadMode, Build, DrainMode, DrainFlush, Baseline
  <2>2. SelectStop \/ SelectMode \/ SelectFlush => Calm
    BY <1>2 DEF SelectStop, SelectMode, SelectFlush
  <2>3. CheckDrops => Calm
    BY DEF CheckDrops, InHand
  <2>4. ASSUME FlushDrain PROVE CutInv'
    <3>1. UNCHANGED <<cbpc, cb, filling, filled, tuned>> /\ InHand = 0
      BY <2>4 DEF FlushDrain, InHand
    <3>2. CASE iqChan # <<>> /\ iqChan' = Tail(iqChan) /\ UNCHANGED <<ppc, cut, stale>>
      <4>1. InHand' = 0
        BY <3>1, <3>2 DEF InHand
      <4>2. QED
        BY <3>1, <3>2, <4>1, HeadTaken
    <3>3. CASE iqChan = <<>> /\ ppc' = "baseline" /\ stale' = 0 /\ UNCHANGED iqChan
      BY <3>1, <3>3, FlushNear
    <3>4. QED
      BY <2>4, <3>2, <3>3 DEF FlushDrain
  <2>5. ASSUME SelectBlock PROVE CutInv'
    <3>1. /\ UNCHANGED <<cbpc, cb, filling, filled, tuned, stale, cut>> /\ InHand = 0
          /\ iqChan # <<>> /\ iqChan' = Tail(iqChan) /\ hand' = <<Head(iqChan)>>
      BY <2>5 DEF SelectBlock, InHand
    <3>2. QED
      BY <3>1, HeadTaken
  <2>6. Recycle => CutInv'
    <3>1. Recycle => /\ UNCHANGED <<cbpc, cb, filling, filled, iqChan, tuned,
                                stale, cut>>
                     /\ InHand' = 0 /\ InHand' <= InHand
      BY DEF Recycle, Release, InHand
    <3>2. QED
      BY <3>1, NearStays
  <2>7. QED
    BY <1>1, <2>1, <2>2, <2>3, <2>4, <2>5, <2>6, ProcessNear DEF Run
<1>7. Start \/ Stop => Calm
  BY <1>2 DEF Start, Stop
<1>8. ASSUME StopDrain PROVE CutInv'
  <2>1. UNCHANGED <<cbpc, cb, filling, filled, tuned, stale, cut, hand>> /\ InHand = 0
        /\ InHand' = 0
    BY <1>8 DEF StopDrain, InHand
  <2>2. CASE iqChan # <<>> /\ iqChan' = Tail(iqChan)
    BY <2>1, <2>2, HeadTaken
  <2>3. CASE UNCHANGED iqChan
    BY <1>1, <2>1, <2>3
  <2>4. QED
    BY <1>8, <2>2, <2>3 DEF StopDrain
<1>9. UNCHANGED vars => Calm
  BY <1>2 DEF vars
<1>10. QED
  BY <1>1, <1>3, <1>4, <1>5, <1>6, <1>7, <1>8, <1>9, NextCases

(* A retune is a clean cut (main.go:396-401 and 1291-1292): with queues of *)
(* any depth, any number of handlers and of transfers, once the pipeline   *)
(* has flushed no more blocks from before the retune are filtered than     *)
(* there are transfers.                                                    *)
THEOREM RetuneIsClean == Spec => []RetuneCut
<1>1. Init => CutInv
  <2> SUFFICES ASSUME Init PROVE Near
    BY DEF CutInv
  <2>1. /\ stale = 0 /\ InHand = 0 /\ Len(iqChan) = 0 /\ cbpc = "idle"
        /\ filling = <<>> /\ Len(filled) = 0
    BY DEF Init, InHand
  <2>2. QED
    BY <2>1, DepthAssumption
    DEF Near, HandNear, QueueNear, CallbackNear, FilledNear, FillingNear
<1>2. CutInv => RetuneCut
  BY DEF CutInv, Near, RetuneCut
<1>3. QED
  BY <1>1, <1>2, CutKept, Invariant, PTL DEF Spec

-----------------------------------------------------------------------------
(* Part of a frame is left over only while the gate is open, which is what *)
(* the pipeline's own wasOpen remembers through every reset.               *)
GateInv == partial => joined /\ wasOpen

LEMMA GateKept == IInv /\ GateInv /\ [Next]_vars => GateInv'
<1> SUFFICES ASSUME IInv, GateInv, [Next]_vars PROVE GateInv'
  OBVIOUS
<1> USE DEF handlerUnchanged, callbackUnchanged, transferUnchanged, pipeUnchanged,
            processUnchanged, replaceUnchanged
<1> DEFINE Same == UNCHANGED <<partial, joined, wasOpen>>
<1>1. Same => GateInv'
  BY DEF GateInv
<1>2. ASSUME NEW h \in Handlers
      PROVE  /\ \A f \in Freqs : SetFreqStore(h, f) => Same
             /\ \A m \in Modes : SetModeStore(h, m) => Same
             /\ SetFreqTune(h) \/ SetFreqNotify(h) => Same
             /\ ReplacePush(h) \/ ReplaceMakeRoom(h) \/ ReplaceAgain(h) => Same
  BY DEF SetFreqStore, SetModeStore, SetFreqTune, SetFreqNotify, ReplacePush,
         ReplaceMakeRoom, ReplaceAgain
<1>3. Callback => Same
  BY DEF Callback, BeginTransfer, CompleteTransfer, OnIQ, OnIQQueue, OnIQDrop
<1>4. Run => GateInv'
  <2>1. \/ ReadMode \/ Build \/ DrainMode \/ DrainFlush \/ Baseline
        \/ SelectFlush \/ SelectBlock \/ Recycle
        => Same
    BY DEF ReadMode, Build, DrainMode, DrainFlush, Baseline, SelectFlush,
           SelectBlock, Recycle
  <2>2. partial' = FALSE => GateInv'
    BY DEF GateInv
  <2>3. SelectStop => partial' = FALSE
    BY DEF SelectStop, ChainReset
  <2>4. SelectMode => partial' = FALSE \/ Same
    BY DEF SelectMode, ChainReset
  <2>5. FlushDrain => partial' = FALSE \/ Same
    BY DEF FlushDrain, ChainReset
  <2>6. CheckDrops => partial' = FALSE \/ Same
    BY DEF CheckDrops, ChainReset
  <2>7. ASSUME Process PROVE GateInv'
    <3>1. PICK open \in BOOLEAN :
            /\ wasOpen' = open /\ joined' = open
            /\ open \/ partial' = FALSE \/ (~wasOpen /\ partial' = partial)
      BY <2>7 DEF Process
    <3>2. CASE open
      BY <3>1, <3>2 DEF GateInv
    <3>3. CASE ~wasOpen /\ partial' = partial
      BY <3>3 DEF GateInv
    <3>4. QED
      BY <2>2, <3>1, <3>2, <3>3
  <2>8. QED
    BY <1>1, <2>1, <2>2, <2>3, <2>4, <2>5, <2>6, <2>7 DEF Run
<1>5. Start \/ Stop \/ StopDrain \/ UNCHANGED vars => Same
  BY DEF Start, Stop, StopDrain, vars
<1>6. QED
  BY <1>1, <1>2, <1>3, <1>4, <1>5, NextCases

(* The encoder never holds part of a frame of an earlier transmission      *)
(* (opusEnc.Reset when the gate shuts, main.go:1416), whatever drops,      *)
(* flushes, rebuilds and restarts come in between.                         *)
THEOREM NoOldSamples == Spec => []CleanTransmission
<1>1. Init => GateInv
  BY DEF Init, GateInv
<1>2. GateInv => CleanTransmission
  BY DEF GateInv, CleanTransmission
<1>3. QED
  BY <1>1, <1>2, GateKept, Invariant, PTL DEF Spec

-----------------------------------------------------------------------------
(* The mode commands.  Unless they overlapped, or one was discarded at the *)
(* start, at most one handler is inside replace, with the mode that Status *)
(* reports; when none is, that mode waits in modeChan, or else the chain   *)
(* that runs, or is being built, is for it.                                *)
Starting == ppc \in {"off", "read", "returned"}

ModeInv ==
  excused = {} =>
    /\ \A g, h \in Handlers : InSetMode(g) /\ InSetMode(h) => g = h
    /\ \A h \in Handlers : InSetMode(h) => arg[h] = smode
    /\ \A h \in Handlers : hpc[h] = "again" => modeChan = <<>>
    /\ (\A h \in Handlers : ~InSetMode(h)) =>
         /\ modeChan # <<>> => modeChan = <<smode>>
         /\ modeChan = <<>> /\ ~Starting => mode = smode

LEMMA OnlyOne ==
  ASSUME NEW s \in Seq(Modes), Len(s) <= 1, s # <<>>
  PROVE  s = <<Head(s)>>
<1>1. Len(s) \in Nat
  BY LenProperties
<1>2. Len(s) # 0
  BY EmptySeq
<1>3. Len(s) = 1
  BY <1>1, <1>2
<1> QED BY <1>3

LEMMA ModeKept == IInv /\ ModeInv /\ [Next]_vars => ModeInv'
<1> SUFFICES ASSUME IInv, ModeInv, [Next]_vars PROVE ModeInv'
  OBVIOUS
<1> USE DEF handlerUnchanged, callbackUnchanged, transferUnchanged, pipeUnchanged,
            processUnchanged, replaceUnchanged
<1>t. /\ hpc \in [Handlers -> {"receive", "tune", "notify", "push", "room", "again"}]
      /\ arg \in [Handlers -> Freqs \cup Modes \cup {None}]
      /\ modeChan \in Seq(Modes) /\ Len(modeChan) <= 1
  BY DEF IInv, CommandTypes
<1>o. modeChan # <<>> => modeChan = <<Head(modeChan)>>
  BY <1>t, OnlyOne
<1> DEFINE Same == UNCHANGED <<hpc, arg, smode, modeChan, excused, mode>>
                   /\ (Starting => Starting')
<1>1. Same => ModeInv'
  BY DEF ModeInv, InSetMode
<1>2. ASSUME NEW h \in Handlers, NEW f \in Freqs, SetFreqStore(h, f) PROVE ModeInv'
  <2>1. /\ hpc[h] = "receive" /\ hpc' = [hpc EXCEPT ![h] = "tune"]
        /\ arg' = [arg EXCEPT ![h] = f]
        /\ UNCHANGED <<smode, modeChan, excused, mode, ppc>>
    BY <1>2 DEF SetFreqStore
  <2>2. \A g \in Handlers : /\ InSetMode(g)' <=> InSetMode(g)
                            /\ InSetMode(g) => arg'[g] = arg[g]
                            /\ hpc'[g] = "again" <=> hpc[g] = "again"
    BY <1>t, <2>1 DEF InSetMode
  <2> QED BY <2>1, <2>2 DEF ModeInv, Starting
<1>3. ASSUME NEW h \in Handlers, NEW m \in Modes, SetModeStore(h, m) PROVE ModeInv'
  <2>1. /\ hpc[h] = "receive" /\ hpc' = [hpc EXCEPT ![h] = "push"]
        /\ arg' = [arg EXCEPT ![h] = m] /\ smode' = m
    BY <1>3 DEF SetModeStore
  <2>2. CASE \E g \in Handlers : InSetMode(g)
    BY <1>3, <2>2 DEF SetModeStore, ModeInv
  <2>3. CASE \A g \in Handlers : ~InSetMode(g)
    <3>1. \A g \in Handlers : /\ InSetMode(g)' <=> g = h
                              /\ hpc'[g] # "again"
      BY <1>t, <2>1, <2>3 DEF InSetMode
    <3>2. InSetMode(h)' /\ arg'[h] = smode'
      BY <1>t, <2>1, <3>1
    <3> QED BY <3>1, <3>2 DEF ModeInv
  <2> QED BY <2>2, <2>3
<1>4. ASSUME NEW h \in Handlers, SetFreqTune(h) \/ SetFreqNotify(h) PROVE ModeInv'
  <2>1. /\ hpc[h] \in {"tune", "notify"} /\ hpc'[h] \in {"notify", "receive"}
        /\ \A g \in Handlers : g # h => hpc'[g] = hpc[g] /\ arg'[g] = arg[g]
        /\ UNCHANGED <<smode, modeChan, excused, mode, ppc>>
    BY <1>t, <1>4 DEF SetFreqTune, SetFreqNotify, Done
  <2>2. \A g \in Handlers : /\ InSetMode(g)' <=> InSetMode(g)
                            /\ InSetMode(g) => arg'[g] = arg[g]
                            /\ hpc'[g] = "again" <=> hpc[g] = "again"
    BY <2>1 DEF InSetMode
  <2> QED BY <2>1, <2>2 DEF ModeInv, Starting
<1>5. ASSUME NEW h \in Handlers, ReplacePush(h) \/ ReplaceMakeRoom(h) \/ ReplaceAgain(h)
      PROVE  ModeInv'
  <2> SUFFICES ASSUME excused = {} PROVE ModeInv'
    BY <1>5 DEF ModeInv, ReplacePush, ReplaceMakeRoom, ReplaceAgain
  <2>1. /\ InSetMode(h) /\ arg[h] = smode
        /\ \A g \in Handlers : InSetMode(g) <=> g = h
        /\ UNCHANGED <<smode, excused, mode, ppc>>
        /\ \A g \in Handlers : g # h => hpc'[g] = hpc[g] /\ arg'[g] = arg[g]
    BY <1>t, <1>5 DEF ModeInv, InSetMode, ReplacePush, ReplaceMakeRoom, ReplaceAgain, Done
  <2>2. ASSUME hpc'[h] = "receive", modeChan' = <<smode>> PROVE ModeInv'
    <3>1. \A g \in Handlers : ~InSetMode(g)' /\ hpc'[g] # "again"
      BY <2>1, <2>2 DEF InSetMode
    <3> QED BY <2>1, <2>2, <3>1 DEF ModeInv
  <2>3. ASSUME hpc'[h] \in {"room", "again"}, arg'[h] = arg[h],
               hpc'[h] = "again" => modeChan' = <<>>
        PROVE  ModeInv'
    <3>1. \A g \in Handlers : InSetMode(g)' <=> g = h
      BY <2>1, <2>3 DEF InSetMode
    <3>2. InSetMode(h)' /\ arg'[h] = smode'
      BY <2>1, <2>3, <3>1
    <3>3. \A g \in Handlers : hpc'[g] = "again" => modeChan' = <<>>
      BY <2>3, <3>1 DEF InSetMode
    <3> QED BY <3>1, <3>2, <3>3 DEF ModeInv
  <2>4. CASE ReplacePush(h)
    <3>1. \/ hpc'[h] = "receive" /\ modeChan' = <<smode>>
          \/ hpc'[h] = "room" /\ arg'[h] = arg[h]
      BY <1>t, <2>1, <2>4 DEF ReplacePush, Done
    <3> QED BY <2>2, <2>3, <3>1
  <2>5. CASE ReplaceMakeRoom(h)
    <3>1. hpc'[h] = "again" /\ arg'[h] = arg[h] /\ modeChan' = <<>>
      BY <1>t, <2>5 DEF ReplaceMakeRoom
    <3> QED BY <2>3, <3>1
  <2>6. CASE ReplaceAgain(h)
    <3>1. modeChan = <<>>
      BY <2>6 DEF ModeInv, ReplaceAgain
    <3>2. hpc'[h] = "receive" /\ modeChan' = <<smode>>
      BY <1>t, <2>1, <2>6, <3>1 DEF ReplaceAgain, Done
    <3> QED BY <2>2, <3>2
  <2> QED BY <1>5, <2>4, <2>5, <2>6
<1>6. Callback => Same
  BY DEF Callback, BeginTransfer, CompleteTransfer, OnIQ, OnIQQueue, OnIQDrop,
         Starting
<1>7. \/ Build \/ DrainFlush \/ Baseline \/ SelectStop \/ SelectFlush
      \/ SelectBlock \/ CheckDrops \/ Process \/ Recycle \/ FlushDrain
      => UNCHANGED <<hpc, arg, smode, modeChan, excused, mode>> /\ ~Starting
  BY DEF Build, DrainFlush, Baseline, SelectStop, SelectFlush, SelectBlock, CheckDrops,
         Process, Recycle, Release, FlushDrain, Starting
<1>8. Start \/ Stop \/ StopDrain \/ UNCHANGED vars => Same
  BY DEF Start, Stop, StopDrain, vars, Starting
<1>9. UNCHANGED <<hpc, arg, smode, modeChan, excused, mode>> /\ ~Starting => ModeInv'
  BY DEF ModeInv, InSetMode
<1>10. ReadMode => ModeInv'
  BY DEF ReadMode, ModeInv, InSetMode
<1>11. DrainMode => ModeInv'
  BY <1>o DEF DrainMode, ModeInv, InSetMode, Starting
<1>12. SelectMode => ModeInv'
  BY <1>o DEF SelectMode, ModeInv, InSetMode, Starting
<1>13. QED
  BY <1>1, <1>2, <1>3, <1>4, <1>5, <1>6, <1>7, <1>8, <1>9, <1>10, <1>11, <1>12, NextCases
     DEF Run

(* Status reports the mode that is heard (state.mode and modeChan,         *)
(* main.go:404-411 and 1238-1249) with any number of handlers, unless their*)
(* commands overlapped or one came while the pipeline started.             *)
THEOREM StatusIsTrue == Spec => []ReportedIsReal
<1>1. Init => ModeInv
  BY DEF Init, ModeInv, InSetMode, Starting
<1>2. IInv /\ ModeInv => ReportedIsReal
  <2>1. IInv => excused \subseteq {"race", "start"}
    BY DEF IInv, FlagTypes, CommandTypes
  <2> QED BY <2>1 DEF ModeInv, ReportedIsReal, ModeSettled, Starting
<1>3. QED
  BY <1>1, <1>2, ModeKept, Invariant, PTL DEF Spec
=============================================================================
