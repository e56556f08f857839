------------------------------ MODULE Pipeline ------------------------------
(***************************************************************************)
(* How IQ reaches the ear in cmd/narrowcast/main.go: librtlsdr keeps       *)
(* iqBufCount transfers in flight and calls back for each one the tuner    *)
(* has filled; the callback copies the block into a recycled buffer and    *)
(* queues it, runPipeline filters the queued blocks, gates them by squelch *)
(* and encodes them, and meanwhile command handlers retune the hardware    *)
(* and change the mode, with one-place channels to tell the pipeline.      *)
(*                                                                         *)
(* Of a block of samples the model keeps the buffer it is in, the          *)
(* frequency the tuner had when the block began, and whether blocks were   *)
(* dropped just before it.  Who may start and stop the pipeline is in      *)
(* module Lifecycle; here Start and Stop come from anywhere.               *)
(***************************************************************************)
EXTENDS Naturals, Sequences, FiniteSets, Functions

CONSTANTS Handlers,     \* handleClient goroutines
          Freqs, Modes, \* what SetFrequency and SetMode may ask for
          Bufs,         \* sample buffers that exist at one time
          iqBufCount,   \* transfers that librtlsdr keeps in flight (12)
          iqChanDepth,  \* capacity of iqChan (8 in the code)
          iqBufPoolDepth, \* capacity of bufPool (12 in the code)
          None          \* no command in hand

ASSUME DepthAssumption ==
  iqChanDepth \in Nat \ {0} /\ iqBufPoolDepth \in Nat /\ iqBufCount \in Nat \ {0}
ASSUME BufAssumption ==
  IsFiniteSet(Bufs) /\ Cardinality(Bufs) >= iqChanDepth + iqBufPoolDepth + 2

VARIABLES
  hpc,        \* where each handler is
  arg,        \* what its command asks for
  freqHz,     \* state.freqHz, which Status reports
  smode,      \* state.mode, which Status reports
  tuned,      \* the frequency the device is tuned to
  flushChan,  \* a signal waits in flushChan
  modeChan,   \* modes waiting in modeChan, at most one
  filling,    \* <<frequency at which the tuner began the block it now fills>>
  filled,     \* such frequencies of the full transfers that await the callback
  cbpc, cb,   \* where onIQ is; <<block>> while it holds one
  iqWanted, iqChan, bufPool,
  dropsUnseen, \* dropCount # lastDrops
  gap,        \* history: blocks were dropped since the last one queued
  ppc, hand,  \* where the pipeline is; <<block>> while it holds one
  stop,       \* its stop channel is closed
  mode,       \* the mode its DSP chain is built for
  wasOpen,    \* its local variable of that name
  filtered,   \* the chain's filters remember samples of earlier blocks
  partial,    \* the Opus encoder holds the beginning of a frame
  joined,     \* history: the gate passed the block before, nothing reset since
  cut, stale, \* history: the pipeline flushed since the last retune; blocks
              \* from before it that it has filtered since then all the same
  excused     \* history: why Status may be wrong, see ReportedIsReal

commandVars == <<hpc, arg, freqHz, smode, tuned, flushChan, modeChan>>
transferVars == <<filling, filled>>
callbackVars == <<transferVars, cbpc, cb, gap>>
queueVars == <<iqWanted, iqChan, bufPool, dropsUnseen>>
chainVars == <<mode, wasOpen, filtered, partial, joined>>
historyVars == <<cut, stale, excused>>
pipeVars == <<ppc, hand, stop>>
vars == <<commandVars, callbackVars, queueVars, chainVars, historyVars, pipeVars>>

Block == [buf : Bufs, freq : Freqs, gap : BOOLEAN]

Held(s) == {s[i].buf : i \in DOMAIN s}
InUse == Range(bufPool) \cup Held(iqChan) \cup Held(cb) \cup Held(hand)

(* takeBuf: the next of the free list, or else one just allocated.         *)
TakeBuf == IF bufPool = <<>> THEN Bufs \ InUse ELSE {Head(bufPool)}

(* recycleBuf: back to the free list, or to the garbage collector.         *)
Recycled(b) == IF Len(bufPool) < iqBufPoolDepth THEN Append(bufPool, b) ELSE bufPool

(* The handler is ready for its next command.                              *)
Done(h) == hpc' = [hpc EXCEPT ![h] = "receive"] /\ arg' = [arg EXCEPT ![h] = None]

InSetMode(h) == hpc[h] \in {"push", "room", "again"}

-----------------------------------------------------------------------------
Init ==
  /\ hpc = [h \in Handlers |-> "receive"]
  /\ freqHz \in Freqs /\ tuned = freqHz
  /\ filling = <<>> /\ filled = <<>>
  /\ smode \in Modes /\ mode = smode
  /\ arg = [h \in Handlers |-> None]
  /\ flushChan = FALSE /\ modeChan = <<>>
  /\ cbpc = "idle" /\ cb = <<>> /\ gap = FALSE
  /\ iqWanted = FALSE /\ iqChan = <<>> /\ bufPool = <<>> /\ dropsUnseen = FALSE
  /\ wasOpen = FALSE /\ filtered = FALSE /\ partial = FALSE /\ joined = FALSE
  /\ cut = TRUE /\ stale = 0 /\ excused = {}
  /\ ppc = "off" /\ hand = <<>> /\ stop = FALSE

-----------------------------------------------------------------------------
(* handleClient, CmdSetFrequency: store, retune, tell the pipeline.  The   *)
(* lock covers only the first of the three.                                *)
handlerUnchanged == UNCHANGED <<callbackVars, queueVars, chainVars, pipeVars>>

SetFreqStore(h, f) ==
  /\ hpc[h] = "receive"
  /\ hpc' = [hpc EXCEPT ![h] = "tune"] /\ arg' = [arg EXCEPT ![h] = f]
  /\ freqHz' = f
  /\ UNCHANGED <<smode, tuned, flushChan, modeChan, historyVars>>
  /\ handlerUnchanged

(* dev.SetCenterFreq; an error is only logged.                             *)
SetFreqTune(h) ==
  /\ hpc[h] = "tune"
  /\ hpc' = [hpc EXCEPT ![h] = "notify"]
  /\ \/ tuned' = arg[h] /\ cut' = FALSE /\ stale' = 0
     \/ UNCHANGED <<tuned, cut, stale>>
  /\ UNCHANGED <<arg, freqHz, smode, flushChan, modeChan, excused>>
  /\ handlerUnchanged

SetFreqNotify(h) ==
  /\ hpc[h] = "notify"
  /\ Done(h)
  /\ flushChan' = TRUE
  /\ UNCHANGED <<freqHz, smode, tuned, modeChan, historyVars>>
  /\ handlerUnchanged

(* CmdSetMode: store, then replace, which is three selects.                *)
SetModeStore(h, m) ==
  /\ hpc[h] = "receive"
  /\ hpc' = [hpc EXCEPT ![h] = "push"] /\ arg' = [arg EXCEPT ![h] = m]
  /\ smode' = m
  /\ excused' = IF \E g \in Handlers : InSetMode(g) THEN excused \cup {"race"} ELSE {}
  /\ UNCHANGED <<freqHz, tuned, flushChan, modeChan, cut, stale>>
  /\ handlerUnchanged

replaceUnchanged == UNCHANGED <<freqHz, smode, tuned, flushChan, historyVars>>

(* Mutant: notify's way of posting, which keeps the older value.           *)
ReplacePush_KeepsOld(h) ==
  /\ hpc[h] = "push"
  /\ Done(h)
  /\ modeChan' = IF modeChan = <<>> THEN <<arg[h]>> ELSE modeChan
  /\ replaceUnchanged /\ handlerUnchanged

ReplacePush(h) ==
  /\ hpc[h] = "push"
  /\ \/ /\ modeChan = <<>> /\ modeChan' = <<arg[h]>>
        /\ Done(h)
     \/ /\ modeChan # <<>> /\ UNCHANGED modeChan
        /\ hpc' = [hpc EXCEPT ![h] = "room"] /\ UNCHANGED arg
  /\ replaceUnchanged /\ handlerUnchanged

ReplaceMakeRoom(h) ==
  /\ hpc[h] = "room"
  /\ hpc' = [hpc EXCEPT ![h] = "again"] /\ UNCHANGED arg
  /\ modeChan' = <<>>
  /\ replaceUnchanged /\ handlerUnchanged

ReplaceAgain(h) ==
  /\ hpc[h] = "again"
  /\ Done(h)
  /\ modeChan' = IF modeChan = <<>> THEN <<arg[h]>> ELSE modeChan
  /\ replaceUnchanged /\ handlerUnchanged

-----------------------------------------------------------------------------
callbackUnchanged == UNCHANGED <<commandVars, chainVars, historyVars, pipeVars>>

(* The transfer whose block the callback holds is submitted again when it  *)
(* returns.                                                                *)
Busy == IF cbpc = "idle" THEN 0 ELSE 1

transferUnchanged ==
  UNCHANGED <<commandVars, cbpc, cb, gap, queueVars, chainVars, historyVars, pipeVars>>

(* The tuner begins to fill one of the transfers submitted to it ...       *)
BeginTransfer ==
  /\ filling = <<>> /\ Len(filled) + Busy < iqBufCount
  /\ filling' = <<tuned>>
  /\ UNCHANGED filled /\ transferUnchanged

(* ... which, once full, waits for the callback behind those before it.    *)
CompleteTransfer ==
  /\ filling # <<>>
  /\ filled' = filled \o filling /\ filling' = <<>>
  /\ transferUnchanged

(* onIQ is called for the next full transfer, takes a buffer and copies.   *)
(* (Shut: onIQ returns at once.)                                           *)
OnIQ ==
  /\ cbpc = "idle" /\ filled # <<>>
  /\ filled' = Tail(filled)
  /\ \/ /\ ~iqWanted /\ UNCHANGED <<cbpc, cb, bufPool>>
     \/ /\ iqWanted /\ cbpc' = "queue"
        /\ \E b \in TakeBuf :
             cb' = <<[buf |-> b, freq |-> Head(filled), gap |-> FALSE]>>
        /\ bufPool' = IF bufPool = <<>> THEN <<>> ELSE Tail(bufPool)
  /\ UNCHANGED <<filling, gap, iqWanted, iqChan, dropsUnseen>>
  /\ callbackUnchanged

(* Mutant: the queue is not bounded. *)
OnIQQueue_Unbounded ==
  /\ cbpc = "queue"
  /\ iqChan' = Append(iqChan, [Head(cb) EXCEPT !.gap = gap])
  /\ cb' = <<>> /\ cbpc' = "idle" /\ gap' = FALSE
  /\ UNCHANGED <<transferVars, iqWanted, bufPool, dropsUnseen>>
  /\ callbackUnchanged

(* onIQ's select: queue the block, or go on to drop it.                    *)
OnIQQueue ==
  /\ cbpc = "queue"
  /\ \/ /\ Len(iqChan) < iqChanDepth
        /\ iqChan' = Append(iqChan, [Head(cb) EXCEPT !.gap = gap])
        /\ cb' = <<>> /\ cbpc' = "idle" /\ gap' = FALSE
     \/ /\ Len(iqChan) = iqChanDepth
        /\ cbpc' = "drop" /\ UNCHANGED <<iqChan, cb, gap>>
  /\ UNCHANGED <<transferVars, iqWanted, bufPool, dropsUnseen>>
  /\ callbackUnchanged

OnIQDrop ==
  /\ cbpc = "drop"
  /\ dropsUnseen' = TRUE /\ gap' = TRUE
  /\ bufPool' = Recycled(Head(cb).buf)
  /\ cb' = <<>> /\ cbpc' = "idle"
  /\ UNCHANGED <<transferVars, iqWanted, iqChan>>
  /\ callbackUnchanged

-----------------------------------------------------------------------------
pipeUnchanged == UNCHANGED <<hpc, arg, freqHz, smode, tuned, callbackVars>>

(* dspChain.Reset, or a chain just built: squelch shut, filters and        *)
(* encoder empty.  The pipeline's own wasOpen is no part of the chain.     *)
ChainReset == filtered' = FALSE /\ partial' = FALSE /\ joined' = FALSE

(* addListener for the first listener.                                     *)
Start ==
  /\ ppc = "off"
  /\ ppc' = "read" /\ stop' = FALSE /\ iqWanted' = TRUE
  /\ UNCHANGED <<hand, flushChan, modeChan, iqChan, bufPool, dropsUnseen,
                 chainVars, historyVars>>
  /\ pipeUnchanged

ReadMode ==
  /\ ppc = "read"
  /\ ppc' = "build" /\ mode' = smode
  /\ UNCHANGED <<hand, stop, flushChan, modeChan, queueVars, wasOpen, filtered,
                 partial, joined, historyVars>>
  /\ pipeUnchanged

Build ==
  /\ ppc = "build"
  /\ ppc' \in {"drainMode", "returned"}
  /\ UNCHANGED <<hand, stop, flushChan, modeChan, queueVars, chainVars, historyVars>>
  /\ pipeUnchanged

(* drain(modeChan): "Commands queued while the pipeline was stopped".      *)
DrainMode ==
  /\ ppc = "drainMode"
  /\ ppc' = "drainFlush" /\ modeChan' = <<>>
  /\ excused' = IF modeChan \in {<<>>, <<mode>>} THEN excused
                                                ELSE excused \cup {"start"}
  /\ UNCHANGED <<hand, stop, flushChan, queueVars, chainVars, cut, stale>>
  /\ pipeUnchanged

DrainFlush ==
  /\ ppc = "drainFlush"
  /\ ppc' = "baseline" /\ flushChan' = FALSE
  /\ UNCHANGED <<hand, stop, modeChan, queueVars, chainVars, historyVars>>
  /\ pipeUnchanged

(* lastDrops = dropCount.Load(), at the start and after a flush.           *)
Baseline ==
  /\ ppc = "baseline"
  /\ ppc' = "select" /\ dropsUnseen' = FALSE
  /\ UNCHANGED <<hand, stop, flushChan, modeChan, iqWanted, iqChan, bufPool,
                 chainVars, historyVars>>
  /\ pipeUnchanged

(* The select loop: stop or the context.  The chain is gone with the       *)
(* goroutine that built it.                                                *)
SelectStop ==
  /\ ppc = "select" /\ stop
  /\ ppc' = "returned" /\ wasOpen' = FALSE /\ ChainReset
  /\ UNCHANGED <<hand, stop, flushChan, modeChan, queueVars, mode, historyVars>>
  /\ pipeUnchanged

(* A mode command: rebuild the chain, unless it is for that mode already.  *)
SelectMode ==
  /\ ppc = "select" /\ modeChan # <<>>
  /\ modeChan' = <<>>
  /\ \/ /\ Head(modeChan) = mode
        /\ UNCHANGED <<mode, filtered, partial, joined, excused>>
     \/ /\ Head(modeChan) # mode
        /\ mode' = Head(modeChan) /\ ChainReset
        /\ UNCHANGED excused
     \/ /\ Head(modeChan) # mode \* buildDSPChain fails
        /\ excused' = excused \cup {"race"}
        /\ UNCHANGED <<mode, filtered, partial, joined>>
  /\ UNCHANGED <<ppc, hand, stop, flushChan, queueVars, wasOpen, cut, stale>>
  /\ pipeUnchanged

SelectFlush ==
  /\ ppc = "select" /\ flushChan
  /\ flushChan' = FALSE /\ ppc' = "drainIQ"
  /\ UNCHANGED <<hand, stop, modeChan, queueVars, chainVars, historyVars>>
  /\ pipeUnchanged

(* Mutant: a flush resets the chain but leaves what is queued.             *)
FlushDrain_Keeps ==
  /\ ppc = "drainIQ"
  /\ ppc' = "baseline" /\ ChainReset /\ cut' = TRUE /\ stale' = 0
  /\ UNCHANGED <<hand, stop, flushChan, modeChan, queueVars, mode, wasOpen, excused>>
  /\ pipeUnchanged

(* drainIQ takes one block at a time; then the chain is reset.             *)
FlushDrain ==
  /\ ppc = "drainIQ"
  /\ \/ /\ iqChan # <<>>
        /\ bufPool' = Recycled(Head(iqChan).buf) /\ iqChan' = Tail(iqChan)
        /\ UNCHANGED <<ppc, filtered, partial, joined, cut, stale>>
     \/ /\ iqChan = <<>>
        /\ ppc' = "baseline" /\ ChainReset /\ cut' = TRUE /\ stale' = 0
        /\ UNCHANGED <<bufPool, iqChan>>
  /\ UNCHANGED <<hand, stop, flushChan, modeChan, iqWanted, dropsUnseen, mode,
                 wasOpen, excused>>
  /\ pipeUnchanged

SelectBlock ==
  /\ ppc = "select" /\ iqChan # <<>>
  /\ hand' = <<Head(iqChan)>> /\ iqChan' = Tail(iqChan)
  /\ ppc' = "check"
  /\ UNCHANGED <<stop, flushChan, modeChan, iqWanted, bufPool, dropsUnseen,
                 chainVars, historyVars>>
  /\ pipeUnchanged

(* Mutant: a block skipped after a drop is recycled and converted as well. *)
CheckDrops_FallsThrough ==
  /\ ppc = "check"
  /\ ppc' = "process"
  /\ \/ ~dropsUnseen /\ UNCHANGED <<filtered, partial, joined, bufPool>>
     \/ dropsUnseen /\ ChainReset /\ bufPool' = Recycled(Head(hand).buf)
  /\ dropsUnseen' = FALSE
  /\ UNCHANGED <<hand, stop, flushChan, modeChan, iqWanted, iqChan, mode,
                 wasOpen, historyVars>>
  /\ pipeUnchanged

(* Drops since the last look: reset the chain and skip this block.         *)
CheckDrops ==
  /\ ppc = "check"
  /\ \/ /\ ~dropsUnseen /\ ppc' = "process"
        /\ UNCHANGED <<filtered, partial, joined>>
     \/ /\ dropsUnseen /\ ppc' = "recycle"
        /\ ChainReset
  /\ dropsUnseen' = FALSE
  /\ UNCHANGED <<hand, stop, flushChan, modeChan, iqWanted, iqChan, bufPool,
                 mode, wasOpen, historyVars>>
  /\ pipeUnchanged

processUnchanged ==
  UNCHANGED <<stop, flushChan, modeChan, iqWanted, iqChan, dropsUnseen, mode,
              cut, excused>>

(* The pipeline gives up the block in its hand.                            *)
Release ==
  /\ bufPool' = Recycled(Head(hand).buf) /\ hand' = <<>>
  /\ ppc' = "select"

(* Mutant: the encoder is left alone when the gate shuts.                  *)
Process_NoEncoderReset ==
  /\ ppc = "process"
  /\ Release /\ filtered' = TRUE
  /\ stale' = IF cut /\ Head(hand).freq # tuned THEN stale + 1 ELSE stale
  /\ \E open \in BOOLEAN :
       /\ wasOpen' = open /\ joined' = open
       /\ \/ open /\ partial' \in BOOLEAN
          \/ ~open /\ UNCHANGED partial
  /\ processUnchanged /\ pipeUnchanged

(* The block is converted, its buffer recycled, and the samples filtered,  *)
(* which tells whether the gate is open for it.  When the gate shuts the   *)
(* encoder is emptied once; while it is open the block is encoded, and     *)
(* part of a frame may be left over.                                       *)
Process ==
  /\ ppc = "process"
  /\ Release /\ filtered' = TRUE
  /\ stale' = IF cut /\ Head(hand).freq # tuned THEN stale + 1 ELSE stale
  /\ \E open \in BOOLEAN :
       /\ wasOpen' = open /\ joined' = open
       /\ \/ open /\ partial' \in BOOLEAN
          \/ ~open /\ wasOpen /\ partial' = FALSE
          \/ ~open /\ ~wasOpen /\ UNCHANGED partial
  /\ processUnchanged /\ pipeUnchanged

(* A block that is skipped is only recycled.                               *)
Recycle ==
  /\ ppc = "recycle"
  /\ Release
  /\ UNCHANGED <<stop, flushChan, modeChan, iqWanted, iqChan, dropsUnseen,
                 chainVars, historyVars>>
  /\ pipeUnchanged

(* removeListener for the last one: shut the gate, close stop ...          *)
Stop ==
  /\ ppc # "off" /\ ~stop
  /\ stop' = TRUE /\ iqWanted' = FALSE
  /\ UNCHANGED <<ppc, hand, flushChan, modeChan, iqChan, bufPool, dropsUnseen,
                 chainVars, historyVars>>
  /\ pipeUnchanged

(* ... and drain the queue once the pipeline has returned.                 *)
StopDrain ==
  /\ ppc = "returned" /\ stop
  /\ \/ /\ iqChan # <<>>
        /\ bufPool' = Recycled(Head(iqChan).buf) /\ iqChan' = Tail(iqChan)
        /\ UNCHANGED ppc
     \/ /\ iqChan = <<>> /\ ppc' = "off"
        /\ UNCHANGED <<bufPool, iqChan>>
  /\ UNCHANGED <<hand, stop, flushChan, modeChan, iqWanted, dropsUnseen,
                 chainVars, historyVars>>
  /\ pipeUnchanged

Handle(h) ==
  \/ \E f \in Freqs : SetFreqStore(h, f)
  \/ \E m \in Modes : SetModeStore(h, m)
  \/ SetFreqTune(h) \/ SetFreqNotify(h)
  \/ ReplacePush(h) \/ ReplaceMakeRoom(h) \/ ReplaceAgain(h)

Callback == BeginTransfer \/ CompleteTransfer \/ OnIQ \/ OnIQQueue \/ OnIQDrop

Run ==
  \/ ReadMode \/ Build \/ DrainMode \/ DrainFlush \/ Baseline
  \/ SelectStop \/ SelectMode \/ SelectFlush \/ FlushDrain
  \/ SelectBlock \/ CheckDrops \/ Process \/ Recycle

Next == (\E h \in Handlers : Handle(h)) \/ Callback \/ Run \/ Start \/ Stop \/ StopDrain

Spec == Init /\ [][Next]_vars

-----------------------------------------------------------------------------
Places == {"off", "read", "build", "drainMode", "drainFlush", "baseline",
           "select", "drainIQ", "check", "process", "recycle", "returned"}

TypeOK ==
  /\ hpc \in [Handlers -> {"receive", "tune", "notify", "push", "room", "again"}]
  /\ arg \in [Handlers -> Freqs \cup Modes \cup {None}]
  /\ freqHz \in Freqs /\ tuned \in Freqs
  /\ filling \in Seq(Freqs) /\ filled \in Seq(Freqs) /\ Len(filling) <= 1
  /\ Len(filled) + Len(filling) + Busy <= iqBufCount
  /\ smode \in Modes /\ mode \in Modes
  /\ flushChan \in BOOLEAN
  /\ modeChan \in Seq(Modes) /\ Len(modeChan) <= 1
  /\ cbpc \in {"idle", "queue", "drop"}
  /\ cb \in Seq(Block) /\ Len(cb) = IF cbpc = "idle" THEN 0 ELSE 1
  /\ iqChan \in Seq(Block) /\ Len(iqChan) <= iqChanDepth
  /\ bufPool \in Seq(Bufs) /\ Len(bufPool) <= iqBufPoolDepth
  /\ ppc \in Places
  /\ hand \in Seq(Block)
  /\ Len(hand) = IF ppc \in {"check", "process", "recycle"} THEN 1 ELSE 0
  /\ \A b \in {iqWanted, dropsUnseen, gap, stop, wasOpen, filtered, partial,
               joined, cut} : b \in BOOLEAN
  /\ stale \in Nat /\ excused \subseteq {"race", "start"}

(* A sample buffer has one owner: the free list, the callback, a place in  *)
(* the queue, or the pipeline.  Otherwise the USB thread would overwrite   *)
(* samples that the pipeline has yet to convert.                           *)
BuffersOwned ==
  /\ IsInjective(bufPool)
  /\ \A i, j \in DOMAIN iqChan : iqChan[i].buf = iqChan[j].buf => i = j
  /\ Range(bufPool) \cap (Held(iqChan) \cup Held(cb) \cup Held(hand)) = {}
  /\ Held(iqChan) \cap (Held(cb) \cup Held(hand)) = {}
  /\ Held(cb) \cap Held(hand) = {}

(* A retune is a clean cut: once the pipeline has acted on it, no block    *)
(* that began before it is still heard but those that were in librtlsdr's  *)
(* transfers.  What was queued, here or after a late callback, never adds  *)
(* to them.                                                                *)
RetuneCut == cut => stale <= iqBufCount

(* No mode command is under way, and the last one neither overlapped with  *)
(* another handler's nor failed to build its chain.                        *)
ModeSettled ==
  /\ "race" \notin excused
  /\ \A h \in Handlers : ~InSetMode(h)
  /\ ppc = "select" /\ modeChan = <<>>

(* The mode that Status reports is the mode that is heard, unless the mode *)
(* command arrived while the pipeline was starting.                        *)
ReportedIsReal == ModeSettled /\ "start" \notin excused => mode = smode

(* "samples buffered before the gap get prepended to the next transmission *)
(* as a click" (main.go:1209-1210) cannot happen: the encoder holds part   *)
(* of a frame only of the transmission going on, across resets, rebuilds,  *)
(* retunes and restarts.                                                   *)
CleanTransmission == partial => joined

-----------------------------------------------------------------------------
(* "resets DSP state when it increases, so we don't keep filtering across  *)
(* a discontinuity" (main.go:170-171).                                     *)
NeverAcrossGap == ppc = "process" => ~(filtered /\ Head(hand).gap)

(* "Commands queued while the pipeline was stopped describe a world we     *)
(* already read from state above" (main.go:1164-1165): discarding them at  *)
(* the start loses nothing.                                                *)
StartLosesNothing == ModeSettled => mode = smode
=============================================================================
