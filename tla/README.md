# narrowcast in TLA+

Narrowcast listens to one RTL-SDR dongle, demodulates it and streams audio,
spectrum and status to phones over QUIC datagrams.  These modules model its
concurrent core, its two bridges, the block-wise bookkeeping of its signal chain
and its adaptation to loss.  TLC checks them on small instances, and TLAPS proves
all their safety invariants and action properties for every instance.

Files: `X.tla` is a component, `MCX.tla` and `MCX*.cfg` the instances that TLC
checks, `XProofs.tla` the theorems about it.  `PROJECT.json` lists the runs, the
lines of source every definition stands for, a mutation of the model that breaks
each property, the hazards of the code and the theorems.

## The system

    tuner --USB thread--> onIQ --iqChan--> runPipeline --broadcast--> Writer --> phone
                                               ^                     Writer --> uplink
                                   modeChan, flushChan                            |
                                               |                                  v
                                  handleClient (one per connection)  <-------   relay  --Writer--> phones

| Component | State | Operations | Hard because |
|---|---|---|---|
| `protocol.Writer` (`pkg/protocol/writer.go`) | two bounded queues, `done`, counters | `Send`, `Close`, its goroutine `run` | any number of producers against one consumer with no lock; `SendDatagram` may block for ever |
| narrowcast, connections and listeners (`cmd/narrowcast/main.go`, `pkg/protocol/server.go`) | `listeners`, `pipeMu`, `pipeStop`, `pipeWg`, `subs`, `iqWanted` | connect, Start, Stop, disconnect, shutdown | teardown waits for a goroutine under a mutex while the USB thread goes on |
| narrowcast, IQ path (same file, `pkg/sdr`) | `iqChan`, `bufPool`, `dropCount`, the DSP chain's memory, the encoder's partial frame | `onIQ`, the select loop of `runPipeline`, retune, mode change | buffers are recycled between threads; resets must hit the right block; commands race with start and rebuild |
| narrowcast, adaptation (same file) | last report, bitrate, FFT interval, send counters | a mark every second, a quality report | hysteresis over two reports; reports and marks are lost, shed and overtaken |
| relay (`cmd/relay/main.go`) | `clients` by remote address, `upstream` | uplink and client come and go, commands go up, traffic is fanned out | replacement of uplinks, state read under a lock and used after it, keys that are reused |
| uplink (`cmd/uplink/main.go`) | two connections and their Writers, a backoff | resolve, dial, authenticate, bridge, reconnect | single datagrams decide about a handshake; either side may die at any step |
| DSP chain, Opus framing (`buildDSPChain`, `demodBlock`, `pkg/dsp`, `pkg/audio`) | filter tails and phases, gate with hang time, fine tuner, partial frames | one block in, some samples or frames out | blocks, windows and frames have different sizes; resets and retunes come between any two blocks |
| configuration (`pkg/config`) | - | `Validate` | divisibility of sample rates |
| Apple client (`clients/apple`) | session state, loss counters, jitter buffer | connect, switch server, receive, report | counters that restart, datagrams that overtake a mark, callbacks that come too late |

What makes each correct: a Writer never makes its caller wait and loses only
what it counts, oldest first and in order; there is one pipeline while somebody
listens and none otherwise; sample buffers have one owner; a retune, a drop and
the end of a transmission cut the audio cleanly; however the stream is cut into
blocks, the same samples come out; what status reports is what is heard; the
relay streams to whoever asked and stops when all have gone; the uplink bridges
only to a relay that accepted it, closes what it opened and comes back by itself;
the client reports loss where there is loss, and only a loss that lasts lowers
the rates.

## What is modelled now

### Writer, LossyChannel

One datagram is the n-th that its producer sent in its class.  The two queues
are `q["hi"]` and `q["lo"]`.  A `Send` is up to four steps, because `offer` is
three separate selects: `Send` (choose the queue), `OfferPush`, `OfferMakeRoom`,
`OfferAgain`.  The goroutine `run` is `Stop`, `FindHiEmpty` (the default of the
first select), `TakeHi`, `TakeLo`, `Emit`.  The connection has `QuicDepth` free
places and either drains (`Drain`) or dies (`Die`); `Emit` waits for room or
returns an error.

`LossyChannel` is what a receiver may rely on: per producer and class, in order,
no repetition, gaps allowed.  `InOrder` says that the Writer implements it (the
refinement mapping is the identity on `sent` and `handed`).

Left out: the early return for an empty datagram, the `errs` counter and the
logging.  `w.drops.Add(1)` is one step with the select before it; nobody reads
the counter in between except `Stats`.

### Lifecycle

One goroutine per connection: `Connect`, `AddSubscriber`, `RecvStart`,
`RecvStop`, `RecvError`, then the deferred calls down to `RemoveSubscriber`.
`AddListener` and `RemoveListener` are one step each, since nothing inside their
critical section waits; the last one out takes `RemoveLast`, `PipeWait`
(`pipeWg.Wait`) and `DrainIQ` with `pipeMu` held.  A pipeline goroutine builds
its chain or fails to (`PipeBuild`), takes blocks, and returns when its stop
channel is closed or the context is done.  `OnIQGate` and `OnIQQueue` are the
two halves of the callback: the gate may shut between them.  `Runs` are names
for goroutines alive at a time, reused, as the slots `Conns` are.  `w.Close`
happens together with `RemoveSubscriber`, as the two touch nothing in common.

### Pipeline

librtlsdr keeps `iqBufCount` transfers in flight: one fills (`BeginTransfer`,
`CompleteTransfer`), full ones wait in order, and the callback takes one at a
time.  So when a flush empties the queue, blocks of the old frequency may still
wait in the driver and be heard after it: up to 12, or 240 ms.  `RetuneCut` says
that there are no others.  `OnIQ` (copy into a buffer of the free list or a new
one), `OnIQQueue`, `OnIQDrop` are the callback; `SetFreqStore`, `SetFreqTune`,
`SetFreqNotify` and `SetModeStore`, `ReplacePush`, `ReplaceMakeRoom`,
`ReplaceAgain` are the handlers' commands; the rest is `runPipeline` from
`ReadMode` to `SelectStop`.  A block
is the buffer it is in, the frequency at which the tuner began to fill it, and
whether blocks were dropped just before it.  Of the DSP chain the model keeps
whether its filters remember samples (`filtered`) and whether the encoder holds
part of a frame (`partial`); whether the gate opens is a free choice for each
block.  Who may start and stop a pipeline is the subject of Lifecycle; here
`Start`, `Stop` and `StopDrain` come at any time.

Merged: counting a drop and recycling the buffer (`OnIQDrop`), recycling after
conversion and the filtering, gating and encoding that follow (`Process`: after
the recycling all of it is the goroutine's own).  Left out: quality reports,
`SetSquelch` and `SetGain`, the periodic datagrams, the capacity test in
`takeBuf` (all blocks have one size), the `continue` for an empty filter output
(a block is always longer than the decimation).  The three documented modes are
the inputs of `SetMode`.

History variables, which no guard of the code reads: `gap`, `joined`, `cut`,
`stale`, `excused`.

### Relay

An uplink is `RegisterUplink` (replacing and closing the one before), the
fan-out loop, `ClearUplink`.  A client is `RegisterClient`, `Receive` (a Start or
a Stop; the upstream is read under the lock), `Forward` (and used without it),
`DeleteClient` (under the lock: forget, count, read the upstream), `SendStop`
(without it).  The far end, that is uplink and narrowcast, is `ServerCommand`
and `BridgeDown`; it takes any command that is under way, so commands overtake
each other as QUIC datagrams do, or are lost (`Lose`), and any connection may
die (`Die`).

The relay forwards whatever a client sends, so the Stop of one client ends the
stream of all (`cmd/testclient/main.go:75` sends one; the app avoids it on relays
for that reason, `ConnectionViewModel.swift:216-219`).  And the server acts on the
command that it sees last.  Neither is something the relay could prevent, so
`ClientsStreamedTo` says what it does promise: once the newest command sent to the
uplink has arrived, in order, a client that sent Start is streamed to, unless
that command was another client's Stop or the Stop of a client that left when no
other was registered.  `IdleWhenAlone` excepts a newest command that was lost or
handed over before an older one.
Clients are keyed by remote address and, with `AddrReuse`, a new one may come
from the address of one whose goroutine has not ended.  `SendUp` is what module
Writer shows of `Send` when producers do not race: bounded, oldest shed.  A
connection whose first datagram does not come or is refused leaves no trace and
is no action.  The contents of the fan-out are not modelled.

History variables: `started`, `alone`, `outdated`, `newest`.

### Uplink

`main` and `run` are one goroutine, whose place is `pc`: `Resolve` and
`ResolveAgain` (both resolvers fail, wait, double the wait), `DialRelay`,
`DialFails`, `Redial`, `DialLocal`, `SendUplink`, `AuthReply`, `StartBridge`, the
error returns (`StepFails`, `LocalFails`), `BridgeEnds`, `Return` with its deferred
closes, `Reconnect`, and `Cancelled` wherever a `select` watches the context.
The two forwarding goroutines are `PumpCommand` (relay to narrowcast) and
`PumpEnds`; `bridging` is their shared context.  The relay's goroutine of an
uplink connection (`Relay`) and narrowcast's of a local one (`Server`) are here
as far as they touch the bridge: registration and replacement, AuthOK and
AuthFail, Start, and the removal that follows a dead connection.  Up to
`MaxFaults` times the network fails (`Outage`), a connection dies (`Die`), or a
datagram is lost (`Lose`) or overtaken (`Overtake`).

Relay models the same relay with its clients in full and an uplink as a black
box; Uplink does the reverse.  The composition of both sides at their full detail is
left out: what they share is the upstream connection and the commands on it,
and both models have those.

### OverlapSave, Chain

`OverlapSave` is the bookkeeping that all filters of `pkg/dsp/fir.go` share.  A
sample is the position of the newest raw sample it was computed from; an output
is `Glitch` if the filter did not see exactly the samples before it.  So a
property about positions says which samples were used, and nothing about taps.

`Chain` is one pipeline block by block.  `Block` is all of `demodBlock`, the gate
and the encoder: channel filter, squelch on the level of the block, for AM the
search for the carrier (`TrackCarrier`), fine tuner, voice filter and noise
reducer, for FM the audio filter; then AGC, `Encode` or the encoder's `Reset`.
`Dropped` and `Flush` reset the chain as the drop counter and the flush channel
do, `Rebuild` replaces it on a change of mode.  `XlatDecim` and `AudioDecim` are
the arithmetic of `buildDSPChain` under the rules of `config.Validate`
(`RateAssumption`).  `SetFrequency` and `Notify` are two steps of a handler, and
blocks pass between them.

AM is modelled with noise reduction and carrier tracking on, their defaults.
The smoothed level, and the carrier that a scan of the spectrum finds, are free
choices; they are the only places where the arithmetic would decide about
control.  libopus refuses any frame at any call, as often as it likes (`Encode`).

Of the AM AGC the model keeps whose level its gain and its hang counter come
from, and `fastCounter`.  `Restart` keeps the gain that the last transmission left
and opens a window of 150 ms in which it moves at attack speed both ways;
`FindsTheStation` says that every transmission that meets an earlier one's gain
gets that window in full, with no hang of the earlier one to hold it.
`TunedWithinChannel` is about the search window of the channel: an offset found
for another channel passes if it fits this one's.

### Quality

The loop of adaptation.  A `Second` is what the server counts and the client
receives between two marks; its mark arrives (`MarkArrives`, which is
`observeSeqMark` and the sending of its report) or is lost.  A mark overtakes
spectra in the Writer, where they wait in the other queue, and spectra and audio
on the network; what it overtook arrives in the next second (`late`).  A report
says what was missing when its mark came, and the client cannot tell lost from
late; that is what `ReportIsTrue` states.  `CmdQualityReport` and `ReportLost` take
any report off the wire, so reports overtake each other; `Adapt` is the
`qualityChan` case of `runPipeline`, `Rebuild` a change of mode, `Restart` a Stop
and a Start.  Audio sent after the last mark before a restart is left out, and
counters do not reach 2^32.

History variables: `window`, `lossy`, `fftLost`, `disturbed`, `before`, and the
`truth` and `exact` of a report.

## The runs

| Run | Instance | Shows |
|---|---|---|
| `writer` | a pipeline sending 4 and a handler sending 1, queues of 2 and 1, 1 place in the connection | `OneOvertake`, `LossCounted`, `NewestKept`, `InOrder`, `SendReturns`, `StopsAfterClose` |
| `writer_loss` | the same | violates `OneLossPerDrop` |
| `lifecycle` | 3 connections, 2 pipeline names, queue of 2 | `OnePipeline`, `CountExact`, `IdleIsQuiet`, `ListenersServed`, `LeaversLeave` |
| `pipeline` | 1 handler, 2 frequencies, 2 transfers in flight, queue of 1, free list of 1, 4 buffers | `BuffersOwned`, `RetuneCut`, `CleanTransmission` |
| `pipeline_mode` | 2 handlers, 2 modes, 1 transfer, queue of 1 | `ReportedIsReal` |
| `pipeline_gap` | 1 handler, queue of 2 | violates `NeverAcrossGap` |
| `pipeline_start` | 1 handler, 2 modes | violates `StartLosesNothing` |
| `relay` | 2 uplinks, 2 clients, 2 addresses with reuse, queue of 2 | `OneUpstream`, `ClientsStreamedTo`, `IdleWhenAlone` |
| `relay_stop` | the same without reuse | violates `StopOnlyWhenAlone` |
| `uplink` | 2 slots for connections on either side, 1 command under way, 2 faults | `BridgesAccepted`, `NothingLeftOpen`, `AbandonedStops`, `SignalEnds`, `Rebridges` |
| `chain` | blocks of 3 and 9, rates 24, 6 and 3, filters of 4, 3 and 2 taps, windows of 4, frames of 2, a fast window of 3 | `FramesContinuous`, `EncoderKeepsUp`, `FindsTheStation`, `TunedWithinChannel`, `ClosesAfterHang` |
| `quality` | 4 seconds of 20 audio datagrams, of which 15 may be lost and 6 late, and 10 spectra, 2 reports on the way, `qualityChan` of 2 | `ReportIsTrue`, `SpikeIgnored`, `OvertakingIgnored`, `LossHeard`, `EncoderAsDecided` |

Each passing run checks its module's `TypeOK` too, except that the one for the
modes leaves it to `pipeline`.

Why the bounds are enough for the cases in question:

- *Writer.*  Four sends overflow a queue of two by themselves, twice; the fifth,
  from another goroutine, can take the slot that was just freed.  More producers
  add contention of the same kind.  `MaxSend` is the only bound on behaviour.
- *Lifecycle.*  Unbounded: connections come and go for ever.  Three of them allow
  one tearing down, one waiting for the mutex and one arriving.
- *Pipeline.*  Unbounded in time.  The code's queue of 8, free list and transfers
  of 12 are 1, 1 and 2 (one fills while another waits for the callback; the run
  for the modes, where blocks do not matter, has one): full, empty and shedding
  all occur, and so does a buffer in each of the four places.  `Bufs` has two more than the queue and the free list can
  hold, one for the callback and one for the pipeline, so allocation never fails
  (`BufAssumption`).  Symmetry in buffers and handlers is used in these runs,
  which check invariants only.
- *Relay.*  Unbounded in time.  Two uplinks replace each other, two clients leave
  and arrive at once; a queue of two overflows with Start, Stop, Start, and is
  the least in which one command overtakes another.
- *Uplink.*  Unbounded in time but for the faults.  Two slots on either side let
  a new `run` meet a connection of the last one that the far end still holds,
  and register before or after its removal.  Two faults allow a lost answer
  followed by an outage, and a fault in the recovery from one; each further one
  starts from a state that was reached before.  Key right and key wrong are two
  initial states.
- *Chain.*  Scaled down so that the ratios keep their shape: FM decimates by 4
  and 2 where Nyquist alone would allow 3, AM by 2 and 2; neither block length
  is a multiple of a decimation, a hop or a frame, and either is shorter or
  longer than each of them.  33 raw samples between two resets are three long
  blocks and more, or eleven short ones: every carry, phase and partial frame is met.
  The hang time lies between one short and one long block;
  the fast window ends within the second or third block of a transmission.
- *Quality.*  Four seconds are the fewest in which two bad windows, one lost mark
  and a good one fit.  A loss of 15 in 20 is beyond the last threshold, of 3
  spectra in 10 too, and so are 6 late; with a lost mark the same loss is spread
  over more.  Two places in `qualityChan` and two reports on the way let a report
  be replaced and one overtake another.

### What the properties except

Where the code itself has no answer to a hazard, a property says what holds apart
from it, and names the exception:

- `ListenersServed`: a pipeline whose `buildDSPChain` failed; its listeners stay
  counted and get nothing until all have left.
- `ReportedIsReal`: two `SetMode` that overlap, and one discarded at a start.
- `ClientsStreamedTo`, `IdleWhenAlone`: see Relay above.
- `Rebridges`: an AuthOK that was lost, see Fairness below.

### Fairness

- `Writer!FairSpec`: each producer's steps, as Go schedules goroutines and no
  select of `offer` waits.  `SendReturns` needs nothing of the writer goroutine
  or the connection.  `StopsAfterClose` states its own assumption: the goroutine
  runs and the connection drains or dies, which QUIC's idle timeout ensures.
- `Lifecycle!FairSpec`: strong for a handler, which may wait for `pipeMu`
  (a starving waiter of `sync.Mutex` is handed the lock), and strong for the
  pipeline's return (a Go select picks among ready cases at random, so a closed
  stop channel is not passed over for ever).  Nothing is assumed of the callback,
  the peers or the shutdown.
- `Relay!FairSpec`: weak for each goroutine and for the far end: a datagram that
  is not lost arrives, a dead connection is noticed.
- `Uplink!FairSpec`: weak for `run`, the forwarding goroutines and the two far
  ends: goroutines are scheduled, dials and lookups are answered once the
  network works, keepalive and idle timeout notice a dead connection; an outage
  ends.  Clients, faults and the signal need never come.  `Rebridges` says under
  which condition the bridge is up for good: if the one AuthOK was lost, only a
  client's command gets the uplink out of its wait, which has no timeout.
- Chain and Quality state no fairness: their properties are about every block
  and every report.

### Where the code and its own account differ

- `writer.go:151-153` says that a full queue loses exactly one datagram; two
  producers can lose two and count one (`writer_loss`).  `LossCounted` is the bound
  that holds.
- `main.go:170-171` and the README say that the DSP state is reset at a
  discontinuity.  The reset happens when the next block is taken from the full
  queue, which lies before the gap; the gap itself is then crossed without one
  (`pipeline_gap`).
- `main.go:1164-1165` says that commands pending at the start are known already.
  One that arrives while the chain is being built is dropped (`pipeline_start`):
  status reports a mode nobody hears until the next change.
- `docs/PROTOCOL.md:218` says Stop is for when no one is listening.  The relay
  sends it after giving up the lock, possibly behind a new client's Start
  (`relay_stop`), and the app sends Start only once.  `ClientsStreamedTo` is what
  holds when that is excepted (`alone`, `newest`).

Further differences, too small or too far from the models for a run of their own:

- `main.go:897` takes the smallest divisor of the total decimation at or above
  what Nyquist allows; for rates that `Validate` accepts and that have few
  divisors (816000, 912000, 1104000, 1248000) it is so large that wide FM is left
  with 48 kHz for its 200 kHz channel.
- `main.go:1256-1258`: the reports of all clients share one `prevLoss`, so a
  client without loss hides another's, and two clients with one bad second each
  step the rates down.  `main.go:1183` says "two consecutive bad reports"; they
  are consecutive in `qualityChan`, not in time, when one between was shed.
- `main.go:1422-1427` says that the old gain is not carried over, and
  `demod.go:317-318` that the AGC restarts "at each squelch opening".  `Restart` keeps
  the gain and only opens the fast window, in which it converges.  After a reset
  or rebuild in the middle of a transmission `wasOpen` is still true, and no
  window is opened when the squelch opens again; the AGC was reset to a gain of 1
  then, so it is not an earlier station's gain that it eases off
  (`FindsTheStation`).
- `main.go:849-851` says that speech is never learned as noise; a window of the
  noise reducer that straddles the opening of the gate is judged by the block
  that completes it.
- `NarrowcastClient.swift:287-289` says that the server falls back to full quality
  when no reports arrive; it keeps the last rates.
- `docs/DEPLOYMENT.md:160` gives the backoff as 1 to 30 seconds; the lookup's reaches
  32 and the dial's stops at 16 (`Uplink!TypeOK`).
- `docs/PROTOCOL.md:47` has four steps of bitrate, `README.md:81` three; the code has
  four, and for a configured bitrate below 16000 the first report raises it to
  the floor.
- `protocol.go:70` calls commands reliable stream messages; they are datagrams, and
  are lost like others.
- `opus.go:100-106`: frames encoded before a refused one in the same call are
  discarded with it.

## What is proved

Every safety invariant and every action property that a run checks is also a
theorem.  The theorems hold for every value of the constants allowed by the named
assumptions, which are: depths are positive numbers; producers are finitely
many, and those of spectrum are among them (`ProducerAssumption`); `None` is no
connection or run; uplinks are not clients, connections to the relay are not
connections to narrowcast; rates and the configured bitrate
are numbers; filters, windows and frames have a length, a block has one of some set
of lengths; thresholds, levels and carriers are integers; and sample rates are
what `config.Validate` accepts (`RateAssumption`: the audio rate divides the
sample rate, and the sample rate is at least twice the bandwidth).  That the
buffers suffice (`BufAssumption`) is for TLC; no proof needs it.

| Module | Theorem | Argument |
|---|---|---|
| WriterProofs | `TypeCorrect` | `TypeOK` is inductive |
| | `AudioDelayBounded` (`OneOvertake`) | with `Prompt`: the goroutine is between its selects only when nothing has been overtaken, so the one spectrum frame it may take there is the first |
| | `WriterIsLossyChannel` (`InOrder`) | with `Ordered`: of one producer and class, handed over < in hand < queued, in queue order < being offered.  Each action keeps it, by lemmas about `Append` and `Tail`; then a step maps to `Accept`, `Deliver` or a stutter |
| | `ShedsOldest` (`NewestKept`) | with `Shed`: an offer that has made room finds room, unless somebody else sends in its class and may have taken it |
| | `LossIsCounted` (`LossCounted`) | what is lost is a sum over producers (sent, minus queued, in hand, handed over and being offered).  `ChargedStep` says how much each step may lose against what it adds to `drops` and to the offers that have made room; that the sum moves with the producer that moves is an induction over the producers |
| LifecycleProofs | `TypeCorrect` | inductive |
| | `AtMostOnePipeline` (`OnePipeline`) | with `Exclusive`: a pipeline is alive only while listeners are counted or somebody holds `pipeMu` waiting for it, so the first listener finds none |
| | `ListenersCounted` (`CountExact`) | with `CountInv`: the set of registered connections is finite and a handler adds or removes itself exactly when it moves the counter |
| | `ListenersAreServed` (`ListenersServed`) | with `Served`, which needs no lock: the first listener starts the pipeline it is counted for, and only the last one out cancels it |
| | `QuietWhenIdle` (`IdleIsQuiet`) | with `Silent` and `Exclusive`: the gate is shut before the teardown drains the queue, so only a block already past it can follow |
| RelayProofs | `TypeCorrect` | inductive |
| | `UpstreamUnique` (`OneUpstream`) | inductive together with `TypeOK` and the fact that a client's goroutine is never in the fan-out loop |
| | `StartedIsStreamedTo` (`ClientsStreamedTo`) | with `StreamInv`: an uplink somebody started is alive; whoever is about to send Stop was alone when it left; and the newest command, if it is no Stop that the property excepts, is a Start that is the last one under way, or has been seen or lost, and if it was seen last the server listens |
| PipelineProofs | `TypeCorrect`, `BuffersHaveOneOwner` (`BuffersOwned`) | together inductive, split into commands, flags and `Queues`: every action that moves a block is one of a few moves (take, append, recycle the head, release the hand), each with its lemma, or leaves all four places alone |
| | `RetuneIsClean` (`RetuneCut`) | with `CutInv`: after the flush an old block with k others before it, in hand, queue, callback and transfers, has `stale + k < iqBufCount`.  A step moves blocks forward or drops them, and what begins to fill is of the new frequency, so it never gets worse |
| | `NoOldSamples` (`CleanTransmission`) | with `GateInv`: part of a frame is left over only while `wasOpen` |
| | `StatusIsTrue` (`ReportedIsReal`) | with `ModeInv`: without overlap one handler at most is inside `replace`, with the mode that status reports; when none is, that mode is in `modeChan` or is the chain's |
| UplinkProofs | `TypeCorrect` | inductive |
| | `NoLeak` (`NothingLeftOpen`) | inductive with `TypeOK`: a connection is alive only while `run` holds it |
| | `OnlyAccepted` (`BridgesAccepted`) | AuthOK is under way or believed only on a connection that the relay accepted, which it does only if the keys match; a slot is dialled again only after both ends let it go |
| OverlapSaveProofs | `SavedAlike`, `FilteredAlike` | two blocks filtered one after the other give the outputs, and leave the carry and phase, of both as one, for any taps, decimation and lengths: the window of the second is the end of the window of both (`WindowTail`), and the quotient and remainder split (`DivSplit`).  By repetition it holds for any number of blocks |
| | `ExactStream` | a filter that has taken n samples of a stream (`InStream`: its carry is the last `taps - 1` of them, its phase n modulo the decimation) puts out exactly the outputs that fall on the next ones |
| ChainProofs | `TypeCorrect` | `Streams` (below) and what each step writes |
| | `OneUnbrokenStream` (`FramesContinuous`), `NothingHeldBack` (`EncoderKeepsUp`) | with `GateInv`, in three layers.  `Streams`: each filter is `InStream` of what the one before it put out, by `ExactStream`, and the noise reducer's buffers are those that all full windows of the samples so far leave (`InReducer`, by `AnalyseOnce` for a window and an induction over the windows of a block); `Decimations` shows that the two decimations of `buildDSPChain` multiply to the total one.  `SoundIs`: so a block puts out the samples that come next.  `EncodeStep`: what is broadcast and what waits are pieces of one stream; either every frame is taken, or those up to the refused one, at least one, and only later samples stay behind |
| | `HoldsForTheHangTime` (`ClosesAfterHang`) | with `HangInv`: while the gate is open the hang time is split into what was quiet and what is left |
| | `StationIsFound` (`FindsTheStation`) | inductive with the types of `agc` (`AGCInv`, `AGCStep`): a gain becomes an earlier transmission's only when the gate shuts, and the next opening arms the window and drops the hang; a fresh or reset AGC has neither |
| | `StandsOnItsChannel` (`TunedWithinChannel`) | with `TunerInv`: while a retune is under way nothing is promised, and the flush that ends it resets the offset |
| QualityProofs | `TypeCorrect` | with `Typed`: what arrived and was lost never exceeds what was sent |
| | `EncoderFollows` (`EncoderAsDecided`) | inductive |
| | `OneSpikeIgnored` (`SpikeIgnored`) | with `SpikeInv`: a bad second shows in one place at a time (window, wire, `qualityChan`, `prevLoss`), a step moves it or drops it, so two bad places are two bad seconds; and whatever the client lacks was lost in its window or is late |
| | `ReportsAreTrue` (`ReportIsTrue`), `LossIsHeard` (`LossHeard`) | with `HonestInv`: the books of the client balance against those of the server, also across a restart, where the server's window is the shorter (`PctOfFewer`: that can only lower the percentage) |
| | `OvertakingIsIgnored` (`OvertakingIgnored`) | with `OvertakeInv`: of the spectra since the last mark that arrived, as many arrived or are late, and one more if the last report missed one; so no two reports in a row miss one |

Only model-checked: all liveness (`SendReturns`, `StopsAfterClose`,
`LeaversLeave`, `IdleWhenAlone`, `AbandonedStops`, `SignalEnds`, `Rebridges`).
Fairness is ENABLED underneath, which the prover does not reason about.

Induction over data.  The library's induction theorems cannot be instantiated
here, but a set of naturals that is not empty has a least element (lemma
`Least`, from well-foundedness), and the smallest argument for which a claim
about a recursive function fails is a contradiction.  The sum over producers in
`LossIsCounted`, the windows of `AnalyseAll` and the concatenation of frames are
done this way; so `AnalyseAll` is a recursive function in Chain, not a fold.

## Not modelled, and why

- *Numerics.*  Filter design, demodulators, IIR filters, FFT, noise estimate, gain
  curves and the DC blocker are floating point.  What they decide about control (level,
  carrier, refused frame) is a free choice in Chain.
- *The Apple client's session.*  It is a state machine of Swift actors, main-actor
  tasks and callbacks of Network.framework.  Which task runs between two awaits
  is decided by a runtime that is not in the repository, and a model would rest
  on guesses about it.  Its handling of marks and reports is in Quality.
- *Playout.*  Concealment, jitter buffer and engine pauses are driven by the clock and
  the completion callbacks of AVAudioEngine, whose order the repository does not
  document.
- *Libraries and I/O.*  quic-go appears only as a bounded queue that drains or a
  connection that dies; TLS, libopus and the device drivers not at all.
  `SetGain` goes straight to the device.
- Encoding of single datagrams, flag parsing, user interface, key-value stores,
  command-line probes, installation scripts and the squelch calibrator (a
  statistic of meter readings): no state that anything here depends on.

## What could come next

The relay and the uplink composed in one instance, with both sides in full; several
clients in Quality, once the code keeps a `prevLoss` for each.
