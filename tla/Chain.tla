------------------------------- MODULE Chain --------------------------------
(***************************************************************************)
(* One pipeline's DSP chain, block by block (cmd/narrowcast/main.go        *)
(* demodBlock, trackCarrier, Reset and the gate of runPipeline; the        *)
(* framing of pkg/dsp and pkg/audio).                                      *)
(*                                                                         *)
(* Samples are positions, as in OverlapSave, counted from the last Reset.  *)
(* The squelch's smoothed level and the carrier that a scan finds may be   *)
(* anything.                                                               *)
(***************************************************************************)
EXTENDS OverlapSave, SequencesExt

CONSTANTS
  BlockLens,    \* lengths of blocks of raw IQ
  MaxFed,       \* bound: raw samples between two Resets
  sampleRate, ChannelBandwidth, AudioRate,  \* the rates, the last two by mode
  xlatTaps,     \* the channel filter
  audioTaps,    \* audio decimation: RealFIRFilter (FM), FineTuner (AM)
  voiceTaps,    \* the voice low-pass of AM, which does not decimate
  hop,          \* half a window of the noise reducer (128 in the code)
  frameSize,    \* audio samples in an Opus frame
  Levels, Thresholds, cfgSquelchDb, hysteresis, hangSamples,  \* squelch, dB and samples
  fastSamples,  \* restartFastConvergeMs, in audio samples
  Channels,     \* frequencies one may tune to
  Carriers      \* offsets at which a scan may find a carrier

Modes == {"FM", "AM"}

ASSUME RateAssumption ==  \* config.Validate
  /\ sampleRate \in Nat \ {0}
  /\ ChannelBandwidth \in [Modes -> Nat \ {0}] /\ AudioRate \in [Modes -> Nat \ {0}]
  /\ \A m \in Modes :
       /\ sampleRate % AudioRate[m] = 0
       /\ sampleRate >= 2 * ChannelBandwidth[m]
       /\ AudioRate[m] <= 2 * ChannelBandwidth[m]  \* true of the three modes
ASSUME TapAssumption == {xlatTaps, audioTaps, voiceTaps, hop, frameSize} \subseteq Nat \ {0}
ASSUME BlockAssumption ==
  BlockLens \subseteq Nat \ {0} /\ BlockLens # {} /\ MaxFed \in Nat
ASSUME LevelAssumption ==
  /\ Levels \subseteq Int /\ cfgSquelchDb \in Thresholds /\ Thresholds \subseteq Int
  /\ hysteresis \in Nat /\ hangSamples \in Nat /\ fastSamples \in Nat
ASSUME CarrierAssumption == Channels \subseteq Nat /\ Carriers \subseteq Int

VARIABLES
  mode,       \* "FM" or "AM": which stages the chain has
  fed,        \* history: raw samples since the last Reset
  xlat, audio, voice,  \* overlapSave of the three filters
  nr,         \* buffers of the noise reducer
  squelch,    \* dsp.Squelch
  tuner,      \* offset of the fine tuner, pendingOffset
  opusBuf,    \* samples that wait in the encoder
  packets,    \* frames the last block broadcast
  wasOpen,    \* the gate at the last block that had audio
  agc,        \* AudioAGC of AM: which transmission its gain and its hang
              \* counter come from, and fastCounter
  heard,      \* history: samples the AGC was given since the gate opened, up
              \* to fastSamples
  quiet,      \* history: samples below the close level since the level last
              \* was at the threshold
  squelchDb, tunedHz,  \* commands, in serverState
  retuning,   \* a handler has stored tunedHz and not yet called notify
  flush       \* flushChan holds a signal

TotalDecim == [m \in Modes |-> sampleRate \div AudioRate[m]]

MinXlatDecim == [m \in Modes |-> Max({1, sampleRate \div (ChannelBandwidth[m] * 2)})]

(* Mutant: the smallest decimation, whether or not it divides the total.   *)
XlatDecim_Any == MinXlatDecim

(* buildDSPChain: the smallest divisor of the total decimation that is at  *)
(* least the one that Nyquist would allow; the rest is left to the audio.  *)
XlatDecim ==
  [m \in Modes |-> Min({d \in MinXlatDecim[m] .. TotalDecim[m] : TotalDecim[m] % d = 0})]

AudioDecim == [m \in Modes |-> TotalDecim[m] \div XlatDecim[m]]

filters == <<xlat, audio, voice, nr>>
gateVars == <<opusBuf, packets, wasOpen, agc, heard>>
commandVars == <<squelchDb, tunedHz, retuning, flush>>
vars == <<mode, fed, filters, squelch, tuner, gateVars, quiet, commandVars>>

-----------------------------------------------------------------------------
(* SpectralNR: windows of 2 * hop samples, one every hop samples, are      *)
(* transformed and added up again.  An element of outBuf lists what was    *)
(* added there: when complete, one sample twice (once only in the first    *)
(* hop, where nothing came before).                                        *)
fftSize == 2 * hop
FreshNR == [inBuf |-> <<>>, outBuf |-> <<>>, allocated |-> FALSE]

Grown(buf) ==
  LET need == IF Len(buf) + hop < fftSize THEN fftSize ELSE Len(buf) + hop
  IN  [i \in 1 .. need |-> IF i <= Len(buf) THEN buf[i] ELSE <<>>]

Analyse(state) ==
  LET buf == Grown(state.outBuf)
      base == Len(buf) - fftSize
  IN  [inBuf |-> SubSeq(state.inBuf, hop + 1, Len(state.inBuf)),
       outBuf |-> [i \in DOMAIN buf |->
          IF i > base THEN Append(buf[i], state.inBuf[i - base]) ELSE buf[i]],
       ready |-> state.ready + hop]

(* What is emitted of the sum, in audio samples `stride' positions apart.  *)
Emitted(parts, stride) ==
  LET x == Head(parts)
  IN  IF parts = <<x, x>> \/ (parts = <<x>> /\ x <= hop * stride) THEN x ELSE Glitch

(* Mutant: a block is taken to fill one window at most.                    *)
AnalyseAll_One(in) ==
  LET buf == nr.inBuf \o in
      state == [inBuf |-> buf, outBuf |-> nr.outBuf, ready |-> 0]
  IN  IF Len(buf) < fftSize THEN state ELSE Analyse(state)

(* The windows that are full are analysed one after the other.             *)
AnalyseAll(in) ==
  LET buf == nr.inBuf \o in
      windows == IF Len(buf) < fftSize THEN 0 ELSE (Len(buf) - fftSize) \div hop + 1
      after[k \in 0 .. windows] ==
        IF k = 0 THEN [inBuf |-> buf, outBuf |-> nr.outBuf, ready |-> 0]
        ELSE Analyse(after[k - 1])
  IN  after[windows]

-----------------------------------------------------------------------------
(* The squelch.  Before its first block it has no level.                   *)
FreshSquelch(db) == [threshold |-> db, level |-> 0, seeded |-> FALSE, open |-> FALSE,
                     hangLeft |-> 0]

SetThreshold(s, db) ==
  IF db # s.threshold /\ s.seeded /\ s.level < db
  THEN [s EXCEPT !.threshold = db, !.open = FALSE, !.hangLeft = 0]
  ELSE [s EXCEPT !.threshold = db]

(* Mutant: a block in the hysteresis band gives the hang time back.        *)
Update_BandRefills(s, level, samples) ==
  LET t == [s EXCEPT !.level = level, !.seeded = TRUE]
      left == s.hangLeft - samples
  IN  IF level >= s.threshold \/ (s.open /\ level >= s.threshold - hysteresis)
        THEN [t EXCEPT !.open = TRUE, !.hangLeft = hangSamples]
      ELSE IF ~s.open THEN t
      ELSE IF left <= 0 THEN [t EXCEPT !.open = FALSE, !.hangLeft = 0]
      ELSE [t EXCEPT !.hangLeft = left]

(* Update, with the level that smoothing makes of the block's power.       *)
Update(s, level, samples) ==
  LET t == [s EXCEPT !.level = level, !.seeded = TRUE]
      left == s.hangLeft - samples
  IN  IF level >= s.threshold
        THEN [t EXCEPT !.open = TRUE, !.hangLeft = hangSamples]
      ELSE IF ~s.open \/ level >= s.threshold - hysteresis THEN t
      ELSE IF left <= 0 THEN [t EXCEPT !.open = FALSE, !.hangLeft = 0]
      ELSE [t EXCEPT !.hangLeft = left]

(* History of the same block.                                              *)
NoteQuiet(s, level, samples) ==
  quiet' = IF level >= s.threshold \/ ~s.open THEN 0
           ELSE IF level >= s.threshold - hysteresis THEN quiet ELSE quiet + samples

-----------------------------------------------------------------------------
(* trackCarrier: believe a carrier that two scans agree on, and move only  *)
(* if it is worth it.                                                      *)
carrierAgreeHz == 600
carrierMoveHz == 400

Airband == 118000000 .. 137000000

(* How far from centre a carrier may be on a 25 kHz channel of the         *)
(* airband, on an 8.33 kHz channel, and elsewhere.                         *)
AirbandSearchHz(freqHz) ==
  IF freqHz \notin Airband THEN 0
  ELSE IF freqHz % 25000 = 0 THEN 10000 ELSE 3500

Distance(x, y) == IF x < y THEN y - x ELSE x - y

FreshTuner == [offset |-> 0, pending |-> 0]

Scanned(t, found) ==
  [offset |-> IF Distance(found, t.pending) <= carrierAgreeHz
                 /\ Distance(found, t.offset) > carrierMoveHz
              THEN found ELSE t.offset,
   pending |-> found]

(* A scan is due or not; it finds some carrier within the window.          *)
TrackCarrier(open) ==
  \/ UNCHANGED tuner
  \/ /\ mode = "AM" /\ open
     /\ AirbandSearchHz(tunedHz) > 0
     /\ \E found \in Carriers :
          /\ Distance(found, 0) <= AirbandSearchHz(tunedHz)
          /\ tuner' = Scanned(tuner, found)

-----------------------------------------------------------------------------
(* OpusEncoder.Encode.  The encoder takes every frame that is complete, or *)
(* refuses one: that one is consumed and ends the call, those behind it    *)
(* wait, and the pipeline drops what the call had encoded before it.       *)
Frames(buf) == [k \in 1 .. Len(buf) \div frameSize |->
                  SubSeq(buf, (k - 1) * frameSize + 1, k * frameSize)]

(* Mutant: a refused frame stays in the buffer.                            *)
Encode_KeepsRefused(samples) ==
  LET buf == opusBuf \o samples
      frames == Frames(buf)
      Left(taken) == SubSeq(buf, taken * frameSize + 1, Len(buf))
  IN  \/ packets' = frames /\ opusBuf' = Left(Len(frames))
      \/ packets' = <<>> /\ \E k \in DOMAIN frames : opusBuf' = Left(k - 1)

Encode(samples) ==
  LET buf == opusBuf \o samples
      frames == Frames(buf)
      Left(taken) == SubSeq(buf, taken * frameSize + 1, Len(buf))
  IN  \/ packets' = frames /\ opusBuf' = Left(Len(frames))
      \/ packets' = <<>> /\ \E refused \in DOMAIN frames : opusBuf' = Left(refused)

-----------------------------------------------------------------------------
(* AudioAGC.  Restart forgets the envelope and the hang, opens the window  *)
(* in which the gain moves at attack speed both ways, and keeps the gain;  *)
(* Reset puts the gain back to 1 and leaves the window.                    *)
FreshAGC == [gain |-> "nothing", hang |-> "nobody", fast |-> 0]

RestartAGC(a) == [a EXCEPT !.hang = "nobody", !.fast = fastSamples]

ResetAGC(a) == [FreshAGC EXCEPT !.fast = a.fast]

(* Process: n samples move the gain, a gain that an earlier transmission   *)
(* left too; a loud one arms the hang, quiet ones use it up.               *)
Processed(a, n) ==
  IF n = 0 THEN {a}
  ELSE {[gain |-> IF a.gain = "nothing" THEN "this" ELSE a.gain, hang |-> whose,
         fast |-> IF a.fast < n THEN 0 ELSE a.fast - n]
          : whose \in {"this", "nobody", a.hang}}

(* History: the squelch is closed, the transmission over.                  *)
Ended(a) == [a EXCEPT !.gain = IF @ = "this" THEN "earlier" ELSE @,
                      !.hang = IF @ = "this" THEN "earlier" ELSE @]

Capped(n) == IF n < fastSamples THEN n ELSE fastSamples

-----------------------------------------------------------------------------
(* Mutant: the AGC is not told of a new transmission.                      *)
Gate_NoRestart(open, samples) ==
  IF open
  THEN /\ wasOpen' = TRUE /\ Encode(samples)
       /\ agc' \in IF mode = "FM" THEN {agc} ELSE Processed(agc, Len(samples))
       /\ heard' = Capped((IF wasOpen THEN heard ELSE 0) + Len(samples))
  ELSE /\ wasOpen' = FALSE /\ agc' = Ended(agc) /\ heard' = 0
       /\ opusBuf' = IF wasOpen THEN <<>> ELSE opusBuf
       /\ packets' = <<>>

(* The gate of runPipeline: a closing gate empties the encoder, an opening *)
(* one restarts the AGC (another one in FM, where that does nothing), an   *)
(* open one encodes.                                                       *)
Gate(open, samples) ==
  IF open
  THEN /\ wasOpen' = TRUE /\ Encode(samples)
       /\ agc' \in IF mode = "FM" THEN {agc}
                   ELSE Processed(IF wasOpen THEN agc ELSE RestartAGC(agc), Len(samples))
       /\ heard' = Capped((IF wasOpen THEN heard ELSE 0) + Len(samples))
  ELSE /\ wasOpen' = FALSE /\ agc' = Ended(agc) /\ heard' = 0
       /\ opusBuf' = IF wasOpen THEN <<>> ELSE opusBuf
       /\ packets' = <<>>

-----------------------------------------------------------------------------
(* buildDSPChain makes a chain whose stages are fresh and whose squelch    *)
(* has the configured threshold.                                           *)
BuildDSPChain(m) ==
  /\ mode' = m /\ fed' = 0
  /\ xlat' = FreshStage(xlatTaps)
  /\ audio' = FreshStage(audioTaps)
  /\ voice' = FreshStage(voiceTaps)
  /\ nr' = FreshNR
  /\ squelch' = FreshSquelch(cfgSquelchDb)
  /\ tuner' = FreshTuner
  /\ opusBuf' = <<>> /\ agc' = FreshAGC /\ quiet' = 0

Init ==
  /\ mode \in Modes /\ fed = 0
  /\ xlat = FreshStage(xlatTaps)
  /\ audio = FreshStage(audioTaps)
  /\ voice = FreshStage(voiceTaps)
  /\ nr = FreshNR
  /\ squelchDb \in Thresholds
  /\ squelch = FreshSquelch(cfgSquelchDb)
  /\ tuner = FreshTuner
  /\ opusBuf = <<>> /\ packets = <<>> /\ wasOpen = FALSE
  /\ agc = FreshAGC /\ heard = 0 /\ quiet = 0
  /\ tunedHz \in Channels /\ retuning = FALSE /\ flush = FALSE

(* Mutant: the fine tuner forgets its samples and keeps its offset.        *)
Reset_KeepsOffset ==
  /\ fed' = 0
  /\ xlat' = FreshStage(xlatTaps)
  /\ audio' = FreshStage(audioTaps)
  /\ voice' = FreshStage(voiceTaps)
  /\ nr' = [FreshNR EXCEPT !.allocated = nr.allocated]
  /\ squelch' = [squelch EXCEPT !.seeded = FALSE, !.open = FALSE, !.hangLeft = 0]
  /\ opusBuf' = <<>> /\ agc' = ResetAGC(agc) /\ quiet' = 0
  /\ UNCHANGED <<mode, tuner>>

(* dspChain.Reset: every stage forgets its samples, the squelch its level, *)
(* the tuner its offset; the threshold stays.                              *)
Reset ==
  /\ fed' = 0
  /\ xlat' = FreshStage(xlatTaps)
  /\ audio' = FreshStage(audioTaps)
  /\ voice' = FreshStage(voiceTaps)
  /\ nr' = [FreshNR EXCEPT !.allocated = nr.allocated]
  /\ squelch' = [squelch EXCEPT !.seeded = FALSE, !.open = FALSE, !.hangLeft = 0]
  /\ tuner' = FreshTuner
  /\ opusBuf' = <<>> /\ agc' = ResetAGC(agc) /\ quiet' = 0
  /\ UNCHANGED mode

(* The channel is decimated to the audio rate by RealFIRFilter (FM), or by *)
(* FineTuner on the carrier that it shifts to DC (AM): two low-passes in   *)
(* step, whose offset the mixer alone knows.                               *)
AudioFilter(channel) == Filter(audio, channel, AudioDecim[mode], XlatDecim[mode])

(* One block: demodBlock, and the gate if there is audio.                  *)
Block ==
  \E n \in BlockLens, level \in Levels :
    LET in == [i \in 1 .. n |-> fed + i]
        channel == Filter(xlat, in, XlatDecim[mode], 1)
        base == AudioFilter(channel)
        stride == XlatDecim[mode] * AudioDecim[mode]
        clean == Filter(voice, base, 1, stride)
        reduced == AnalyseAll(clean)
        sound == IF mode = "FM" THEN base
                 ELSE [i \in 1 .. reduced.ready |-> Emitted(reduced.outBuf[i], stride)]
        judged == SetThreshold(squelch, squelchDb)
    IN  /\ fed + n <= MaxFed /\ fed' = fed + n
        /\ xlat' = Save(xlat, in, XlatDecim[mode])
        /\ IF channel = <<>>
           THEN UNCHANGED <<audio, voice, nr, squelch, quiet, tuner, gateVars>>
           ELSE /\ squelch' = Update(judged, level, Len(channel))
                /\ NoteQuiet(judged, level, Len(channel))
                /\ TrackCarrier(squelch'.open)
                /\ audio' = Save(audio, channel, AudioDecim[mode])
                /\ IF mode = "FM" THEN UNCHANGED <<voice, nr>>
                   ELSE /\ voice' = Save(voice, base, 1)
                        /\ nr' = [inBuf |-> reduced.inBuf,
                                  outBuf |-> SubSeq(reduced.outBuf, reduced.ready + 1,
                                                    Len(reduced.outBuf)),
                                  allocated |-> nr.allocated \/ reduced.ready > 0]
                /\ IF mode = "AM" /\ ~nr'.allocated  \* Process returns nil
                   THEN UNCHANGED gateVars
                   ELSE Gate(squelch'.open, sound)
        /\ UNCHANGED <<mode, commandVars>>

(* Samples were dropped before this block, which is skipped.               *)
Dropped == Reset /\ packets' = <<>> /\ UNCHANGED <<wasOpen, heard, commandVars>>

Flush ==
  /\ flush /\ flush' = FALSE
  /\ Reset /\ packets' = <<>>
  /\ UNCHANGED <<wasOpen, heard, squelchDb, tunedHz, retuning>>

(* Another mode: a new chain; wasOpen is a variable of runPipeline.        *)
Rebuild ==
  /\ \E m \in Modes \ {mode} : BuildDSPChain(m)
  /\ packets' = <<>>
  /\ UNCHANGED <<wasOpen, heard, commandVars>>

(* A handler stores the frequency, retunes the hardware, notifies.         *)
SetFrequency ==
  /\ ~retuning /\ retuning' = TRUE
  /\ tunedHz' \in Channels \ {tunedHz}
  /\ UNCHANGED <<mode, fed, filters, squelch, tuner, gateVars, quiet, squelchDb,
                 flush>>

Notify ==
  /\ retuning /\ retuning' = FALSE /\ flush' = TRUE
  /\ UNCHANGED <<mode, fed, filters, squelch, tuner, gateVars, quiet, squelchDb,
                 tunedHz>>

SetSquelch ==
  /\ squelchDb' \in Thresholds \ {squelchDb}
  /\ UNCHANGED <<mode, fed, filters, squelch, tuner, gateVars, quiet, tunedHz,
                 retuning, flush>>

Next ==
  \/ Block \/ Dropped \/ Flush \/ Rebuild
  \/ SetFrequency \/ Notify \/ SetSquelch

Spec == Init /\ [][Next]_vars

-----------------------------------------------------------------------------
Stage(taps, decim) ==
  [carry : [1 .. taps - 1 -> 0 .. MaxFed], phase : 0 .. decim - 1]

TypeOK ==
  /\ mode \in Modes /\ fed \in 0 .. MaxFed
  /\ xlat \in Stage(xlatTaps, XlatDecim[mode])
  /\ audio \in Stage(audioTaps, AudioDecim[mode])
  /\ voice \in Stage(voiceTaps, 1)
  /\ nr.inBuf \in Seq(1 .. MaxFed) /\ Len(nr.inBuf) < fftSize
  /\ Len(nr.outBuf) \in {0, hop} /\ nr.allocated \in BOOLEAN
  /\ squelch.level \in Levels \cup {0} /\ squelch.threshold \in Thresholds
  /\ squelch.hangLeft \in 0 .. hangSamples
  /\ squelch.seeded \in BOOLEAN /\ squelch.open \in BOOLEAN
  /\ wasOpen \in BOOLEAN /\ heard \in 0 .. fastSamples
  /\ agc \in [gain : {"nothing", "this", "earlier"}, hang : {"nobody", "this", "earlier"},
              fast : 0 .. fastSamples]
  /\ squelchDb \in Thresholds /\ tunedHz \in Channels
  /\ retuning \in BOOLEAN /\ flush \in BOOLEAN

(* Blocks of any length come out as one stream: however the samples were   *)
(* cut into blocks, the filters' tails and phases and the overlap-add give *)
(* frames of the samples that one call for all of them would give, evenly  *)
(* spaced, none missing or twice, all from one side of a Reset and of a    *)
(* closed gate.                                                            *)
Stride == TotalDecim[mode]

Continuous(samples) ==
  /\ \A i \in DOMAIN samples : samples[i] > 0 /\ samples[i] % Stride = 0
  /\ \A i \in 1 .. Len(samples) - 1 : samples[i + 1] = samples[i] + Stride

FramesContinuous == Continuous(FlattenSeq(packets) \o opusBuf)

(* What is buffered is the end of what came out of the chain: nothing of   *)
(* an earlier transmission is left in front of the next one.  A whole      *)
(* frame waits only behind a refused one, and however often frames are     *)
(* refused, every call takes one of those that wait.                       *)
Out == IF mode = "FM" THEN fed \div Stride
       ELSE LET n == fed \div Stride
            IN  IF n < fftSize THEN 0 ELSE ((n - fftSize) \div hop + 1) * hop

IsTheEnd(buf) == buf # <<>> => wasOpen /\ Last(buf) = Out * Stride

EncoderKeepsUp ==
  [][/\ IsTheEnd(opusBuf)'
     /\ Len(opusBuf') >= frameSize => packets' = <<>>
     /\ Len(opusBuf) >= frameSize /\ opusBuf' \notin {<<>>, opusBuf}
          => Head(opusBuf') > Head(opusBuf)]_vars

(* The gate closes by itself only after the signal was below the close     *)
(* level for the whole hang time, and is never held open longer.           *)
ClosesAfterHang ==
  [][LET steady == squelch'.threshold = squelch.threshold /\ fed' > fed
     IN  /\ steady /\ squelch.open /\ ~squelch'.open => quiet' >= hangSamples
         /\ squelch'.open => quiet' < hangSamples \/ quiet' = 0]_vars

(* The AGC of AM finds the level of every station straight away: as long   *)
(* as its gain is the one that an earlier transmission left, no hang of    *)
(* that transmission holds it, and for the first fastSamples of audio it   *)
(* moves at attack speed, also if the chain was reset or rebuilt while the *)
(* pipeline thought the gate open.                                         *)
FindsTheStation ==
  mode = "AM" /\ wasOpen /\ agc.gain = "earlier" =>
    agc.hang # "earlier" /\ agc.fast >= fastSamples - heard

(* Once the flush that follows a retune is handled the narrow filter never *)
(* stands on another channel's carrier: its offset is within the search    *)
(* window of the channel that is tuned.                                    *)
TunedWithinChannel ==
  ~retuning /\ ~flush => Distance(tuner.offset, 0) <= AirbandSearchHz(tunedHz)
=============================================================================
