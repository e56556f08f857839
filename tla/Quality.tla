------------------------------ MODULE Quality -------------------------------
(***************************************************************************)
(* Adaptation to loss, all the way round: the counts that the pipeline     *)
(* sends every second (cmd/narrowcast/main.go runPipeline, seq-marks), the *)
(* loss that the client computes from them (LossTracker.swift), its        *)
(* quality reports, and the FFT rate and Opus bitrate that the pipeline    *)
(* chooses (qualityChan, adaptFFTInterval, adaptOpusBitrate).              *)
(*                                                                         *)
(* Time is counted in seconds, each of which ends with a mark.  The mark   *)
(* overtakes spectra in the Writer, where they wait in the other queue,    *)
(* and spectra and audio on the network: what it overtakes arrives in the  *)
(* next second.  Marks and reports are datagrams: they are lost, and       *)
(* reports overtake each other.                                            *)
(***************************************************************************)
EXTENDS Integers, Sequences

CONSTANTS
  MaxSeconds,       \* bound: how long the run lasts
  MaxOnWay,         \* bound: reports between the client and handleClient
  baseOpusBitrate,  \* cfg.OpusBitrate
  fftRate,          \* cfg.FFTRate: spectra in a second at the full rate
  audioRate,        \* audio datagrams in a second while the gate is open
  statusRate,       \* status datagrams in a second
  AudioLosses, FFTLosses,  \* datagrams the network may lose in a second
  AudioBehind,      \* audio datagrams a mark may overtake
  qualityDepth      \* capacity of qualityChan

ASSUME RateAssumption ==
  /\ MaxSeconds \in Nat /\ MaxOnWay \in Nat /\ qualityDepth \in Nat \ {0}
  /\ fftRate \in Nat /\ audioRate \in Nat /\ statusRate \in Nat \ {0}
  /\ AudioLosses \subseteq Nat /\ FFTLosses \subseteq Nat /\ AudioBehind \subseteq Nat
  /\ baseOpusBitrate \in Nat

VARIABLES
  seconds,      \* history: seconds of streaming
  sent,         \* audioSent, fftSent, statusSent of the running pipeline
  prevLoss,     \* prevAudioLossPct, prevFFTLossPct
  fftInterval,  \* in multiples of baseFFTInterval
  currentBitrate,
  encoder,      \* bitrate and packet loss the Opus encoder was told
  qualityChan,
  late,         \* audio and spectra that the last mark overtook
  lastSent,     \* lastSentSnapshot, <<>> before the first mark
  received,     \* received since lastReceivedSnapshot
  wire,         \* reports on their way to the server, in the order sent
  window,       \* history: audio sent and lost since the last mark that
                \* arrived, audio which that one overtook, and whether the
                \* pipeline restarted
  lossy,        \* history: seconds in which audio was lost or overtaken
  fftLost,      \* history: some spectrum was lost
  disturbed,    \* history: a report was lost, replaced or overtaken
  before        \* history: the report that prevLoss replaced

pipelineVars == <<prevLoss, fftInterval, currentBitrate, encoder>>
clientVars == <<lastSent, received>>
historyVars == <<window, lossy, fftLost, disturbed, before>>
vars == <<seconds, sent, pipelineVars, qualityChan, late, clientVars, wire, historyVars>>

(* A report, with two fields of history: how much of the window's audio    *)
(* was missing when its mark arrived, and whether the counters ran on all  *)
(* the while and no mark overtook any audio.                               *)
Report(loss, truth, exact) ==
  [audio |-> loss.audio, fft |-> loss.fft, truth |-> truth, exact |-> exact]

Zero == [audio |-> 0, fft |-> 0, status |-> 0]
NoLoss == [audio |-> 0, fft |-> 0]
NoReport == Report(NoLoss, 0, TRUE)
LossWindow(s, l, e, r) == [sent |-> s, lost |-> l, early |-> e, restarted |-> r]

-----------------------------------------------------------------------------
AdaptFFTInterval(lossPct) ==
  CASE lossPct < 3 -> 1
    [] lossPct \in 3 .. 14 -> 2
    [] lossPct \in 15 .. 29 -> 5
    [] OTHER -> 10

AtMost(x, y) == IF x < y THEN x ELSE y

floor == 16000
base == IF baseOpusBitrate < floor THEN floor ELSE baseOpusBitrate

AdaptOpusBitrate(lossPct) ==
  CASE lossPct < 3 -> base
    [] lossPct \in 3 .. 11 -> AtMost(base, 24000)
    [] lossPct \in 12 .. 24 -> AtMost(base, 20000)
    [] OTHER -> floor

(* Mutant: the redundancy asked for is not bounded.                        *)
AdaptOpusLossPerc_NoCap(lossPct) == lossPct + 5

AdaptOpusLossPerc(lossPct) == AtMost(lossPct + 5, 50)

-----------------------------------------------------------------------------
(* Mutant: a window in which more arrived than was sent wraps around.      *)
Pct_Wraps(deltaSent, deltaReceived) ==
  IF deltaSent = 0 \/ deltaReceived = deltaSent THEN 0
  ELSE IF deltaReceived > deltaSent THEN 100
  ELSE ((deltaSent - deltaReceived) * 100) \div deltaSent

Pct(deltaSent, deltaReceived) ==
  IF deltaSent = 0 \/ deltaReceived >= deltaSent THEN 0
  ELSE ((deltaSent - deltaReceived) * 100) \div deltaSent

(* observeSeqMark.  Without an earlier mark there is nothing to compare    *)
(* with; counts that went back mean a new pipeline, and count as no loss.  *)
WentBack(mark) == \E c \in DOMAIN mark : mark[c] < lastSent[1][c]

Sample(mark, got) ==
  IF WentBack(mark) THEN NoLoss
  ELSE [c \in {"audio", "fft"} |-> Pct(mark[c] - lastSent[1][c], got[c])]

Missing(w, behind) == Pct(w.sent, w.sent - w.lost - behind)
Exact(w, behind) == ~w.restarted /\ w.early = 0 /\ behind = 0

(* Mutant: the early returns do not take the snapshots.                    *)
ObserveSeqMark_EarlyReturn(mark, got, w, behind) ==
  /\ wire' = IF lastSent = <<>> THEN wire
             ELSE Append(wire, Report(Sample(mark, got), Missing(w, behind),
                                      Exact(w, behind)))
  /\ lastSent' = <<mark>>
  /\ received' = IF lastSent # <<>> /\ WentBack(mark) THEN got ELSE NoLoss

ObserveSeqMark(mark, got, w, behind) ==
  /\ wire' = IF lastSent = <<>> THEN wire
             ELSE Append(wire, Report(Sample(mark, got), Missing(w, behind),
                                      Exact(w, behind)))
  /\ lastSent' = <<mark>> /\ received' = NoLoss

-----------------------------------------------------------------------------
(* A new pipeline: counters and rates start over, reports are drained.     *)
Init ==
  /\ seconds = 0 /\ sent = Zero
  /\ prevLoss = NoReport /\ fftInterval = 1 /\ currentBitrate = baseOpusBitrate
  /\ encoder = [bitrate |-> baseOpusBitrate, lossPerc |-> 10]
  /\ qualityChan = <<>> /\ late = NoLoss
  /\ lastSent = <<>> /\ received = NoLoss /\ wire = <<>>
  /\ window = LossWindow(0, 0, 0, FALSE) /\ lossy = 0 /\ fftLost = FALSE
  /\ disturbed = FALSE /\ before = NoReport

Restart ==
  /\ sent # Zero /\ sent' = Zero
  /\ prevLoss' = NoReport /\ fftInterval' = 1 /\ currentBitrate' = baseOpusBitrate
  /\ encoder' = [bitrate |-> baseOpusBitrate, lossPerc |-> 10]
  /\ qualityChan' = <<>>
  /\ window' = [window EXCEPT !.restarted = TRUE] /\ before' = NoReport
  /\ UNCHANGED <<seconds, late, clientVars, wire, lossy, fftLost, disturbed>>

(* The mark of a second arrives at the client, or is lost.                 *)
MarkArrives(mark, got, w, behind) ==
  /\ Len(wire) < MaxOnWay /\ ObserveSeqMark(mark, got, w, behind)
  /\ window' = LossWindow(0, 0, behind, FALSE)

MarkLost(got, w) ==
  /\ received' = got /\ window' = w
  /\ UNCHANGED <<lastSent, wire>>

(* What a second of streaming adds to the counts of the server and of the  *)
(* client: what the last mark overtook comes late, what is `behind' this   *)
(* one, after it.                                                          *)
Spectra == fftRate \div fftInterval

Mark(audio) == [audio |-> sent.audio + audio, fft |-> sent.fft + Spectra,
                status |-> sent.status + statusRate]

Got(audio, lost, behind) ==
  [audio |-> received.audio + late.audio + audio - lost.audio - behind.audio,
   fft |-> received.fft + late.fft + Spectra - lost.fft - behind.fft]

Grown(audio, lost) ==
  [window EXCEPT !.sent = @ + audio, !.lost = @ + lost.audio]

Streamed(audio, lost, behind) ==
  LET got == Got(audio, lost, behind)
      w == Grown(audio, lost)
  IN  /\ seconds < MaxSeconds /\ seconds' = seconds + 1
      /\ lost.audio + behind.audio <= audio /\ lost.fft + behind.fft <= Spectra
      /\ sent' = Mark(audio) /\ late' = behind
      /\ lossy' = IF lost.audio + behind.audio > 0 THEN lossy + 1 ELSE lossy
      /\ fftLost' = (fftLost \/ lost.fft > 0)
      /\ MarkArrives(Mark(audio), got, w, behind.audio) \/ MarkLost(got, w)
      /\ UNCHANGED <<pipelineVars, qualityChan, disturbed, before>>

(* The gate is open in this second, or closed.                             *)
Second ==
  \E audio \in {0, audioRate}, lost \in [audio : AudioLosses, fft : FFTLosses],
     behind \in [audio : AudioBehind, fft : {0, 1}] : Streamed(audio, lost, behind)

Without(s, i) == [k \in 1 .. Len(s) - 1 |-> IF k < i THEN s[k] ELSE s[k + 1]]

(* handleClient: replace makes room by dropping the oldest report.         *)
CmdQualityReport ==
  \E i \in DOMAIN wire :
    LET full == Len(qualityChan) = qualityDepth
    IN  /\ wire' = Without(wire, i)
        /\ qualityChan' = Append(IF full THEN Tail(qualityChan) ELSE qualityChan, wire[i])
        /\ disturbed' = (disturbed \/ full \/ i # 1)
        /\ UNCHANGED <<seconds, sent, pipelineVars, late, clientVars, window, lossy,
                       fftLost, before>>

ReportLost ==
  \E i \in DOMAIN wire :
    /\ wire' = Without(wire, i) /\ disturbed' = TRUE
    /\ UNCHANGED <<seconds, sent, pipelineVars, qualityChan, late, clientVars, window,
                   lossy, fftLost, before>>

(* Mutants: the report is believed at once; the last one is forgotten.     *)
Adapt_Live ==
  /\ qualityChan # <<>> /\ qualityChan' = Tail(qualityChan)
  /\ LET qr == Head(qualityChan)
     IN  /\ prevLoss' = qr /\ before' = prevLoss
         /\ fftInterval' = AdaptFFTInterval(qr.fft)
         /\ currentBitrate' = AdaptOpusBitrate(qr.audio)
         /\ encoder' = [bitrate |-> currentBitrate', lossPerc |-> AdaptOpusLossPerc(qr.audio)]
  /\ UNCHANGED <<seconds, sent, late, clientVars, wire, window, lossy, fftLost, disturbed>>

Adapt_Forgets ==
  /\ qualityChan # <<>> /\ qualityChan' = Tail(qualityChan)
  /\ LET qr == Head(qualityChan)
     IN  /\ fftInterval' = AdaptFFTInterval(AtMost(qr.fft, prevLoss.fft))
         /\ currentBitrate' = AdaptOpusBitrate(AtMost(qr.audio, prevLoss.audio))
         /\ encoder' = [bitrate |-> currentBitrate', lossPerc |-> AdaptOpusLossPerc(qr.audio)]
         /\ prevLoss' = [qr EXCEPT !.audio = 0, !.fft = 0] /\ before' = prevLoss
  /\ UNCHANGED <<seconds, sent, late, clientVars, wire, window, lossy, fftLost, disturbed>>

(* The qualityChan case of runPipeline: rates by the smaller of the last   *)
(* two reports, redundancy by the last.                                    *)
Adapt ==
  /\ qualityChan # <<>> /\ qualityChan' = Tail(qualityChan)
  /\ LET qr == Head(qualityChan)
     IN  /\ prevLoss' = qr /\ before' = prevLoss
         /\ fftInterval' = AdaptFFTInterval(AtMost(qr.fft, prevLoss.fft))
         /\ currentBitrate' = AdaptOpusBitrate(AtMost(qr.audio, prevLoss.audio))
         /\ encoder' = [bitrate |-> currentBitrate', lossPerc |-> AdaptOpusLossPerc(qr.audio)]
  /\ UNCHANGED <<seconds, sent, late, clientVars, wire, window, lossy, fftLost, disturbed>>

(* Mutant: the new chain has the configured bitrate.                       *)
Rebuild_Configured ==
  /\ encoder' = [bitrate |-> baseOpusBitrate, lossPerc |-> 10]
  /\ UNCHANGED <<seconds, sent, prevLoss, fftInterval, currentBitrate, qualityChan, late,
                 clientVars, wire, historyVars>>

(* Another mode: the new chain has an encoder of its own.                  *)
Rebuild ==
  /\ encoder' = [bitrate |-> currentBitrate, lossPerc |-> 10]
  /\ UNCHANGED <<seconds, sent, prevLoss, fftInterval, currentBitrate, qualityChan, late,
                 clientVars, wire, historyVars>>

Next == Restart \/ Second \/ CmdQualityReport \/ ReportLost \/ Adapt \/ Rebuild

Spec == Init /\ [][Next]_vars

-----------------------------------------------------------------------------
Reports == [audio : 0 .. 100, fft : 0 .. 100, truth : 0 .. 100, exact : BOOLEAN]

(* The configured bitrate may be below the floor, until the first report.  *)
Bitrates == {baseOpusBitrate} \cup floor .. base

TypeOK ==
  /\ seconds \in 0 .. MaxSeconds /\ late \in [audio : Nat, fft : {0, 1}]
  /\ sent \in [audio : Nat, fft : Nat, status : Nat]
  /\ received \in [audio : Nat, fft : Nat]
  /\ Len(lastSent) <= 1
  /\ prevLoss \in Reports /\ before \in Reports /\ fftInterval \in {1, 2, 5, 10}
  /\ currentBitrate \in Bitrates
  /\ encoder \in [bitrate : Bitrates, lossPerc : 5 .. 50]
  /\ wire \in Seq(Reports) /\ qualityChan \in Seq(Reports)
  /\ Len(qualityChan) <= qualityDepth

(* What the client reports as lost was lost, or still under way: whatever  *)
(* marks were lost or overtook audio and whenever the pipeline started     *)
(* over, a report never exceeds what was missing of its window when its    *)
(* mark came, and it is that exactly unless the counters started over or a *)
(* mark overtook audio at either end of the window.                        *)
ReportIsTrue ==
  \A i \in DOMAIN wire : /\ wire[i].audio <= wire[i].truth
                         /\ wire[i].exact => wire[i].audio = wire[i].truth

(* One bad second never lowers the bitrate, wherever it falls between the  *)
(* marks, whichever marks are lost and reports dropped: neither audio lost *)
(* in it nor audio that its mark overtook.                                 *)
SpikeIgnored == currentBitrate < baseOpusBitrate => lossy >= 2

(* A network that loses no spectrum never slows the spectrum down, however *)
(* often a mark overtakes one, as long as reports are read one by one:     *)
(* what is missing in one window is too much in the next.                  *)
OvertakingIgnored == fftInterval > 1 => fftLost \/ disturbed

(* The pipeline acts on the true loss: if the last two windows that it was *)
(* told of lost a quarter of the audio, and no mark overtook any, the      *)
(* bitrate is at its floor; one window of which all was there when its     *)
(* mark came is enough to raise it again, whatever was overtaken before.   *)
LossHeard ==
  /\ prevLoss.exact /\ before.exact /\ prevLoss.truth >= 25 /\ before.truth >= 25
       => currentBitrate = floor
  /\ prevLoss.truth < 3 => currentBitrate >= baseOpusBitrate

(* The encoder runs at the bitrate that was decided on, also when a change *)
(* of mode has replaced it.                                                *)
EncoderAsDecided == encoder.bitrate = currentBitrate
=============================================================================
