--------------------------- MODULE QualityProofs ----------------------------
(***************************************************************************)
(* Theorems about module Quality: type correctness, that reports are true, *)
(* that one bad second changes nothing, that a lasting loss is heard, and  *)
(* that spectra which a mark overtakes slow nothing down.                  *)
(***************************************************************************)
EXTENDS Quality, SequenceTheorems, TLAPS

-----------------------------------------------------------------------------
(* Percentages.                                                            *)

(* Division rounds down: the one fact about it that is needed.             *)
LEMMA DivFloor ==
  ASSUME NEW x \in Nat, NEW d \in Nat \ {0}
  PROVE  /\ x \div d \in Nat /\ (x \div d) * d <= x
         /\ \A q \in Nat : q * d <= x => q <= x \div d
<1> DEFINE f == x \div d
<1>1. f \in Int /\ f * d <= x /\ x < f * d + d
  OBVIOUS
<1> HIDE DEF f
<1>2. f >= 0
  <2> SUFFICES ASSUME f <= -1 PROVE FALSE
    BY <1>1
  <2>1. f * d <= -d
    BY <1>1
  <2> QED BY <2>1, <1>1
<1>3. ASSUME NEW q \in Nat, q * d <= x PROVE q <= f
  <2> SUFFICES ASSUME q >= f + 1 PROVE FALSE
    BY <1>1
  <2>1. q * d >= (f + 1) * d
    BY <1>1, <1>2
  <2>2. (f + 1) * d = f * d + d
    BY <1>1
  <2> QED BY <2>1, <2>2, <1>1, <1>3
<1> QED BY <1>1, <1>2, <1>3 DEF f

LEMMA PctRange ==
  ASSUME NEW s \in Nat, NEW g \in Nat
  PROVE  Pct(s, g) \in 0 .. 100
<1>1. CASE s = 0 \/ g >= s
  BY <1>1 DEF Pct
<1>2. CASE ~(s = 0 \/ g >= s)
  <2> DEFINE x == (s - g) * 100
             q == x \div s
  <2>1. x \in Nat /\ s \in Nat \ {0} /\ x <= 100 * s
    BY <1>2
  <2> HIDE DEF x
  <2>2. q \in Nat /\ q * s <= x
    BY <2>1, DivFloor
  <2> HIDE DEF q
  <2>3. q <= 100
    <3> SUFFICES ASSUME q >= 101 PROVE FALSE
      BY <2>2
    <3>1. q * s >= 101 * s
      BY <2>1, <2>2
    <3> QED BY <3>1, <2>1, <2>2
  <2>4. Pct(s, g) = q
    BY <1>2 DEF Pct, q, x
  <2> QED BY <2>2, <2>3, <2>4
<1> QED BY <1>1, <1>2

LEMMA PctAtLeast ==
  ASSUME NEW s \in Nat, NEW g \in Nat, NEW x, x = 0
  PROVE  x <= Pct(s, g)
<1>1. PICK p \in 0 .. 100 : p = Pct(s, g)
  BY PctRange, Zenon
<1> QED BY <1>1

(* If as many datagrams are taken from those sent as from those received,  *)
(* the loss seems no greater.                                              *)
LEMMA PctOfFewer ==
  ASSUME NEW s \in Nat, NEW lost \in Nat, lost <= s, NEW k \in Nat, k <= s
  PROVE  Pct(s - k, s - lost) <= Pct(s, s - lost)
<1>0. s - k \in Nat /\ s - lost \in Nat
  OBVIOUS
<1>1. CASE s - k = 0 \/ s - lost >= s - k
  BY <1>0, <1>1, PctRange DEF Pct
<1>2. CASE ~(s - k = 0 \/ s - lost >= s - k)
  <2> DEFINE x == ((s - k) - (s - lost)) * 100
             q == x \div (s - k)
             y == (s - (s - lost)) * 100
  <2>1. /\ x \in Nat /\ x = 100 * lost - 100 * k /\ y \in Nat /\ y = 100 * lost
        /\ s - k \in Nat \ {0} /\ s \in Nat \ {0}
    BY <1>0, <1>2
  <2>2. Pct(s - k, s - lost) = q /\ Pct(s, s - lost) = y \div s
    BY <1>0, <1>2 DEF Pct
  <2>3. q \in 0 .. 100
    BY <2>2, <1>0, PctRange
  <2> HIDE DEF x, y
  <2>4. q * (s - k) <= x
    BY <2>1, DivFloor
  <2> HIDE DEF q
  <2>5. q * s = q * (s - k) + q * k
    BY <2>3, <1>0
  <2>6. q * k <= 100 * k
    BY <2>3
  <2>7. q * s <= y
    BY <2>1, <2>3, <2>4, <2>5, <2>6
  <2>8. q <= y \div s
    BY <2>1, <2>3, <2>7, DivFloor
  <2> QED BY <2>2, <2>8
<1> QED BY <1>1, <1>2

(* If more was received, the loss seems no greater.                        *)
LEMMA PctOfMore ==
  ASSUME NEW s \in Nat, NEW g \in Nat, NEW e \in Nat
  PROVE  Pct(s, g + e) <= Pct(s, g)
<1>1. CASE s = 0 \/ g + e >= s
  BY <1>1, PctRange DEF Pct
<1>2. CASE ~(s = 0 \/ g + e >= s)
  <2> DEFINE x == (s - (g + e)) * 100
             q == x \div s
             y == (s - g) * 100
  <2>1. x \in Nat /\ y \in Nat /\ x <= y /\ s \in Nat \ {0}
    BY <1>2
  <2>2. Pct(s, g + e) = q /\ Pct(s, g) = y \div s
    BY <1>2 DEF Pct
  <2> HIDE DEF x, y
  <2>3. q \in Nat /\ q * s <= x
    BY <2>1, DivFloor
  <2> HIDE DEF q
  <2>4. q * s <= y
    BY <2>1, <2>3
  <2>5. q <= y \div s
    BY <2>1, <2>3, <2>4, DivFloor
  <2> QED BY <2>2, <2>5
<1> QED BY <1>1, <1>2

-----------------------------------------------------------------------------
(* What the adaptation chooses.                                            *)
LEMMA AdaptTypes ==
  ASSUME NEW l \in 0 .. 100
  PROVE  /\ AdaptFFTInterval(l) \in {1, 2, 5, 10}
         /\ AdaptOpusBitrate(l) \in Bitrates
         /\ AdaptOpusLossPerc(l) \in 5 .. 50
<1>1. AdaptFFTInterval(l) \in {1, 2, 5, 10}
  BY DEF AdaptFFTInterval
<1>2. AdaptOpusBitrate(l) \in Bitrates
  <2>1. base \in Nat /\ base >= 16000
    BY RateAssumption DEF base, floor
  <2>2. AdaptOpusBitrate(l) \in 16000 .. base
    BY <2>1 DEF AdaptOpusBitrate, AtMost, floor
  <2> QED BY <2>2 DEF Bitrates, floor
<1>3. AdaptOpusLossPerc(l) \in 5 .. 50
  BY DEF AdaptOpusLossPerc, AtMost
<1> QED BY <1>1, <1>2, <1>3

LEMMA AtMostType ==
  ASSUME NEW x \in 0 .. 100, NEW y \in 0 .. 100
  PROVE  AtMost(x, y) \in 0 .. 100 /\ AtMost(x, y) <= x /\ AtMost(x, y) <= y
BY DEF AtMost

(* Taking a report off the wire.                                           *)
LEMMA WithoutType ==
  ASSUME NEW S, NEW s \in Seq(S), NEW i \in DOMAIN s
  PROVE  /\ Without(s, i) \in Seq(S)
         /\ Len(Without(s, i)) = Len(s) - 1
         /\ \A k \in 1 .. Len(s) - 1 :
              Without(s, i)[k] = IF k < i THEN s[k] ELSE s[k + 1]
<1>1. Len(s) \in Nat /\ DOMAIN s = 1 .. Len(s) /\ Len(s) - 1 \in Nat
  OBVIOUS
<1>2. \A k \in 1 .. Len(s) - 1 : (IF k < i THEN s[k] ELSE s[k + 1]) \in S
  BY <1>1
<1>3. Without(s, i) \in [1 .. Len(s) - 1 -> S]
  BY <1>2 DEF Without
<1>4. Without(s, i) \in Seq(S)
  BY <1>1, <1>3, SeqDef
<1>5. Len(Without(s, i)) = Len(s) - 1
  <2>1. DOMAIN Without(s, i) = 1 .. Len(s) - 1
    BY DEF Without
  <2>2. Len(Without(s, i)) \in Nat /\ DOMAIN Without(s, i) = 1 .. Len(Without(s, i))
    BY <1>4
  <2> DEFINE m == Len(s) - 1
             n == Len(Without(s, i))
  <2>3. m \in Nat /\ n \in Nat /\ 1 .. m = 1 .. n
    BY <1>1, <2>1, <2>2
  <2> HIDE DEF m, n
  <2>4. ~(m < n)
    BY <2>3 DEF m, n
  <2>5. ~(n < m)
    BY <2>3 DEF m, n
  <2>6. m = n
    BY <2>3, <2>4, <2>5
  <2> QED BY <2>6 DEF m, n
<1> QED BY <1>1, <1>4, <1>5 DEF Without

-----------------------------------------------------------------------------
(* Type correctness.                                                       *)
Counts == [audio : Nat, fft : Nat, status : Nat]

Windows == [sent : Nat, lost : Nat, early : Nat, restarted : BOOLEAN]

Typed ==
  /\ TypeOK
  /\ lastSent \in Seq(Counts)
  /\ window \in Windows /\ window.lost <= window.sent
  /\ lossy \in Nat

LEMMA NoReportType == NoReport \in Reports
BY DEF NoReport, Report, NoLoss, Reports

LEMMA TypeInit == Init => Typed
<1> SUFFICES ASSUME Init PROVE Typed
  OBVIOUS
<1> USE RateAssumption
<1>1. /\ seconds \in 0 .. MaxSeconds /\ late \in [audio : Nat, fft : {0, 1}]
      /\ fftInterval \in {1, 2, 5, 10} /\ currentBitrate \in Bitrates
      /\ encoder \in [bitrate : Bitrates, lossPerc : 5 .. 50]
  BY DEF Init, Bitrates, NoLoss
<1>2. sent \in Counts /\ received \in [audio : Nat, fft : Nat]
  BY DEF Init, Zero, NoLoss, Counts
<1>3. prevLoss \in Reports /\ before \in Reports
  BY NoReportType DEF Init
<1>4. /\ wire \in Seq(Reports) /\ qualityChan \in Seq(Reports) /\ Len(qualityChan) <= qualityDepth
      /\ lastSent \in Seq(Counts) /\ Len(lastSent) <= 1
  BY DEF Init
<1>5. window \in Windows /\ window.lost <= window.sent /\ lossy \in Nat
  BY DEF Init, LossWindow, Windows
<1> QED BY <1>1, <1>2, <1>3, <1>4, <1>5 DEF Typed, TypeOK, Counts

LEMMA TypeRestart == Typed /\ Restart => Typed'
<1> SUFFICES ASSUME Typed, Restart PROVE Typed'
  OBVIOUS
<1> USE RateAssumption DEF Typed, TypeOK, clientVars
<1>0. baseOpusBitrate \in Bitrates /\ 10 \in 5 .. 50
  BY DEF Bitrates
<1>1. /\ (seconds \in 0 .. MaxSeconds /\ late \in [audio : Nat, fft : {0, 1}])'
      /\ (fftInterval \in {1, 2, 5, 10})'
      /\ (currentBitrate \in Bitrates)'
      /\ (encoder \in [bitrate : Bitrates, lossPerc : 5 .. 50])'
  <2>1. seconds' \in 0 .. MaxSeconds /\ late' \in [audio : Nat, fft : {0, 1}]
    BY DEF Restart
  <2>2. /\ fftInterval' = 1 /\ currentBitrate' = baseOpusBitrate
        /\ encoder' = [bitrate |-> baseOpusBitrate, lossPerc |-> 10]
    BY DEF Restart
  <2> QED BY <1>0, <2>1, <2>2
<1>2. (sent \in Counts /\ received \in [audio : Nat, fft : Nat])'
  BY DEF Restart, Zero, Counts
<1>3. (prevLoss \in Reports /\ before \in Reports)'
  BY NoReportType DEF Restart
<1>4. /\ (wire \in Seq(Reports) /\ qualityChan \in Seq(Reports) /\ Len(qualityChan) <= qualityDepth)'
      /\ (lastSent \in Seq(Counts) /\ Len(lastSent) <= 1)'
  BY DEF Restart
<1>5. (window \in Windows /\ window.lost <= window.sent /\ lossy \in Nat)'
  BY DEF Restart, Windows
<1> QED BY <1>1, <1>2, <1>3, <1>4, <1>5 DEF Counts

LEMMA TypeQueues == Typed /\ (CmdQualityReport \/ ReportLost) => Typed'
<1> SUFFICES ASSUME Typed, CmdQualityReport \/ ReportLost PROVE Typed'
  OBVIOUS
<1> USE DEF Typed, TypeOK, clientVars, pipelineVars
<1>1. PICK i \in DOMAIN wire : wire' = Without(wire, i)
  BY DEF CmdQualityReport, ReportLost
<1>2. wire' \in Seq(Reports) /\ wire[i] \in Reports
  BY <1>1, WithoutType
<1>3. (qualityChan \in Seq(Reports) /\ Len(qualityChan) <= qualityDepth)'
  <2>1. CASE ReportLost
    BY <2>1 DEF ReportLost
  <2>2. CASE CmdQualityReport
    <3>1. PICK j \in DOMAIN wire :
            qualityChan' = Append(IF Len(qualityChan) = qualityDepth
                                  THEN Tail(qualityChan) ELSE qualityChan, wire[j])
      BY <2>2 DEF CmdQualityReport
    <3>2. wire[j] \in Reports
      OBVIOUS
    <3>3. CASE Len(qualityChan) = qualityDepth
      BY <3>1, <3>2, <3>3, RateAssumption
    <3>4. CASE Len(qualityChan) # qualityDepth
      BY <3>1, <3>2, <3>4, RateAssumption
    <3> QED BY <3>3, <3>4
  <2> QED BY <2>1, <2>2
<1>4. UNCHANGED <<seconds, sent, pipelineVars, late, clientVars, window, lossy, before>>
  BY DEF CmdQualityReport, ReportLost
<1> QED BY <1>2, <1>3, <1>4

LEMMA TypeAdapt == Typed /\ (Adapt \/ Rebuild) => Typed'
<1> SUFFICES ASSUME Typed, Adapt \/ Rebuild PROVE Typed'
  OBVIOUS
<1> USE DEF Typed, TypeOK, clientVars
<1>1. CASE Adapt
  <2> DEFINE qr == Head(qualityChan)
  <2>0. qualityChan # <<>> /\ qualityChan \in Seq(Reports) /\ Len(qualityChan) <= qualityDepth
    BY <1>1 DEF Adapt
  <2>1. qr \in Reports /\ qualityChan' \in Seq(Reports) /\ Len(qualityChan') <= qualityDepth
    <3>1. qr \in Reports
      BY <2>0
    <3>2. qualityChan' = Tail(qualityChan)
      BY <1>1 DEF Adapt
    <3>3. Tail(qualityChan) \in Seq(Reports) /\ Len(Tail(qualityChan)) = Len(qualityChan) - 1
      BY <2>0
    <3>4. Len(qualityChan) \in Nat
      BY <2>0
    <3> QED BY <2>0, <3>1, <3>2, <3>3, <3>4, RateAssumption
  <2>2. /\ qr.audio \in 0 .. 100 /\ qr.fft \in 0 .. 100
        /\ prevLoss.audio \in 0 .. 100 /\ prevLoss.fft \in 0 .. 100
    BY <2>1 DEF Reports
  <2>3. /\ AtMost(qr.audio, prevLoss.audio) \in 0 .. 100
        /\ AtMost(qr.fft, prevLoss.fft) \in 0 .. 100
    BY <2>2, AtMostType
  <2>4. /\ fftInterval' \in {1, 2, 5, 10}
        /\ currentBitrate' \in Bitrates
        /\ encoder' \in [bitrate : Bitrates, lossPerc : 5 .. 50]
    BY <1>1, <2>2, <2>3, AdaptTypes DEF Adapt
  <2>5. prevLoss' \in Reports /\ before' \in Reports
    BY <1>1, <2>1 DEF Adapt
  <2> QED BY <1>1, <2>1, <2>4, <2>5 DEF Adapt
<1>2. CASE Rebuild
  BY <1>2 DEF Rebuild, historyVars
<1> QED BY <1>1, <1>2

(* What the client makes of a mark.                                        *)
LEMMA SampleType ==
  ASSUME NEW mark \in Counts, NEW got \in [audio : Nat, fft : Nat],
         lastSent \in Seq(Counts), lastSent # <<>>
  PROVE  /\ Sample(mark, got).audio \in 0 .. 100 /\ Sample(mark, got).fft \in 0 .. 100
         /\ WentBack(mark) => Sample(mark, got).audio = 0
         /\ ~WentBack(mark) =>
              /\ mark.audio >= lastSent[1].audio
              /\ Sample(mark, got).audio = Pct(mark.audio - lastSent[1].audio, got.audio)
<1>1. lastSent[1] \in Counts
  OBVIOUS
<1>2. CASE WentBack(mark)
  BY <1>2 DEF Sample, NoLoss
<1>3. CASE ~WentBack(mark)
  <2>1. DOMAIN mark = {"audio", "fft", "status"}
    BY DEF Counts
  <2>2. /\ mark.audio \in Nat /\ mark.fft \in Nat
        /\ lastSent[1].audio \in Nat /\ lastSent[1].fft \in Nat
        /\ got.audio \in Nat /\ got.fft \in Nat
    BY <1>1 DEF Counts
  <2>3. mark.audio >= lastSent[1].audio /\ mark.fft >= lastSent[1].fft
    BY <1>3, <2>1, <2>2 DEF WentBack
  <2>4. /\ Sample(mark, got).audio = Pct(mark.audio - lastSent[1].audio, got.audio)
        /\ Sample(mark, got).fft = Pct(mark.fft - lastSent[1].fft, got.fft)
    BY <1>3 DEF Sample
  <2>5. mark.audio - lastSent[1].audio \in Nat /\ mark.fft - lastSent[1].fft \in Nat
    BY <2>2, <2>3
  <2> QED BY <1>3, <2>2, <2>3, <2>4, <2>5, PctRange
<1> QED BY <1>2, <1>3

LEMMA ReportType ==
  ASSUME NEW a \in 0 .. 100, NEW f \in 0 .. 100, NEW truth \in 0 .. 100, NEW e \in BOOLEAN,
         NEW loss, loss.audio = a, loss.fft = f
  PROVE  /\ Report(loss, truth, e) \in Reports
         /\ Report(loss, truth, e).audio = a /\ Report(loss, truth, e).truth = truth
         /\ Report(loss, truth, e).exact = e
BY DEF Report, Reports

(* A second, of whatever was sent, lost and overtaken in it.               *)
LEMMA SecondOf ==
  ASSUME Typed, Second
  PROVE  \E audio \in Nat, lost \in [audio : Nat, fft : Nat],
            behind \in [audio : Nat, fft : {0, 1}] : Streamed(audio, lost, behind)
<1>1. PICK audio \in {0, audioRate}, lost \in [audio : AudioLosses, fft : FFTLosses],
           behind \in [audio : AudioBehind, fft : {0, 1}] : Streamed(audio, lost, behind)
  BY DEF Second
<1>2. audio \in Nat
  BY RateAssumption
<1>3. lost \in [audio : Nat, fft : Nat]
  <2>1. lost.audio \in Nat /\ lost.fft \in Nat
    BY RateAssumption
  <2>2. lost = [audio |-> lost.audio, fft |-> lost.fft]
    OBVIOUS
  <2> QED BY <2>1, <2>2
<1>4. behind \in [audio : Nat, fft : {0, 1}]
  <2>1. behind.audio \in Nat /\ behind.fft \in {0, 1}
    BY RateAssumption
  <2>2. behind = [audio |-> behind.audio, fft |-> behind.fft]
    OBVIOUS
  <2> QED BY <2>1, <2>2
<1> QED BY <1>1, <1>2, <1>3, <1>4

LEMMA SpectraType == Typed => Spectra \in Nat
<1> SUFFICES ASSUME Typed PROVE Spectra \in Nat
  OBVIOUS
<1>1. fftInterval \in {1, 2, 5, 10}
  BY DEF Typed, TypeOK
<1>2. fftRate \in Nat /\ fftInterval \in Nat \ {0}
  BY <1>1, RateAssumption
<1> QED BY <1>2, DivFloor DEF Spectra

(* Its parts, named.                                                       *)
LEMMA StreamedParts ==
  ASSUME Typed, NEW audio \in Nat, NEW lost \in [audio : Nat, fft : Nat],
         NEW behind \in [audio : Nat, fft : {0, 1}], Streamed(audio, lost, behind)
  PROVE  /\ lost.audio + behind.audio <= audio
         /\ Mark(audio) \in Counts
         /\ Got(audio, lost, behind) \in [audio : Nat, fft : Nat]
         /\ Grown(audio, lost) \in Windows
         /\ Grown(audio, lost).lost + behind.audio <= Grown(audio, lost).sent
         /\ Grown(audio, lost).sent = window.sent + audio
         /\ Grown(audio, lost).lost = window.lost + lost.audio
         /\ Grown(audio, lost).early = window.early
         /\ Grown(audio, lost).restarted = window.restarted
         /\ seconds' \in 0 .. MaxSeconds /\ late' = behind /\ sent' = Mark(audio)
         /\ lossy' = IF lost.audio + behind.audio > 0 THEN lossy + 1 ELSE lossy
         /\ \/ MarkArrives(Mark(audio), Got(audio, lost, behind), Grown(audio, lost),
                           behind.audio)
            \/ MarkLost(Got(audio, lost, behind), Grown(audio, lost))
         /\ UNCHANGED <<pipelineVars, qualityChan, before>>
<1>1. /\ seconds < MaxSeconds /\ seconds' = seconds + 1
      /\ lost.audio + behind.audio <= audio /\ lost.fft + behind.fft <= Spectra
      /\ sent' = Mark(audio) /\ late' = behind
      /\ lossy' = IF lost.audio + behind.audio > 0 THEN lossy + 1 ELSE lossy
      /\ UNCHANGED <<pipelineVars, qualityChan, before>>
  BY DEF Streamed
<1>2. \/ MarkArrives(Mark(audio), Got(audio, lost, behind), Grown(audio, lost), behind.audio)
      \/ MarkLost(Got(audio, lost, behind), Grown(audio, lost))
  BY DEF Streamed
<1>3. seconds \in Nat /\ MaxSeconds \in Nat /\ statusRate \in Nat
  BY RateAssumption DEF Typed, TypeOK
<1>4. Spectra \in Nat
  BY SpectraType
<1>5. /\ sent.audio \in Nat /\ sent.fft \in Nat /\ sent.status \in Nat
      /\ received.audio \in Nat /\ received.fft \in Nat
      /\ late.audio \in Nat /\ late.fft \in Nat
      /\ lost.audio \in Nat /\ lost.fft \in Nat /\ behind.audio \in Nat /\ behind.fft \in Nat
  <2>1. sent.audio \in Nat /\ sent.fft \in Nat /\ sent.status \in Nat
    BY DEF Typed, TypeOK
  <2>2. received.audio \in Nat /\ received.fft \in Nat
    BY DEF Typed, TypeOK
  <2>3. late.audio \in Nat /\ late.fft \in Nat
    BY DEF Typed, TypeOK
  <2>4. lost.audio \in Nat /\ lost.fft \in Nat /\ behind.audio \in Nat /\ behind.fft \in Nat
    OBVIOUS
  <2> QED BY <2>1, <2>2, <2>3, <2>4
<1>6. Mark(audio) \in Counts
  BY <1>3, <1>4, <1>5 DEF Mark, Counts
<1>7. Got(audio, lost, behind) \in [audio : Nat, fft : Nat]
  <2>1. received.audio + late.audio + audio - lost.audio - behind.audio \in Nat
    BY <1>1, <1>5
  <2>2. received.fft + late.fft + Spectra - lost.fft - behind.fft \in Nat
    BY <1>1, <1>4, <1>5
  <2> QED BY <2>1, <2>2 DEF Got
<1>8. seconds' \in 0 .. MaxSeconds
  BY <1>1, <1>3
<1>9. /\ Grown(audio, lost) \in Windows
      /\ Grown(audio, lost).sent = window.sent + audio
      /\ Grown(audio, lost).lost = window.lost + lost.audio
      /\ Grown(audio, lost).early = window.early
      /\ Grown(audio, lost).restarted = window.restarted
  <2>1. window \in Windows
    BY DEF Typed
  <2>2. Grown(audio, lost).sent = window.sent + audio
    BY <2>1 DEF Grown, Windows
  <2>3. Grown(audio, lost).lost = window.lost + lost.audio
    BY <2>1 DEF Grown, Windows
  <2>4. Grown(audio, lost).early = window.early /\ Grown(audio, lost).restarted = window.restarted
    BY <2>1 DEF Grown, Windows
  <2>5. window.sent + audio \in Nat /\ window.lost + lost.audio \in Nat
    BY <1>5, <2>1 DEF Windows
  <2>6. Grown(audio, lost) \in Windows
    BY <2>1, <2>5 DEF Grown, Windows
  <2> QED BY <2>2, <2>3, <2>4, <2>6
<1>10. Grown(audio, lost).lost + behind.audio <= Grown(audio, lost).sent
  <2>1. window.sent \in Nat /\ window.lost \in Nat /\ window.lost <= window.sent
    BY DEF Typed, Windows
  <2> QED BY <1>1, <1>5, <1>9, <2>1
<1> QED BY <1>1, <1>2, <1>6, <1>7, <1>8, <1>9, <1>10

(* The report that a mark gives rise to.                                   *)
LEMMA MarkReport ==
  ASSUME Typed, lastSent # <<>>, NEW mark \in Counts, NEW got \in [audio : Nat, fft : Nat],
         NEW w \in Windows, NEW b \in Nat, w.lost + b <= w.sent,
         NEW r, r = Report(Sample(mark, got), Missing(w, b), Exact(w, b))
  PROVE  /\ r \in Reports
         /\ r.audio = Sample(mark, got).audio /\ r.fft = Sample(mark, got).fft
         /\ r.truth = Pct(w.sent, w.sent - w.lost - b)
         /\ r.exact = (~w.restarted /\ w.early = 0 /\ b = 0)
<1>1. Sample(mark, got).audio \in 0 .. 100 /\ Sample(mark, got).fft \in 0 .. 100
  BY SampleType DEF Typed
<1>2. Missing(w, b) \in 0 .. 100
  <2>1. w.sent \in Nat /\ w.sent - w.lost - b \in Nat
    BY DEF Windows
  <2> QED BY <2>1, PctRange DEF Missing
<1>3. Exact(w, b) \in BOOLEAN
  BY Zenon DEF Exact
<1>4. r \in Reports
  BY <1>1, <1>2, <1>3, ReportType
<1> QED BY <1>4 DEF Report, Missing, Exact

LEMMA TypeSecond == Typed /\ Second => Typed'
<1> SUFFICES ASSUME Typed, Second PROVE Typed'
  OBVIOUS
<1>1. PICK audio \in Nat, lost \in [audio : Nat, fft : Nat],
           behind \in [audio : Nat, fft : {0, 1}] : Streamed(audio, lost, behind)
  BY SecondOf
<1> DEFINE mark == Mark(audio)
           got == Got(audio, lost, behind)
           w == Grown(audio, lost)
           b == behind.audio
<1>2. /\ mark \in Counts /\ got \in [audio : Nat, fft : Nat]
      /\ w \in Windows /\ w.lost + b <= w.sent /\ b \in Nat
      /\ seconds' \in 0 .. MaxSeconds /\ late' = behind /\ sent' = mark
      /\ lossy' = IF lost.audio + b > 0 THEN lossy + 1 ELSE lossy
      /\ MarkArrives(mark, got, w, b) \/ MarkLost(got, w)
      /\ UNCHANGED <<pipelineVars, qualityChan, before>>
  BY <1>1, StreamedParts
<1>3. w.lost <= w.sent
  BY <1>2 DEF Windows
<1> HIDE DEF mark, got, w, b
<1>4. lossy' \in Nat
  BY <1>2 DEF Typed
<1>5. CASE MarkLost(got, w)
  BY <1>2, <1>3, <1>4, <1>5 DEF MarkLost, Typed, TypeOK, pipelineVars, Counts
<1>6. CASE MarkArrives(mark, got, w, b)
  <2> DEFINE r == Report(Sample(mark, got), Missing(w, b), Exact(w, b))
  <2>1. /\ wire' = IF lastSent = <<>> THEN wire ELSE Append(wire, r)
        /\ lastSent' = <<mark>> /\ received' = NoLoss
        /\ window' = LossWindow(0, 0, b, FALSE)
    BY <1>6 DEF MarkArrives, ObserveSeqMark
  <2>2. wire' \in Seq(Reports)
    <3>1. CASE lastSent = <<>>
      BY <2>1, <3>1 DEF Typed, TypeOK
    <3>2. CASE lastSent # <<>>
      <4>1. r \in Reports
        BY <1>2, <3>2, MarkReport
      <4> HIDE DEF r
      <4> QED BY <2>1, <3>2, <4>1 DEF Typed, TypeOK
    <3> QED BY <3>1, <3>2
  <2>3. /\ lastSent' \in Seq(Counts) /\ Len(lastSent') <= 1
        /\ received' \in [audio : Nat, fft : Nat]
        /\ window' \in Windows /\ window'.lost <= window'.sent
    BY <1>2, <2>1 DEF NoLoss, LossWindow, Windows
  <2> QED BY <1>2, <1>4, <2>2, <2>3 DEF Typed, TypeOK, pipelineVars, Counts
<1> QED BY <1>2, <1>5, <1>6

LEMMA TypeNext == Typed /\ [Next]_vars => Typed'
<1>1. CASE UNCHANGED vars
  BY <1>1 DEF Typed, TypeOK, vars, pipelineVars, clientVars, historyVars
<1> QED
  BY <1>1, TypeRestart, TypeQueues, TypeAdapt, TypeSecond DEF Next

(* Whatever is lost, replaced and overtaken, and whatever bitrate was      *)
(* configured: percentages are percentages, the bitrate is the configured  *)
(* one or lies between the floor and the larger of the two, and            *)
(* qualityChan never exceeds its capacity.                                 *)
THEOREM TypeCorrect == Spec => []TypeOK
<1>1. Spec => []Typed
  BY TypeInit, TypeNext, PTL DEF Spec
<1>2. Typed => TypeOK
  BY DEF Typed
<1> QED BY <1>1, <1>2, PTL

(* The invariant of which type correctness is a part, for the theorems     *)
(* below.                                                                  *)
LEMMA Always == Spec => []Typed
BY TypeInit, TypeNext, PTL DEF Spec

-----------------------------------------------------------------------------
(* The encoder.                                                            *)

(* For any losses and any changes of mode the encoder runs at the bitrate  *)
(* that was decided on.                                                    *)
THEOREM EncoderFollows == Spec => []EncoderAsDecided
<1>1. Init => EncoderAsDecided
  BY DEF Init, EncoderAsDecided
<1>2. EncoderAsDecided /\ [Next]_vars => EncoderAsDecided'
  <2> SUFFICES ASSUME EncoderAsDecided, [Next]_vars PROVE EncoderAsDecided'
    OBVIOUS
  <2> USE DEF EncoderAsDecided, pipelineVars
  <2>1. CASE Restart BY <2>1 DEF Restart
  <2>2. CASE Second BY <2>2 DEF Second, Streamed
  <2>3. CASE CmdQualityReport BY <2>3 DEF CmdQualityReport
  <2>4. CASE ReportLost BY <2>4 DEF ReportLost
  <2>5. CASE Adapt BY <2>5 DEF Adapt
  <2>6. CASE Rebuild BY <2>6 DEF Rebuild
  <2>7. CASE UNCHANGED vars BY <2>7 DEF vars
  <2> QED BY <2>1, <2>2, <2>3, <2>4, <2>5, <2>6, <2>7 DEF Next
<1> QED BY <1>1, <1>2, PTL DEF Spec

-----------------------------------------------------------------------------
(* How reports move.                                                       *)
Moved ==
  \E i \in 1 .. Len(wire) :
    /\ Len(wire') = Len(wire) - 1
    /\ \A k \in 1 .. Len(wire) - 1 : wire'[k] = IF k < i THEN wire[k] ELSE wire[k + 1]
    /\ \/ qualityChan' = qualityChan
       \/ \E off \in {0, 1} :
            /\ Len(qualityChan') = Len(qualityChan) - off + 1
            /\ Len(qualityChan) >= off
            /\ \A k \in 1 .. Len(qualityChan) - off : qualityChan'[k] = qualityChan[k + off]
            /\ qualityChan'[Len(qualityChan) - off + 1] = wire[i]

(* Making room for a report, or not.                                       *)
LEMMA PushReport ==
  ASSUME NEW S, NEW s \in Seq(S), NEW r \in S
  PROVE  /\ Len(Append(s, r)) = Len(s) + 1 /\ Append(s, r)[Len(s) + 1] = r
         /\ \A k \in 1 .. Len(s) : Append(s, r)[k] = s[k]
         /\ s # <<>> =>
              /\ Len(Append(Tail(s), r)) = Len(s) /\ Append(Tail(s), r)[Len(s)] = r
              /\ \A k \in 1 .. Len(s) - 1 : Append(Tail(s), r)[k] = s[k + 1]
OBVIOUS

LEMMA QueueMoves == Typed /\ (CmdQualityReport \/ ReportLost) => Moved
<1> SUFFICES ASSUME Typed, CmdQualityReport \/ ReportLost PROVE Moved
  OBVIOUS
<1>1. /\ wire \in Seq(Reports) /\ qualityChan \in Seq(Reports)
      /\ DOMAIN wire = 1 .. Len(wire)
  BY DEF Typed, TypeOK
<1>2. CASE ReportLost
  <2>1. PICK i \in DOMAIN wire : wire' = Without(wire, i)
    BY <1>2 DEF ReportLost
  <2>2. qualityChan' = qualityChan
    BY <1>2 DEF ReportLost
  <2> QED BY <1>1, <2>1, <2>2, WithoutType DEF Moved
<1>3. CASE CmdQualityReport
  <2>1. PICK i \in DOMAIN wire :
          /\ wire' = Without(wire, i)
          /\ qualityChan' = Append(IF Len(qualityChan) = qualityDepth
                                   THEN Tail(qualityChan) ELSE qualityChan, wire[i])
    BY <1>3 DEF CmdQualityReport
  <2>2. wire[i] \in Reports
    BY <1>1
  <2>3. /\ Len(wire') = Len(wire) - 1
        /\ \A k \in 1 .. Len(wire) - 1 : wire'[k] = IF k < i THEN wire[k] ELSE wire[k + 1]
    BY <1>1, <2>1, WithoutType
  <2>4. CASE Len(qualityChan) = qualityDepth
    <3>1. qualityChan' = Append(Tail(qualityChan), wire[i]) /\ qualityChan # <<>>
          /\ Len(qualityChan) \in Nat \ {0}
      BY <1>1, <2>1, <2>4, RateAssumption
    <3>2. /\ Len(qualityChan') = Len(qualityChan)
          /\ qualityChan'[Len(qualityChan)] = wire[i]
          /\ \A k \in 1 .. Len(qualityChan) - 1 : qualityChan'[k] = qualityChan[k + 1]
      BY <1>1, <2>2, <3>1, PushReport
    <3>3. /\ Len(qualityChan') = Len(qualityChan) - 1 + 1
          /\ qualityChan'[Len(qualityChan) - 1 + 1] = wire[i]
      BY <3>1, <3>2
    <3> QED BY <1>1, <2>1, <2>3, <3>1, <3>2, <3>3 DEF Moved
  <2>5. CASE Len(qualityChan) # qualityDepth
    <3>1. qualityChan' = Append(qualityChan, wire[i]) /\ Len(qualityChan) \in Nat
      BY <1>1, <2>1, <2>5
    <3>2. /\ Len(qualityChan') = Len(qualityChan) - 0 + 1
          /\ qualityChan'[Len(qualityChan) - 0 + 1] = wire[i]
          /\ \A k \in 1 .. Len(qualityChan) - 0 : qualityChan'[k] = qualityChan[k + 0]
      BY <1>1, <2>2, <3>1, PushReport
    <3> QED BY <1>1, <2>1, <2>3, <3>1, <3>2 DEF Moved
  <2> QED BY <2>4, <2>5
<1> QED BY <1>2, <1>3

-----------------------------------------------------------------------------
(* One bad second.  Wherever it shows (in the window that is open, in a    *)
(* report on the wire or in qualityChan, in prevLoss) is a place: 0 is     *)
(* prevLoss, n > 0 is qualityChan[n], -1 the window, -1 - n is wire[n].    *)
(* Each bad second is in one place at most, so two bad places are two bad  *)
(* seconds, and only two bad reports lower the bitrate.                    *)
BadAt(n) ==
  \/ n = -1 /\ window.lost > 0
  \/ n = 0 /\ prevLoss.audio > 0
  \/ n \in 1 .. Len(qualityChan) /\ qualityChan[n].audio > 0
  \/ -1 - n \in 1 .. Len(wire) /\ wire[-1 - n].audio > 0

Counted ==
  /\ \A n \in Int : BadAt(n) => lossy >= 1
  /\ \A m, n \in Int : BadAt(m) /\ BadAt(n) /\ m # n => lossy >= 2

(* Everything that was sent since the mark the client remembers has        *)
(* arrived, is under way or is known to be lost.                           *)
Accounted ==
  lastSent # <<>> =>
    sent.audio <= lastSent[1].audio + received.audio + late.audio + window.lost

SpikeInv == Counted /\ Accounted /\ SpikeIgnored

(* A step that moves bad reports about, and adds none.                     *)
LEMMA Inherit ==
  ASSUME Counted, lossy' = lossy, NEW f \in [Int -> Int],
         \A n \in Int : BadAt(n)' => BadAt(f[n]),
         \A m, n \in Int : BadAt(m)' /\ BadAt(n)' /\ m # n => f[m] # f[n]
  PROVE  Counted'
<1>1. \A n \in Int : BadAt(n)' => lossy' >= 1
  BY DEF Counted
<1>2. \A m, n \in Int : BadAt(m)' /\ BadAt(n)' /\ m # n => lossy' >= 2
  BY DEF Counted
<1> QED BY <1>1, <1>2 DEF Counted

LEMMA MovedCounted ==
  ASSUME Typed, Counted, Moved, UNCHANGED <<window, prevLoss, lossy>>
  PROVE  Counted'
<1>1. PICK i \in 1 .. Len(wire) :
        /\ Len(wire') = Len(wire) - 1
        /\ \A k \in 1 .. Len(wire) - 1 : wire'[k] = IF k < i THEN wire[k] ELSE wire[k + 1]
        /\ \/ qualityChan' = qualityChan
           \/ \E off \in {0, 1} :
                /\ Len(qualityChan') = Len(qualityChan) - off + 1
                /\ Len(qualityChan) >= off
                /\ \A k \in 1 .. Len(qualityChan) - off : qualityChan'[k] = qualityChan[k + off]
                /\ qualityChan'[Len(qualityChan) - off + 1] = wire[i]
  BY DEF Moved
<1>2. Len(wire) \in Nat /\ Len(qualityChan) \in Nat /\ i \in Nat
  BY DEF Typed, TypeOK
<1>3. CASE qualityChan' = qualityChan
  <2> DEFINE f == [n \in Int |-> IF -1 - n >= i THEN n - 1 ELSE n]
  <2>1. f \in [Int -> Int] /\ \A m, n \in Int : m # n => f[m] # f[n]
    BY <1>2
  <2>2. ASSUME NEW n \in Int, BadAt(n)' PROVE BadAt(f[n])
    <3>1. f[n] = IF -1 - n >= i THEN n - 1 ELSE n
      OBVIOUS
    <3> HIDE DEF f
    <3>2. CASE n = -1 /\ window'.lost > 0
      <4>1. f[n] = -1
        BY <1>2, <3>1, <3>2
      <4> QED BY <3>2, <4>1 DEF BadAt
    <3>3. CASE n = 0 /\ prevLoss'.audio > 0
      <4>1. f[n] = 0
        BY <1>2, <3>1, <3>3
      <4> QED BY <3>3, <4>1 DEF BadAt
    <3>4. CASE n \in 1 .. Len(qualityChan') /\ qualityChan'[n].audio > 0
      <4>1. f[n] = n
        BY <1>2, <1>3, <3>1, <3>4
      <4> QED BY <1>3, <3>4, <4>1 DEF BadAt
    <3>5. CASE -1 - n \in 1 .. Len(wire') /\ wire'[-1 - n].audio > 0
      <4>1. -1 - n \in 1 .. Len(wire) - 1
        BY <1>1, <3>5
      <4>2. wire'[-1 - n] = wire[-1 - f[n]] /\ -1 - f[n] \in 1 .. Len(wire)
        <5>1. CASE -1 - n < i
          BY <1>1, <1>2, <3>1, <4>1, <5>1
        <5>2. CASE ~(-1 - n < i)
          <6>1. f[n] = n - 1 /\ -1 - (n - 1) = (-1 - n) + 1
            BY <1>2, <3>1, <5>2
          <6> QED BY <1>1, <1>2, <4>1, <5>2, <6>1
        <5> QED BY <5>1, <5>2
      <4> QED BY <3>5, <4>2 DEF BadAt
    <3> QED BY <2>2, <3>2, <3>3, <3>4, <3>5 DEF BadAt
  <2> HIDE DEF f
  <2> QED BY <2>1, <2>2, Inherit
<1>4. CASE \E off \in {0, 1} :
             /\ Len(qualityChan') = Len(qualityChan) - off + 1
             /\ Len(qualityChan) >= off
             /\ \A k \in 1 .. Len(qualityChan) - off : qualityChan'[k] = qualityChan[k + off]
             /\ qualityChan'[Len(qualityChan) - off + 1] = wire[i]
  <2>1. PICK off \in {0, 1} :
           /\ Len(qualityChan') = Len(qualityChan) - off + 1
           /\ Len(qualityChan) >= off
           /\ \A k \in 1 .. Len(qualityChan) - off : qualityChan'[k] = qualityChan[k + off]
           /\ qualityChan'[Len(qualityChan) - off + 1] = wire[i]
    BY <1>4
  <2> DEFINE f == [n \in Int |-> IF -1 - n >= i THEN n - 1
                                ELSE IF n = Len(qualityChan) - off + 1 THEN -1 - i
                                ELSE IF n > 0 THEN n + off ELSE n]
  <2>2. f \in [Int -> Int]
    BY <1>2, <2>1
  <2>3. \A m, n \in Int : m # n => f[m] # f[n]
    BY <1>2, <2>1
  <2>4. ASSUME NEW n \in Int, BadAt(n)' PROVE BadAt(f[n])
    <3>1. CASE n = -1 \/ n = 0
      <4>1. f[n] = n
        BY <1>2, <2>1, <3>1
      <4>2. window' = window /\ prevLoss' = prevLoss
        OBVIOUS
      <4>3. ~(n \in 1 .. Len(qualityChan')) /\ ~(-1 - n \in 1 .. Len(wire'))
        BY <3>1
      <4>4. (n = -1 /\ window.lost > 0) \/ (n = 0 /\ prevLoss.audio > 0)
        BY <2>4, <4>2, <4>3 DEF BadAt
      <4> QED BY <4>1, <4>4 DEF BadAt
    <3>2. CASE n \in 1 .. Len(qualityChan')
      <4>0. qualityChan'[n].audio > 0
        BY <1>2, <2>1, <2>4, <3>2 DEF BadAt
      <4>1. CASE n = Len(qualityChan) - off + 1
        <5>1. f[n] = -1 - i /\ wire[i].audio > 0
          BY <1>2, <2>1, <4>0, <4>1
        <5> HIDE DEF f
        <5>2. -1 - (-1 - i) = i /\ i \in 1 .. Len(wire)
          BY <1>2
        <5> QED BY <5>1, <5>2 DEF BadAt
      <4>2. CASE n # Len(qualityChan) - off + 1
        <5>1. f[n] = n + off /\ n \in 1 .. Len(qualityChan) - off
          BY <1>2, <2>1, <3>2, <4>2
        <5>2. n + off \in 1 .. Len(qualityChan) /\ qualityChan[n + off].audio > 0
          BY <1>2, <2>1, <4>0, <5>1
        <5> HIDE DEF f
        <5> QED BY <5>1, <5>2 DEF BadAt
      <4> QED BY <4>1, <4>2
    <3>3. CASE -1 - n \in 1 .. Len(wire')
      <4>0. wire'[-1 - n].audio > 0
        BY <1>1, <1>2, <2>1, <2>4, <3>3 DEF BadAt
      <4>1. CASE -1 - n >= i
        <5>1. f[n] = n - 1 /\ wire'[-1 - n] = wire[-1 - n + 1]
          BY <1>1, <1>2, <3>3, <4>1
        <5>2. -1 - (n - 1) = -1 - n + 1 /\ -1 - n + 1 \in 1 .. Len(wire)
          BY <1>1, <1>2, <3>3
        <5> HIDE DEF f
        <5> QED BY <4>0, <5>1, <5>2 DEF BadAt
      <4>2. CASE -1 - n < i
        <5>1. f[n] = n /\ wire'[-1 - n] = wire[-1 - n]
          BY <1>1, <1>2, <2>1, <3>3, <4>2
        <5>2. -1 - n \in 1 .. Len(wire)
          BY <1>1, <1>2, <3>3
        <5> HIDE DEF f
        <5> QED BY <4>0, <5>1, <5>2 DEF BadAt
      <4> QED BY <1>2, <4>1, <4>2
    <3> QED BY <2>4, <3>1, <3>2, <3>3 DEF BadAt
  <2> HIDE DEF f
  <2> QED BY <2>2, <2>3, <2>4, Inherit
<1> QED BY <1>1, <1>3, <1>4

(* A report that is acted on becomes prevLoss.                             *)
LEMMA AdaptCounted == Typed /\ SpikeInv /\ Adapt => Counted' /\ SpikeIgnored'
<1> SUFFICES ASSUME Typed, SpikeInv, Adapt PROVE Counted' /\ SpikeIgnored'
  OBVIOUS
<1>1. /\ qualityChan # <<>> /\ qualityChan' = Tail(qualityChan)
      /\ prevLoss' = Head(qualityChan)
      /\ currentBitrate' = AdaptOpusBitrate(AtMost(Head(qualityChan).audio, prevLoss.audio))
      /\ UNCHANGED <<wire, window, lossy>>
  BY DEF Adapt
<1>2. qualityChan \in Seq(Reports) /\ Len(wire) \in Nat /\ prevLoss \in Reports
  BY DEF Typed, TypeOK
<1>3. /\ Len(qualityChan) \in Nat \ {0} /\ Len(qualityChan') = Len(qualityChan) - 1
      /\ \A k \in 1 .. Len(qualityChan) - 1 : qualityChan'[k] = qualityChan[k + 1]
      /\ prevLoss' = qualityChan[1] /\ qualityChan[1] \in Reports
      /\ Head(qualityChan) = qualityChan[1]
  BY <1>1, <1>2
<1>4. Counted'
  <2> DEFINE f == [n \in Int |-> IF n >= 0 THEN n + 1 ELSE n]
  <2>1. f \in [Int -> Int] /\ \A m, n \in Int : m # n => f[m] # f[n]
    OBVIOUS
  <2>2. \A n \in Int : BadAt(n)' => BadAt(f[n])
    BY <1>1, <1>2, <1>3 DEF BadAt
  <2> HIDE DEF f
  <2> QED BY <1>1, <2>1, <2>2, Inherit DEF SpikeInv
<1>5. SpikeIgnored'
  <2> SUFFICES ASSUME currentBitrate' < baseOpusBitrate PROVE lossy' >= 2
    BY DEF SpikeIgnored
  <2> DEFINE a == Head(qualityChan).audio
             b == prevLoss.audio
  <2>1. a \in 0 .. 100 /\ b \in 0 .. 100
    BY <1>1, <1>2, <1>3 DEF Reports
  <2>2. currentBitrate' = AdaptOpusBitrate(AtMost(a, b))
    BY <1>1
  <2> HIDE DEF a, b
  <2>3. a >= 3 /\ b >= 3
    <3>1. base >= baseOpusBitrate /\ base \in Nat
      BY RateAssumption DEF base, floor
    <3> QED BY <2>1, <2>2, <3>1, RateAssumption DEF AdaptOpusBitrate, AtMost
  <2>4. BadAt(0)
    <3>1. prevLoss.audio > 0
      BY <2>1, <2>3 DEF b
    <3> QED BY <3>1 DEF BadAt
  <2>5. BadAt(1)
    <3>1. a = qualityChan[1].audio
      BY <1>3 DEF a
    <3>2. qualityChan[1].audio > 0
      BY <2>1, <2>3, <3>1
    <3> QED BY <1>3, <3>2 DEF BadAt
  <2> QED BY <1>1, <2>4, <2>5 DEF SpikeInv, Counted
<1> QED BY <1>4, <1>5

(* In a bad second a place becomes bad; a window that ends in a bad report *)
(* was bad.                                                                *)
LEMMA Budget ==
  ASSUME NEW s \in Nat, NEW r \in Nat, NEW la \in Nat, NEW l \in Nat, NEW m \in Nat,
         NEW audio \in Nat, NEW lost \in Nat, NEW b \in Nat, lost + b <= audio,
         s <= m + r + la + l
  PROVE  /\ s + audio <= m + (r + la + audio - lost - b) + b + (l + lost)
         /\ lost + b = 0 /\ r + la + audio - lost - b < s + audio - m => l > 0
OBVIOUS

LEMMA SecondCounted == Typed /\ SpikeInv /\ Second => SpikeInv'
<1> SUFFICES ASSUME Typed, SpikeInv, Second PROVE SpikeInv'
  OBVIOUS
<1>1. PICK audio \in Nat, lost \in [audio : Nat, fft : Nat],
           behind \in [audio : Nat, fft : {0, 1}] : Streamed(audio, lost, behind)
  BY SecondOf
<1> DEFINE mark == Mark(audio)
           got == Got(audio, lost, behind)
           w == Grown(audio, lost)
<1>2. /\ lost.audio + behind.audio <= audio
      /\ lost.audio \in Nat /\ behind.audio \in Nat
      /\ mark \in Counts /\ got \in [audio : Nat, fft : Nat]
      /\ w \in Windows /\ w.lost + behind.audio <= w.sent
      /\ sent' = mark /\ late' = behind
      /\ lossy' = IF lost.audio + behind.audio > 0 THEN lossy + 1 ELSE lossy
      /\ MarkArrives(mark, got, w, behind.audio) \/ MarkLost(got, w)
      /\ UNCHANGED <<pipelineVars, qualityChan>>
      /\ w.lost = window.lost + lost.audio
  BY <1>1, StreamedParts
<1>3. /\ mark.audio = sent.audio + audio
      /\ got.audio = received.audio + late.audio + audio - lost.audio - behind.audio
      /\ w.lost = window.lost + lost.audio
  BY <1>2 DEF Mark, Got
<1> HIDE DEF mark, got, w
<1>31. PICK la \in Nat, b \in Nat, lostAudio \in Nat :
         la = late.audio /\ b = behind.audio /\ lostAudio = lost.audio
  <2>1. late.audio \in Nat
    BY DEF Typed, TypeOK
  <2> QED BY <1>2, <2>1
<1>32. /\ lossy' = IF lostAudio + b > 0 THEN lossy + 1 ELSE lossy
       /\ lostAudio + b <= audio /\ late'.audio = b
       /\ mark.audio = sent.audio + audio /\ w.lost = window.lost + lostAudio
       /\ got.audio = received.audio + la + audio - lostAudio - b
  BY <1>2, <1>3, <1>31
<1>4. /\ sent.audio \in Nat /\ received.audio \in Nat /\ window.lost \in Nat
      /\ lastSent \in Seq(Counts) /\ lossy \in Nat
      /\ (lastSent # <<>> => lastSent[1].audio \in Nat)
      /\ Len(wire) \in Nat /\ Len(qualityChan) \in Nat
  <2>1. /\ sent \in Counts /\ received \in [audio : Nat, fft : Nat] /\ window.lost \in Nat
        /\ lastSent \in Seq(Counts) /\ lossy \in Nat
    BY DEF Typed, TypeOK, Counts, Windows
  <2>2. lastSent # <<>> => lastSent[1] \in Counts
    BY <2>1
  <2>3. Len(wire) \in Nat /\ Len(qualityChan) \in Nat
    BY DEF Typed, TypeOK
  <2> QED BY <2>1, <2>2, <2>3 DEF Counts
<1>5. UNCHANGED <<prevLoss, currentBitrate, qualityChan>>
  BY <1>2 DEF pipelineVars
<1>6. SpikeIgnored'
  BY <1>2, <1>4, <1>5 DEF SpikeInv, SpikeIgnored
<1>7. CASE MarkLost(got, w)
  <2>1. received' = got /\ window' = w /\ lastSent' = lastSent /\ wire' = wire
    BY <1>7 DEF MarkLost
  <2>2. Accounted'
    <3> SUFFICES ASSUME lastSent # <<>>
                 PROVE  mark.audio <= lastSent[1].audio + got.audio + b + w.lost
      BY <1>2, <1>32, <2>1 DEF Accounted
    <3>1. sent.audio <= lastSent[1].audio + received.audio + la + window.lost
      BY <1>31 DEF SpikeInv, Accounted
    <3>2. lastSent[1].audio \in Nat
      BY <1>4
    <3>3. lostAudio + b <= audio
      BY <1>32
    <3>4. sent.audio + audio <= lastSent[1].audio
            + (received.audio + la + audio - lostAudio - b) + b + (window.lost + lostAudio)
      BY <1>4, <3>1, <3>2, <3>3, Budget
    <3> QED BY <1>32, <3>4
  <2>3. \A n \in Int : BadAt(n)' => BadAt(n) \/ (n = -1 /\ lostAudio + b > 0)
    <3>1. window'.lost = window.lost + lostAudio
      BY <1>32, <2>1
    <3>2. window'.lost > 0 => window.lost > 0 \/ lostAudio + b > 0
      BY <1>4, <3>1
    <3> QED BY <1>5, <2>1, <3>2 DEF BadAt
  <2>4. Counted'
    <3>1. CASE lostAudio + b > 0
      <4>1. lossy' = lossy + 1
        BY <1>32, <3>1
      <4> QED BY <1>4, <2>3, <4>1 DEF SpikeInv, Counted
    <3>2. CASE ~(lostAudio + b > 0)
      <4>1. lossy' = lossy /\ \A n \in Int : BadAt(n)' => BadAt(n)
        BY <1>32, <2>3, <3>2
      <4> QED BY <4>1 DEF SpikeInv, Counted
    <3> QED BY <3>1, <3>2
  <2> QED BY <1>6, <2>2, <2>4 DEF SpikeInv
<1>8. CASE MarkArrives(mark, got, w, behind.audio)
  <2>1. /\ wire' = IF lastSent = <<>> THEN wire
                   ELSE Append(wire, Report(Sample(mark, got), Missing(w, b), Exact(w, b)))
        /\ lastSent' = <<mark>> /\ received' = NoLoss
        /\ window' = LossWindow(0, 0, b, FALSE)
    BY <1>8, <1>31 DEF MarkArrives, ObserveSeqMark
  <2>2. received'.audio = 0 /\ window'.lost = 0 /\ lastSent'[1] = mark
    BY <2>1 DEF NoLoss, LossWindow
  <2>3. Accounted'
    <3> SUFFICES mark.audio <= mark.audio + 0 + b + 0
      BY <1>2, <1>32, <2>2 DEF Accounted
    <3>1. mark.audio \in Nat
      BY <1>2 DEF Counts
    <3> QED BY <3>1
  <2>4. CASE lastSent = <<>>
    <3>1. wire' = wire
      BY <2>1, <2>4
    <3>2. \A n \in Int : BadAt(n)' => BadAt(n)
      BY <1>5, <2>2, <3>1 DEF BadAt
    <3>3. Counted'
      BY <1>2, <1>4, <3>2 DEF SpikeInv, Counted
    <3> QED BY <1>6, <2>3, <3>3 DEF SpikeInv
  <2>5. CASE lastSent # <<>>
    <3> DEFINE r == Report(Sample(mark, got), Missing(w, b), Exact(w, b))
    <3>0. PICK last \in Int : last = -2 - Len(wire)
      <4>1. -2 - Len(wire) \in Int
        BY <1>4
      <4> QED BY <4>1, Zenon
    <3>1. wire' = Append(wire, r)
      BY <2>1, <2>5
    <3>2. r \in Reports /\ r.audio = Sample(mark, got).audio
      BY <1>2, <1>31, <2>5, MarkReport
    <3> HIDE DEF r
    <3>3. r.audio > 0 => window.lost > 0 \/ lostAudio + b > 0
      <4> SUFFICES ASSUME r.audio > 0, ~(lostAudio + b > 0) PROVE window.lost > 0
        OBVIOUS
      <4>1. lostAudio + b = 0
        BY <1>31
      <4>2. /\ mark.audio >= lastSent[1].audio
            /\ r.audio = Pct(mark.audio - lastSent[1].audio, got.audio)
        <5>1. mark \in Counts /\ got \in [audio : Nat, fft : Nat] /\ lastSent \in Seq(Counts)
          BY <1>2, <1>4
        <5>2. ~WentBack(mark)
          BY <2>5, <3>2, <5>1, SampleType
        <5> QED BY <2>5, <3>2, <5>1, <5>2, SampleType
      <4>3. mark.audio \in Nat /\ got.audio \in Nat /\ lastSent[1].audio \in Nat
        BY <1>2, <1>4, <2>5 DEF Counts
      <4>4. got.audio < mark.audio - lastSent[1].audio
        BY <4>2, <4>3 DEF Pct
      <4>5. sent.audio <= lastSent[1].audio + received.audio + la + window.lost
        BY <1>31, <2>5 DEF SpikeInv, Accounted
      <4>6. received.audio + la + audio - lostAudio - b < sent.audio + audio - lastSent[1].audio
        <5>1. /\ got.audio = received.audio + la + audio - lostAudio - b
              /\ mark.audio = sent.audio + audio
          BY <1>32
        <5>2. sent.audio \in Nat /\ received.audio \in Nat
          BY <1>4
        <5> QED BY <4>3, <4>4, <5>1, <5>2
      <4>7. lostAudio + b <= audio
        BY <1>32
      <4> QED BY <1>4, <4>1, <4>3, <4>5, <4>6, <4>7, Budget
    <3>4. wire \in Seq(Reports) /\ r \in Reports
      BY <3>2 DEF Typed, TypeOK
    <3>5. /\ Len(wire') = Len(wire) + 1 /\ wire'[Len(wire) + 1] = r
          /\ \A k \in 1 .. Len(wire) : wire'[k] = wire[k]
      BY <3>1, <3>4
    <3>6. ASSUME BadAt(last)' PROVE BadAt(-1) \/ lostAudio + b > 0
      <4>1. r.audio > 0
        <5>1. last = -2 - Len(wire) /\ -1 - last = Len(wire) + 1
          BY <1>4, <3>0
        <5> QED BY <1>4, <1>5, <2>2, <3>5, <3>6, <5>1 DEF BadAt
      <4> QED BY <3>3, <4>1 DEF BadAt
    <3>7. ASSUME NEW n \in Int, BadAt(n)', n # last PROVE BadAt(n) /\ n # -1
      <4>1. ~(window'.lost > 0)
        BY <2>2
      <4>2. CASE -1 - n \in 1 .. Len(wire')
        <5>1. -1 - n \in 1 .. Len(wire)
          BY <1>4, <3>0, <3>5, <3>7, <4>2
        <5>2. wire[-1 - n].audio > 0
          BY <1>4, <3>5, <3>7, <4>2, <5>1 DEF BadAt
        <5> QED BY <1>4, <5>1, <5>2 DEF BadAt
      <4>3. CASE n = 0 /\ prevLoss'.audio > 0
        BY <1>5, <4>3 DEF BadAt
      <4>4. CASE n \in 1 .. Len(qualityChan') /\ qualityChan'[n].audio > 0
        BY <1>4, <1>5, <4>4 DEF BadAt
      <4> QED BY <3>7, <4>1, <4>2, <4>3, <4>4 DEF BadAt
    <3>9. Counted'
      <4>1. CASE lostAudio + b > 0
        <5>1. lossy' = lossy + 1
          BY <1>2, <1>31, <4>1
        <5>2. \A n \in Int : BadAt(n)' /\ n # last => lossy >= 1
          BY <3>7 DEF SpikeInv, Counted
        <5> QED BY <1>4, <5>1, <5>2 DEF Counted
      <4>2. CASE ~(lostAudio + b > 0)
        <5> DEFINE f == [n \in Int |-> IF n = last THEN -1 ELSE n]
        <5>1. f \in [Int -> Int]
          OBVIOUS
        <5>2. ASSUME NEW n \in Int, BadAt(n)' PROVE BadAt(f[n])
          <6>1. CASE n = last
            <7>0. BadAt(last)'
              BY <5>2, <6>1 DEF BadAt
            <7>1. BadAt(-1)
              BY <3>6, <4>2, <7>0
            <7>2. f[n] = -1
              BY <5>2, <6>1
            <7> QED BY <7>1, <7>2
          <6>2. CASE n # last
            BY <3>7, <5>2, <6>2
          <6> QED BY <6>1, <6>2
        <5>3. \A m, n \in Int : BadAt(m)' /\ BadAt(n)' /\ m # n => f[m] # f[n]
          BY <3>7
        <5>4. lossy' = lossy
          BY <1>2, <1>31, <4>2
        <5> HIDE DEF f
        <5> QED BY <5>1, <5>2, <5>3, <5>4, Inherit DEF SpikeInv
      <4> QED BY <4>1, <4>2
    <3> QED BY <1>6, <2>3, <3>9 DEF SpikeInv
  <2> QED BY <2>4, <2>5
<1> QED BY <1>2, <1>7, <1>8

(* One bad second never lowers the bitrate, wherever it falls between the  *)
(* marks, whichever marks are lost and reports dropped, replaced or        *)
(* overtaken.                                                              *)
THEOREM OneSpikeIgnored == Spec => []SpikeIgnored
<1>1. Init => SpikeInv
  <2> SUFFICES ASSUME Init PROVE SpikeInv
    OBVIOUS
  <2>1. /\ window.lost = 0 /\ prevLoss.audio = 0 /\ qualityChan = <<>> /\ wire = <<>>
        /\ lastSent = <<>> /\ currentBitrate = baseOpusBitrate
    BY DEF Init, LossWindow, NoReport, Report, NoLoss
  <2>2. \A n \in Int : ~BadAt(n)
    BY <2>1 DEF BadAt
  <2> QED BY <2>1, <2>2, RateAssumption DEF SpikeInv, Counted, Accounted, SpikeIgnored
<1>2. Typed /\ SpikeInv /\ [Next]_vars => SpikeInv'
  <2> SUFFICES ASSUME Typed, SpikeInv, [Next]_vars PROVE SpikeInv'
    OBVIOUS
  <2>1. CASE Restart
    <3>1. /\ sent'.audio = 0 /\ prevLoss'.audio = 0 /\ qualityChan' = <<>>
          /\ window'.lost = window.lost /\ wire' = wire /\ lossy' = lossy
          /\ lastSent' = lastSent /\ received' = received /\ late' = late
          /\ currentBitrate' = baseOpusBitrate
      BY <2>1 DEF Restart, Zero, NoReport, Report, NoLoss, LossWindow, clientVars
    <3>2. \A n \in Int : BadAt(n)' => BadAt(n)
      BY <3>1 DEF BadAt
    <3>3. Counted'
      BY <3>1, <3>2 DEF SpikeInv, Counted
    <3>4. Accounted'
      <4> SUFFICES ASSUME lastSent # <<>>
                   PROVE  0 <= lastSent[1].audio + received.audio + late.audio + window.lost
        BY <3>1 DEF Accounted
      <4>1. /\ lastSent[1] \in Counts /\ received.audio \in Nat
            /\ late.audio \in Nat /\ window.lost \in Nat
        BY DEF Typed, TypeOK, Windows
      <4> QED BY <4>1 DEF Counts
    <3>5. SpikeIgnored'
      BY <3>1, RateAssumption DEF SpikeIgnored
    <3> QED BY <3>3, <3>4, <3>5 DEF SpikeInv
  <2>2. CASE Second
    BY <2>2, SecondCounted
  <2>3. CASE CmdQualityReport \/ ReportLost
    <3>1. UNCHANGED <<sent, pipelineVars, clientVars, late, window, lossy>>
      BY <2>3 DEF CmdQualityReport, ReportLost
    <3>2. UNCHANGED <<sent, prevLoss, currentBitrate, lastSent, received, late, window, lossy>>
      BY <3>1 DEF pipelineVars, clientVars
    <3>3. Counted'
      BY <2>3, <3>2, QueueMoves, MovedCounted DEF SpikeInv
    <3> QED BY <3>2, <3>3 DEF SpikeInv, Accounted, SpikeIgnored
  <2>4. CASE Adapt
    <3>1. Accounted'
      BY <2>4 DEF Adapt, SpikeInv, Accounted, clientVars
    <3> QED BY <2>4, <3>1, AdaptCounted DEF SpikeInv
  <2>5. CASE Rebuild \/ UNCHANGED vars
    <3>1. UNCHANGED <<sent, prevLoss, currentBitrate, lastSent, received, late, window,
                      lossy, wire, qualityChan>>
      BY <2>5 DEF Rebuild, vars, pipelineVars, clientVars, historyVars
    <3>2. \A n \in Int : BadAt(n)' <=> BadAt(n)
      BY <3>1 DEF BadAt
    <3> QED BY <3>1, <3>2 DEF SpikeInv, Counted, Accounted, SpikeIgnored
  <2> QED BY <2>1, <2>2, <2>3, <2>4, <2>5 DEF Next
<1>3. SpikeInv => SpikeIgnored
  BY DEF SpikeInv
<1> QED BY <1>1, <1>2, <1>3, Always, PTL DEF Spec

-----------------------------------------------------------------------------
(* Reports tell the truth.                                                 *)
Honest(r) == r.audio <= r.truth /\ (r.exact => r.audio = r.truth)

(* What the client has counted since the mark it remembers, and what is    *)
(* still under way, is what was sent and not lost, and what that mark      *)
(* overtook; the window on the server's counters is as long, or shorter if *)
(* they started over in it.                                                *)
Tracks ==
  lastSent # <<>> =>
    /\ received.audio + late.audio + window.lost = window.sent + window.early
    /\ sent.audio <= lastSent[1].audio + window.sent
    /\ ~window.restarted => /\ sent.audio = lastSent[1].audio + window.sent
                            /\ sent.fft >= lastSent[1].fft
                            /\ sent.status >= lastSent[1].status

Decided ==
  \/ currentBitrate = AdaptOpusBitrate(AtMost(prevLoss.audio, before.audio))
  \/ prevLoss = NoReport /\ currentBitrate = baseOpusBitrate

HonestInv ==
  /\ Tracks /\ Decided /\ Honest(prevLoss) /\ Honest(before)
  /\ \A i \in 1 .. Len(wire) : Honest(wire[i])
  /\ \A i \in 1 .. Len(qualityChan) : Honest(qualityChan[i])

LEMMA NoReportHonest == Honest(NoReport) /\ NoReport.audio = 0
BY DEF Honest, NoReport, Report, NoLoss

(* The report that a mark gives rise to, when the counters may have        *)
(* started over, and when they have not: of the window l is missing, and   *)
(* e of an earlier one came in it.                                         *)
LEMMA SampleAtMost ==
  ASSUME NEW s \in Nat, NEW l \in Nat, l <= s, NEW e \in Nat,
         lastSent \in Seq(Counts), lastSent # <<>>, NEW mark \in Counts,
         NEW got \in [audio : Nat, fft : Nat], got.audio = s - l + e,
         mark.audio <= lastSent[1].audio + s
  PROVE  Sample(mark, got).audio <= Pct(s, s - l)
<1>1. lastSent[1] \in Counts
  OBVIOUS
<1>2. lastSent[1].audio \in Nat /\ mark.audio \in Nat /\ s - l \in Nat
  BY <1>1 DEF Counts
<1>3. CASE WentBack(mark)
  <2>1. Sample(mark, got).audio = 0
    BY <1>3, SampleType
  <2> QED BY <1>2, <2>1, PctAtLeast
<1>4. CASE ~WentBack(mark)
  <2>1. /\ mark.audio >= lastSent[1].audio
        /\ Sample(mark, got).audio = Pct(mark.audio - lastSent[1].audio, s - l + e)
    BY <1>4, SampleType
  <2>2. PICK n \in Nat, k \in Nat :
          n = mark.audio - lastSent[1].audio /\ k = s - n /\ n = s - k /\ k <= s
    <3>1. mark.audio - lastSent[1].audio \in Nat /\ s - (mark.audio - lastSent[1].audio) \in Nat
      BY <1>2, <2>1
    <3>2. PICK n \in Nat : n = mark.audio - lastSent[1].audio
      BY <3>1
    <3>3. n <= s
      BY <1>2, <2>1, <3>2
    <3>4. s - n \in Nat /\ n = s - (s - n) /\ s - n <= s
      BY <3>3
    <3> QED BY <3>2, <3>4
  <2>3. Pct(s - k, s - l) <= Pct(s, s - l)
    BY <2>2, PctOfFewer
  <2>4. Pct(n, s - l + e) <= Pct(n, s - l)
    BY <1>2, PctOfMore
  <2>5. PICK x \in 0 .. 100, y \in 0 .. 100, z \in 0 .. 100 :
          x = Pct(n, s - l + e) /\ y = Pct(n, s - l) /\ z = Pct(s, s - l)
    <3>1. s - l + e \in Nat
      BY <1>2
    <3>2. /\ Pct(n, s - l + e) \in 0 .. 100 /\ Pct(n, s - l) \in 0 .. 100
          /\ Pct(s, s - l) \in 0 .. 100
      BY <1>2, <3>1, PctRange
    <3> QED BY <3>2, Zenon
  <2>6. x <= y /\ y <= z
    BY <2>2, <2>3, <2>4, <2>5
  <2>7. x <= z
    BY <2>6
  <2> QED BY <2>1, <2>2, <2>5, <2>7
<1> QED BY <1>3, <1>4

LEMMA SampleExact ==
  ASSUME NEW s \in Nat,
         lastSent \in Seq(Counts), lastSent # <<>>, NEW mark \in Counts,
         NEW got \in [audio : Nat, fft : Nat],
         mark.audio = lastSent[1].audio + s,
         mark.fft >= lastSent[1].fft, mark.status >= lastSent[1].status
  PROVE  Sample(mark, got).audio = Pct(s, got.audio)
<1>1. lastSent[1] \in Counts
  OBVIOUS
<1>2. /\ lastSent[1].audio \in Nat /\ lastSent[1].fft \in Nat /\ lastSent[1].status \in Nat
      /\ mark.audio \in Nat /\ mark.fft \in Nat /\ mark.status \in Nat
  BY <1>1 DEF Counts
<1>3. DOMAIN mark = {"audio", "fft", "status"}
  BY DEF Counts
<1>4. ~WentBack(mark)
  <2> SUFFICES ASSUME NEW c \in {"audio", "fft", "status"}, mark[c] < lastSent[1][c]
               PROVE  FALSE
    BY <1>3 DEF WentBack
  <2>1. mark.audio >= lastSent[1].audio
    BY <1>2
  <2>2. CASE c = "audio" BY <1>2, <2>1, <2>2
  <2>3. CASE c = "fft" BY <1>2, <2>3
  <2>4. CASE c = "status" BY <1>2, <2>4
  <2> QED BY <2>2, <2>3, <2>4
<1>5. Sample(mark, got).audio = Pct(mark.audio - lastSent[1].audio, got.audio)
  BY <1>4, SampleType
<1>6. mark.audio - lastSent[1].audio = s
  BY <1>2
<1> QED BY <1>5, <1>6

LEMMA Books ==
  ASSUME NEW s \in Nat, NEW r \in Nat, NEW l \in Nat, NEW m \in Nat, NEW t \in Nat,
         NEW la \in Nat, NEW e \in Nat, NEW audio \in Nat, NEW lost \in Nat, NEW b \in Nat,
         lost + b <= audio, r + la + l = s + e, t <= m + s
  PROVE  /\ r + la + audio - lost - b = s + audio - (l + lost + b) + e
         /\ t + audio <= m + (s + audio)
         /\ t = m + s => t + audio = m + (s + audio)
OBVIOUS

(* A second keeps the books, and a report made at its end is honest.       *)
LEMMA SecondHonest == Typed /\ HonestInv /\ Second => HonestInv'
<1> SUFFICES ASSUME Typed, HonestInv, Second PROVE HonestInv'
  OBVIOUS
<1>1. PICK audio \in Nat, lost \in [audio : Nat, fft : Nat],
           behind \in [audio : Nat, fft : {0, 1}] : Streamed(audio, lost, behind)
  BY SecondOf
<1> DEFINE mark == Mark(audio)
           got == Got(audio, lost, behind)
           w == Grown(audio, lost)
<1>2. /\ lost.audio + behind.audio <= audio
      /\ lost.audio \in Nat /\ behind.audio \in Nat
      /\ mark \in Counts /\ got \in [audio : Nat, fft : Nat]
      /\ w \in Windows /\ w.lost + behind.audio <= w.sent
      /\ w.sent = window.sent + audio /\ w.lost = window.lost + lost.audio
      /\ w.early = window.early /\ w.restarted = window.restarted
      /\ sent' = mark /\ late' = behind
      /\ MarkArrives(mark, got, w, behind.audio) \/ MarkLost(got, w)
      /\ UNCHANGED <<pipelineVars, qualityChan, before>>
  BY <1>1, StreamedParts
<1>3. Spectra \in Nat /\ statusRate \in Nat
  BY SpectraType, RateAssumption
<1>31. PICK la \in Nat, b \in Nat, lostAudio \in Nat, e \in Nat :
         /\ la = late.audio /\ b = behind.audio /\ lostAudio = lost.audio
         /\ e = window.early
  <2>1. late.audio \in Nat /\ window.early \in Nat
    BY DEF Typed, TypeOK, Windows
  <2> QED BY <1>2, <2>1
<1>4. /\ mark.audio = sent.audio + audio /\ mark.fft = sent.fft + Spectra
      /\ mark.status = sent.status + statusRate
      /\ got.audio = received.audio + la + audio - lostAudio - b
      /\ w.sent = window.sent + audio /\ w.lost = window.lost + lostAudio
      /\ w.restarted = window.restarted /\ w.early = e
  BY <1>2, <1>31 DEF Mark, Got
<1> HIDE DEF mark, got, w
<1>5. /\ sent \in Counts /\ received \in [audio : Nat, fft : Nat]
      /\ window.lost \in Nat /\ window.sent \in Nat /\ window.lost <= window.sent
      /\ lastSent \in Seq(Counts) /\ wire \in Seq(Reports)
      /\ (lastSent # <<>> => lastSent[1] \in Counts)
  <2>1. /\ sent \in Counts /\ received \in [audio : Nat, fft : Nat] /\ wire \in Seq(Reports)
    BY DEF Typed, TypeOK, Counts
  <2>2. /\ window.lost \in Nat /\ window.sent \in Nat /\ window.lost <= window.sent
        /\ lastSent \in Seq(Counts)
    BY DEF Typed, Windows
  <2>3. lastSent # <<>> => lastSent[1] \in Counts
    BY <2>2
  <2> QED BY <2>1, <2>2, <2>3
<1>6. UNCHANGED <<prevLoss, currentBitrate, qualityChan, before>>
  BY <1>2 DEF pipelineVars
<1>7. /\ Decided' /\ Honest(prevLoss)' /\ Honest(before)'
      /\ (\A i \in 1 .. Len(qualityChan) : Honest(qualityChan[i]))'
  BY <1>6 DEF HonestInv, Decided, Honest
<1>8. ASSUME lastSent # <<>>
      PROVE  /\ got.audio = w.sent - (w.lost + b) + e
             /\ mark.audio <= lastSent[1].audio + w.sent
             /\ ~w.restarted => /\ mark.audio = lastSent[1].audio + w.sent
                                /\ mark.fft >= lastSent[1].fft
                                /\ mark.status >= lastSent[1].status
  <2>1. /\ received.audio + la + window.lost = window.sent + e
        /\ sent.audio <= lastSent[1].audio + window.sent
        /\ ~window.restarted => /\ sent.audio = lastSent[1].audio + window.sent
                                /\ sent.fft >= lastSent[1].fft
                                /\ sent.status >= lastSent[1].status
    BY <1>8, <1>31 DEF HonestInv, Tracks
  <2>2. /\ sent.audio \in Nat /\ sent.fft \in Nat /\ sent.status \in Nat
        /\ received.audio \in Nat /\ lastSent[1].audio \in Nat
        /\ lastSent[1].fft \in Nat /\ lastSent[1].status \in Nat
    BY <1>5, <1>8 DEF Counts
  <2>7. lostAudio + b <= audio
    BY <1>2, <1>31
  <2>9. /\ received.audio + la + window.lost = window.sent + e
        /\ sent.audio <= lastSent[1].audio + window.sent
    BY <2>1
  <2>10. /\ sent.audio \in Nat /\ received.audio \in Nat /\ lastSent[1].audio \in Nat
        /\ window.lost \in Nat /\ window.sent \in Nat
    BY <1>5, <2>2
  <2>8. /\ received.audio + la + audio - lostAudio - b
             = window.sent + audio - (window.lost + lostAudio + b) + e
        /\ sent.audio + audio <= lastSent[1].audio + (window.sent + audio)
        /\ (sent.audio = lastSent[1].audio + window.sent
              => sent.audio + audio = lastSent[1].audio + (window.sent + audio))
    BY <2>7, <2>9, <2>10, Books
  <2>3. got.audio = w.sent - (w.lost + b) + e
    <3>1. /\ got.audio = received.audio + la + audio - lostAudio - b
          /\ w.sent = window.sent + audio /\ w.lost = window.lost + lostAudio
      BY <1>4
    <3> QED BY <2>8, <2>10, <3>1
  <2>4. mark.audio <= lastSent[1].audio + w.sent
    BY <1>4, <2>8
  <2>5. ~w.restarted => mark.audio = lastSent[1].audio + w.sent
    BY <1>4, <2>1, <2>8
  <2>6. ~w.restarted => mark.fft >= lastSent[1].fft /\ mark.status >= lastSent[1].status
    BY <1>3, <1>4, <2>1, <2>2
  <2> QED BY <2>3, <2>4, <2>5, <2>6
<1>9. w.sent \in Nat /\ w.lost \in Nat /\ w.lost + b <= w.sent
  BY <1>2, <1>31 DEF Windows
<1>10. CASE MarkLost(got, w)
  <2>1. received' = got /\ window' = w /\ lastSent' = lastSent /\ wire' = wire
    BY <1>10 DEF MarkLost
  <2>2. Tracks'
    <3> SUFFICES ASSUME lastSent # <<>>
                 PROVE  /\ got.audio + b + w.lost = w.sent + e
                        /\ mark.audio <= lastSent[1].audio + w.sent
                        /\ ~w.restarted => /\ mark.audio = lastSent[1].audio + w.sent
                                           /\ mark.fft >= lastSent[1].fft
                                           /\ mark.status >= lastSent[1].status
      BY <1>2, <1>31, <1>4, <2>1 DEF Tracks
    <3>1. got.audio + b + w.lost = w.sent + e
      BY <1>8, <1>9
    <3> QED BY <1>8, <3>1
  <2>3. (\A i \in 1 .. Len(wire) : Honest(wire[i]))'
    BY <2>1 DEF HonestInv, Honest
  <2> QED BY <1>7, <2>2, <2>3 DEF HonestInv
<1>11. CASE MarkArrives(mark, got, w, behind.audio)
  <2>1. /\ wire' = IF lastSent = <<>> THEN wire
                   ELSE Append(wire, Report(Sample(mark, got), Missing(w, b), Exact(w, b)))
        /\ lastSent' = <<mark>> /\ received' = NoLoss
        /\ window' = LossWindow(0, 0, b, FALSE)
    BY <1>11, <1>31 DEF MarkArrives, ObserveSeqMark
  <2>2. Tracks'
    <3>1. /\ received'.audio = 0 /\ window'.lost = 0 /\ window'.sent = 0
          /\ window'.early = b /\ late'.audio = b
          /\ lastSent'[1] = mark /\ sent' = mark
      BY <1>2, <1>31, <2>1 DEF NoLoss, LossWindow
    <3>2. mark.audio \in Nat /\ mark.fft \in Nat /\ mark.status \in Nat
      BY <1>2 DEF Counts
    <3> QED BY <3>1, <3>2 DEF Tracks
  <2>3. (\A i \in 1 .. Len(wire) : Honest(wire[i]))'
    <3>1. CASE lastSent = <<>>
      BY <2>1, <3>1 DEF HonestInv, Honest
    <3>2. CASE lastSent # <<>>
      <4> DEFINE r == Report(Sample(mark, got), Missing(w, b), Exact(w, b))
      <4>1. PICK s \in Nat, l \in Nat : s = w.sent /\ l = w.lost + b
        BY <1>9
      <4>2. w.sent - w.lost - b = s - l /\ l <= s
        BY <1>9, <4>1
      <4>3. /\ r.audio = Sample(mark, got).audio /\ r.truth = Pct(s, s - l)
            /\ r.exact = (~w.restarted /\ w.early = 0 /\ b = 0)
        <5>1. mark \in Counts /\ got \in [audio : Nat, fft : Nat] /\ w \in Windows
          BY <1>2
        <5>2. w.lost + b <= w.sent
          BY <1>9
        <5>3. /\ r.audio = Sample(mark, got).audio
              /\ r.truth = Pct(w.sent, w.sent - w.lost - b)
              /\ r.exact = (~w.restarted /\ w.early = 0 /\ b = 0)
          BY <3>2, <5>1, <5>2, MarkReport
        <5> HIDE DEF r
        <5> QED BY <4>1, <4>2, <5>3
      <4> HIDE DEF r
      <4>31. /\ lastSent \in Seq(Counts) /\ lastSent # <<>> /\ mark \in Counts
             /\ got \in [audio : Nat, fft : Nat]
             /\ got.audio = s - l + e /\ mark.audio <= lastSent[1].audio + s
        BY <1>2, <1>5, <1>8, <3>2, <4>1
      <4>4. Honest(r)
        <5>1. r.audio <= r.truth
          <6>1. Sample(mark, got).audio <= Pct(s, s - l)
            BY <4>2, <4>31, SampleAtMost
          <6> QED BY <4>3, <6>1
        <5>2. ASSUME r.exact PROVE r.audio = r.truth
          <6>1. ~w.restarted /\ e = 0
            BY <1>4, <4>3, <5>2
          <6>2. /\ got.audio = s - l /\ mark.audio = lastSent[1].audio + s
                /\ mark.fft >= lastSent[1].fft /\ mark.status >= lastSent[1].status
            BY <1>8, <3>2, <4>1, <4>31, <6>1
          <6>3. Sample(mark, got).audio = Pct(s, s - l)
            <7>1. /\ lastSent \in Seq(Counts) /\ lastSent # <<>> /\ mark \in Counts
                  /\ got \in [audio : Nat, fft : Nat]
              BY <4>31
            <7>2. /\ mark.audio = lastSent[1].audio + s
                  /\ mark.fft >= lastSent[1].fft /\ mark.status >= lastSent[1].status
              BY <6>2
            <7>3. Sample(mark, got).audio = Pct(s, got.audio)
              BY <7>1, <7>2, SampleExact
            <7> QED BY <6>2, <7>3
          <6> QED BY <4>3, <6>3
        <5> QED BY <5>1, <5>2 DEF Honest
      <4>5. wire' = Append(wire, r)
        BY <2>1, <3>2 DEF r
      <4>6. /\ Len(wire') = Len(wire) + 1 /\ wire'[Len(wire) + 1] = r
            /\ \A k \in 1 .. Len(wire) : wire'[k] = wire[k]
        BY <1>5, <4>5
      <4>7. ASSUME NEW i \in 1 .. Len(wire') PROVE Honest(wire'[i])
        <5>1. CASE i = Len(wire) + 1
          BY <4>4, <4>6, <5>1
        <5>2. CASE i # Len(wire) + 1
          <6>1. Len(wire) \in Nat
            BY <1>5
          <6>2. i \in 1 .. Len(wire)
            BY <4>6, <5>2, <6>1
          <6> QED BY <4>6, <6>2 DEF HonestInv
        <5> QED BY <5>1, <5>2
      <4> QED BY <4>7 DEF Honest
    <3> QED BY <3>1, <3>2
  <2> QED BY <1>7, <2>2, <2>3 DEF HonestInv
<1> QED BY <1>2, <1>10, <1>11

LEMMA HonestStays == Typed /\ HonestInv /\ [Next]_vars => HonestInv'
<1> SUFFICES ASSUME Typed, HonestInv, [Next]_vars PROVE HonestInv'
  OBVIOUS
<1>0. /\ wire \in Seq(Reports) /\ qualityChan \in Seq(Reports)
      /\ Len(wire) \in Nat /\ Len(qualityChan) \in Nat
  BY DEF Typed, TypeOK
<1>1. CASE Restart
  <2>1. /\ sent'.audio = 0 /\ prevLoss' = NoReport /\ before' = NoReport
        /\ qualityChan' = <<>> /\ currentBitrate' = baseOpusBitrate
        /\ window'.sent = window.sent /\ window'.lost = window.lost
        /\ window'.early = window.early /\ window'.restarted
        /\ UNCHANGED <<wire, lastSent, received, late>>
    BY <1>1 DEF Restart, Zero, clientVars, Typed, Windows
  <2>2. Tracks'
    <3> SUFFICES ASSUME lastSent # <<>>
                 PROVE  /\ received.audio + late.audio + window.lost
                             = window.sent + window.early
                        /\ 0 <= lastSent[1].audio + window.sent
      BY <2>1 DEF Tracks
    <3>1. lastSent[1] \in Counts /\ window.sent \in Nat
      BY DEF Typed, Windows
    <3>2. lastSent[1].audio \in Nat
      BY <3>1 DEF Counts
    <3> QED BY <3>1, <3>2 DEF HonestInv, Tracks
  <2>3. Decided' /\ Honest(prevLoss)' /\ Honest(before)'
    BY <2>1, NoReportHonest DEF Decided, Honest
  <2>4. /\ (\A i \in 1 .. Len(wire) : Honest(wire[i]))'
        /\ (\A i \in 1 .. Len(qualityChan) : Honest(qualityChan[i]))'
    BY <2>1 DEF HonestInv, Honest
  <2> QED BY <2>2, <2>3, <2>4 DEF HonestInv
<1>2. CASE Second
  BY <1>2, SecondHonest
<1>3. CASE CmdQualityReport \/ ReportLost
  <2>1. UNCHANGED <<sent, pipelineVars, clientVars, late, window, before>>
    BY <1>3 DEF CmdQualityReport, ReportLost
  <2>2. UNCHANGED <<sent, prevLoss, currentBitrate, lastSent, received, late, window, before>>
    BY <2>1 DEF pipelineVars, clientVars
  <2>3. Tracks' /\ Decided' /\ Honest(prevLoss)' /\ Honest(before)'
    BY <2>2 DEF HonestInv, Tracks, Decided, Honest
  <2>4. PICK i \in 1 .. Len(wire) :
          /\ Len(wire') = Len(wire) - 1
          /\ \A k \in 1 .. Len(wire) - 1 : wire'[k] = IF k < i THEN wire[k] ELSE wire[k + 1]
          /\ \/ qualityChan' = qualityChan
             \/ \E off \in {0, 1} :
                  /\ Len(qualityChan') = Len(qualityChan) - off + 1
                  /\ Len(qualityChan) >= off
                  /\ \A k \in 1 .. Len(qualityChan) - off : qualityChan'[k] = qualityChan[k + off]
                  /\ qualityChan'[Len(qualityChan) - off + 1] = wire[i]
    BY <1>3, QueueMoves DEF Moved
  <2>5. \A k \in 1 .. Len(wire) : Honest(wire[k])
    BY DEF HonestInv
  <2>6. \A k \in 1 .. Len(qualityChan) : Honest(qualityChan[k])
    BY DEF HonestInv
  <2>7. \A k \in 1 .. Len(wire') : Honest(wire'[k])
    BY <1>0, <2>4, <2>5
  <2>8. \A k \in 1 .. Len(qualityChan') : Honest(qualityChan'[k])
    <3>1. CASE qualityChan' = qualityChan
      BY <2>6, <3>1
    <3>2. ASSUME NEW off \in {0, 1},
                 Len(qualityChan') = Len(qualityChan) - off + 1, Len(qualityChan) >= off,
                 \A k \in 1 .. Len(qualityChan) - off : qualityChan'[k] = qualityChan[k + off],
                 qualityChan'[Len(qualityChan) - off + 1] = wire[i],
                 NEW k \in 1 .. Len(qualityChan')
          PROVE  Honest(qualityChan'[k])
      <4>1. CASE k = Len(qualityChan) - off + 1
        BY <2>5, <3>2, <4>1
      <4>2. CASE k # Len(qualityChan) - off + 1
        <5>1. k \in 1 .. Len(qualityChan) - off /\ k + off \in 1 .. Len(qualityChan)
          BY <1>0, <3>2, <4>2
        <5> QED BY <2>6, <3>2, <5>1
      <4> QED BY <4>1, <4>2
    <3> QED BY <2>4, <3>1, <3>2
  <2> QED BY <2>3, <2>7, <2>8 DEF HonestInv, Honest
<1>4. CASE Adapt
  <2>1. /\ qualityChan # <<>> /\ qualityChan' = Tail(qualityChan)
        /\ prevLoss' = Head(qualityChan) /\ before' = prevLoss
        /\ currentBitrate' = AdaptOpusBitrate(AtMost(Head(qualityChan).audio, prevLoss.audio))
        /\ UNCHANGED <<sent, clientVars, late, window, wire>>
    BY <1>4 DEF Adapt
  <2>2. UNCHANGED <<sent, lastSent, received, late, window, wire>>
    BY <2>1 DEF clientVars
  <2>3. Tracks' /\ Decided' /\ Honest(before)'
    BY <2>1, <2>2 DEF HonestInv, Tracks, Decided, Honest
  <2>4. /\ prevLoss' = qualityChan[1] /\ Len(qualityChan') = Len(qualityChan) - 1
        /\ 1 \in 1 .. Len(qualityChan)
        /\ \A k \in 1 .. Len(qualityChan) - 1 : qualityChan'[k] = qualityChan[k + 1]
    BY <1>0, <2>1
  <2>5. \A k \in 1 .. Len(qualityChan) : Honest(qualityChan[k])
    BY DEF HonestInv
  <2>6. \A k \in 1 .. Len(qualityChan') : Honest(qualityChan'[k])
    BY <1>0, <2>4, <2>5
  <2>7. Honest(prevLoss')
    BY <2>4, <2>5
  <2>8. (\A i \in 1 .. Len(wire) : Honest(wire[i]))'
    BY <2>2 DEF HonestInv, Honest
  <2> QED BY <2>3, <2>6, <2>7, <2>8 DEF HonestInv, Honest
<1>5. CASE Rebuild \/ UNCHANGED vars
  <2>1. UNCHANGED <<sent, prevLoss, currentBitrate, lastSent, received, late, window,
                    before, wire, qualityChan>>
    BY <1>5 DEF Rebuild, vars, pipelineVars, clientVars, historyVars
  <2> QED BY <2>1 DEF HonestInv, Tracks, Decided, Honest
<1> QED BY <1>1, <1>2, <1>3, <1>4, <1>5 DEF Next

LEMMA AlwaysHonest == Spec => []HonestInv
<1>1. Init => HonestInv
  <2> SUFFICES ASSUME Init PROVE HonestInv
    OBVIOUS
  <2>1. /\ prevLoss = NoReport /\ before = NoReport /\ currentBitrate = baseOpusBitrate
        /\ lastSent = <<>> /\ wire = <<>> /\ qualityChan = <<>>
    BY DEF Init
  <2>2. Decided /\ Honest(prevLoss) /\ Honest(before)
    BY <2>1, NoReportHonest DEF Decided
  <2> QED BY <2>1, <2>2 DEF HonestInv, Tracks
<1> QED BY <1>1, HonestStays, Always, PTL DEF Spec

(* The client never reports audio as lost that had arrived: whatever marks *)
(* were lost or overtook audio and whenever the pipeline started over, it  *)
(* reports at most what was missing of its window when its mark came, and  *)
(* exactly that if the counters ran on and no mark overtook audio.         *)
THEOREM ReportsAreTrue == Spec => []ReportIsTrue
<1>1. Typed /\ HonestInv => ReportIsTrue
  <2> SUFFICES ASSUME Typed, HonestInv PROVE ReportIsTrue
    OBVIOUS
  <2>1. DOMAIN wire = 1 .. Len(wire)
    BY DEF Typed, TypeOK
  <2> QED BY <2>1 DEF HonestInv, Honest, ReportIsTrue
<1> QED BY <1>1, Always, AlwaysHonest, PTL

(* The pipeline acts on the true loss: two windows that lost a quarter of  *)
(* the audio bring the bitrate to its floor, one window of which all was   *)
(* there raises it again.                                                  *)
THEOREM LossIsHeard == Spec => []LossHeard
<1>1. Typed /\ HonestInv => LossHeard
  <2> SUFFICES ASSUME Typed, HonestInv PROVE
        /\ prevLoss.exact /\ before.exact /\ prevLoss.truth >= 25 /\ before.truth >= 25
             => currentBitrate = floor
        /\ prevLoss.truth < 3 => currentBitrate >= baseOpusBitrate
    BY DEF LossHeard
  <2> DEFINE a == prevLoss.audio
             b == before.audio
  <2>1. a \in 0 .. 100 /\ b \in 0 .. 100 /\ prevLoss.truth \in 0 .. 100
    BY DEF Typed, TypeOK, Reports
  <2>2. \/ currentBitrate = AdaptOpusBitrate(AtMost(a, b))
        \/ prevLoss = NoReport /\ currentBitrate = baseOpusBitrate
    BY DEF HonestInv, Decided
  <2>3. /\ a <= prevLoss.truth /\ (prevLoss.exact => prevLoss.truth = a)
        /\ (before.exact => before.truth = b)
    BY DEF HonestInv, Honest
  <2>4. prevLoss = NoReport => a = 0
    BY NoReportHonest
  <2> HIDE DEF a, b
  <2>5. ASSUME a >= 25, b >= 25 PROVE currentBitrate = floor
    <3>1. AtMost(a, b) \in 25 .. 100
      BY <2>1, <2>5 DEF AtMost
    <3>2. currentBitrate = AdaptOpusBitrate(AtMost(a, b))
      BY <2>1, <2>2, <2>4, <2>5
    <3> QED BY <3>1, <3>2 DEF AdaptOpusBitrate
  <2>6. ASSUME a < 3 PROVE currentBitrate >= baseOpusBitrate
    <3>1. AtMost(a, b) \in 0 .. 2
      BY <2>1, <2>6 DEF AtMost
    <3>2. AdaptOpusBitrate(AtMost(a, b)) = base
      BY <3>1 DEF AdaptOpusBitrate
    <3>3. base >= baseOpusBitrate
      BY RateAssumption DEF base, floor
    <3> QED BY <2>2, <3>2, <3>3, RateAssumption
  <2>7. prevLoss.truth < 3 => a < 3
    BY <2>1, <2>3
  <2> QED BY <2>3, <2>5, <2>6, <2>7
<1> QED BY <1>1, Always, AlwaysHonest, PTL
-----------------------------------------------------------------------------
(* Spectra that marks overtake.                                            *)

(* The reports from the last one acted on to the last one sent, in order;  *)
(* no two in a row that miss a spectrum; what the last one was short of.   *)
Line == <<prevLoss>> \o (qualityChan \o wire)
Quiet(s) == \A i \in 1 .. Len(s) - 1 : s[i].fft = 0 \/ s[i + 1].fft = 0
Short(s) == IF s[Len(s)].fft > 0 THEN 1 ELSE 0

(* Of the spectra sent since the last mark that arrived, as many arrived   *)
(* or are late, and one more if the last report missed one: that one is    *)
(* counted in this window.                                                 *)
OvertakeInv ==
  ~fftLost /\ ~disturbed =>
    /\ fftInterval = 1 /\ Quiet(Line)
    /\ IF lastSent = <<>> THEN \A i \in 1 .. Len(Line) : Line[i].fft = 0
       ELSE received.fft + late.fft >= sent.fft - lastSent[1].fft + Short(Line)

LEMMA ReportFields ==
  ASSUME NEW r \in Reports
  PROVE  r.audio \in 0 .. 100 /\ r.fft \in 0 .. 100 /\ r.fft \in Nat
BY DEF Reports

LEMMA LineType ==
  ASSUME Typed
  PROVE  /\ qualityChan \in Seq(Reports) /\ wire \in Seq(Reports)
         /\ <<prevLoss>> \in Seq(Reports) /\ qualityChan \o wire \in Seq(Reports)
         /\ Line \in Seq(Reports) /\ Len(Line) \in Nat \ {0}
         /\ Line[1] = prevLoss /\ Tail(Line) = qualityChan \o wire
<1>1. qualityChan \in Seq(Reports) /\ wire \in Seq(Reports) /\ prevLoss \in Reports
  BY DEF Typed, TypeOK
<1>2. <<prevLoss>> \in Seq(Reports) /\ Len(<<prevLoss>>) = 1
  BY <1>1
<1>3. qualityChan \o wire \in Seq(Reports)
  BY <1>1, ConcatProperties
<1> DEFINE rest == qualityChan \o wire
<1> HIDE DEF rest
<1>4. rest \in Seq(Reports) /\ Line = <<prevLoss>> \o rest
  BY <1>3 DEF Line, rest
<1>5. /\ Line \in Seq(Reports) /\ Len(Line) = 1 + Len(rest) /\ Len(rest) \in Nat
      /\ \A i \in 1 .. 1 + Len(rest) : Line[i] = IF i <= 1 THEN prevLoss ELSE rest[i - 1]
  BY <1>2, <1>4, ConcatProperties
<1>6. Line # <<>>
  BY <1>5, EmptySeq
<1>7. /\ Tail(Line) \in Seq(Reports) /\ Len(Tail(Line)) = Len(Line) - 1
      /\ \A i \in 1 .. Len(Tail(Line)) : Tail(Line)[i] = Line[i + 1]
  BY <1>5, <1>6, HeadTailProperties
<1>8. Len(Tail(Line)) = Len(rest)
  BY <1>5, <1>7
<1>9. \A i \in 1 .. Len(rest) : Tail(Line)[i] = rest[i]
  BY <1>5, <1>7, <1>8
<1>10. Tail(Line) = rest
  BY <1>4, <1>7, <1>8, <1>9, SeqEqual
<1>11. QED
  BY <1>1, <1>2, <1>3, <1>5, <1>10 DEF rest

LEMMA LineParts ==
  ASSUME Typed
  PROVE  /\ Len(Line) = 1 + Len(qualityChan) + Len(wire)
         /\ Len(qualityChan) \in Nat /\ Len(wire) \in Nat
         /\ \A i \in 1 .. Len(qualityChan) : Line[i + 1] = qualityChan[i]
         /\ \A i \in 1 .. Len(wire) : Line[i + Len(qualityChan) + 1] = wire[i]
<1> DEFINE k == Len(qualityChan)
           m == Len(wire)
           rest == qualityChan \o wire
           p == <<prevLoss>>
<1>1. /\ qualityChan \in Seq(Reports) /\ wire \in Seq(Reports)
      /\ p \in Seq(Reports) /\ rest \in Seq(Reports) /\ Len(p) = 1
  BY LineType
<1>2. k \in Nat /\ m \in Nat
  BY <1>1
<1>3. /\ Len(rest) = k + m
      /\ \A i \in 1 .. k + m : rest[i] = IF i <= k THEN qualityChan[i] ELSE wire[i - k]
  BY <1>1, ConcatProperties
<1> HIDE DEF rest, p, k, m
<1>4. /\ Len(p \o rest) = Len(p) + Len(rest)
      /\ \A i \in 1 .. Len(p) + Len(rest) :
           (p \o rest)[i] = IF i <= Len(p) THEN p[i] ELSE rest[i - Len(p)]
  BY <1>1, ConcatProperties
<1>5. Len(Line) = 1 + k + m
  <2>1. 1 + (k + m) = 1 + k + m
    BY <1>2
  <2>2. QED
    BY <1>1, <1>3, <1>4, <2>1 DEF Line, p, rest
<1>6. ASSUME NEW i \in 1 .. k + m PROVE Line[i + 1] = rest[i]
  <2>1. i + 1 \in 1 .. 1 + (k + m) /\ ~(i + 1 <= 1) /\ i + 1 - 1 = i
    BY <1>2
  <2>2. (p \o rest)[i + 1] = rest[i]
    BY <1>1, <1>3, <1>4, <2>1
  <2>3. QED
    BY <2>2 DEF Line, p, rest
<1>7. ASSUME NEW i \in 1 .. k PROVE Line[i + 1] = qualityChan[i]
  <2>1. i \in 1 .. k + m /\ i <= k
    BY <1>2
  <2>2. QED
    BY <1>3, <1>6, <2>1
<1>8. ASSUME NEW i \in 1 .. m PROVE Line[i + k + 1] = wire[i]
  <2>1. i + k \in 1 .. k + m /\ ~(i + k <= k) /\ i + k - k = i
    BY <1>2
  <2>2. PICK e \in 1 .. k + m : e = i + k
    BY <2>1
  <2>3. ~(e <= k) /\ e - k = i
    BY <1>2, <2>1, <2>2
  <2>4. rest[e] = wire[i]
    BY <1>3, <2>3
  <2>5. Line[e + 1] = rest[e]
    BY <1>6
  <2>6. QED
    BY <2>2, <2>4, <2>5
<1>9. QED
  BY <1>2, <1>5, <1>7, <1>8 DEF k, m

LEMMA HeadThenTail ==
  ASSUME NEW S, NEW s \in Seq(S), s # <<>>
  PROVE  <<Head(s)>> \o Tail(s) = s
<1>1. Len(s) \in Nat \ {0}
  BY EmptySeq
<1>2. 1 \in 1 .. Len(s) /\ Len(s) \in 1 .. Len(s)
  BY <1>1
<1>3. SubSeq(s, 1, Len(s)) = <<s[1]>> \o SubSeq(s, 1 + 1, Len(s))
  BY <1>2, SubSeqRecursiveFirst
<1>4. SubSeq(s, 1, Len(s)) = s /\ Tail(s) = SubSeq(s, 2, Len(s)) /\ Head(s) = s[1]
  BY SubSeqFull, TailIsSubSeq
<1>5. 1 + 1 = 2
  OBVIOUS
<1>6. QED
  BY <1>3, <1>4, <1>5

(* What the steps do to the line.                                          *)
LEMMA LineSame ==
  ASSUME prevLoss' = prevLoss, qualityChan' = qualityChan, wire' = wire
  PROVE  Line' = Line
BY DEF Line

LEMMA LineGrows ==
  ASSUME Typed, NEW r \in Reports, prevLoss' = prevLoss, qualityChan' = qualityChan,
         wire' = Append(wire, r)
  PROVE  Line' = Append(Line, r)
<1>1. /\ qualityChan \in Seq(Reports) /\ wire \in Seq(Reports)
      /\ <<prevLoss>> \in Seq(Reports) /\ qualityChan \o wire \in Seq(Reports)
      /\ Line \in Seq(Reports) /\ <<r>> \in Seq(Reports)
  BY LineType
<1>2. Line' = <<prevLoss>> \o (qualityChan \o (wire \o <<r>>))
  BY <1>1, AppendIsConcat DEF Line
<1>3. qualityChan \o (wire \o <<r>>) = (qualityChan \o wire) \o <<r>>
  BY <1>1, ConcatAssociative
<1>4. <<prevLoss>> \o ((qualityChan \o wire) \o <<r>>) = Line \o <<r>>
  BY <1>1, ConcatAssociative DEF Line
<1>5. QED
  BY <1>1, <1>2, <1>3, <1>4, AppendIsConcat

LEMMA LinePassesOn ==
  ASSUME Typed, wire # <<>>, prevLoss' = prevLoss,
         qualityChan' = Append(qualityChan, wire[1]), wire' = Without(wire, 1)
  PROVE  Line' = Line
<1>1. qualityChan \in Seq(Reports) /\ wire \in Seq(Reports)
  BY LineType
<1>2. /\ Head(wire) \in Reports /\ Tail(wire) \in Seq(Reports)
      /\ Len(Tail(wire)) = Len(wire) - 1 /\ Len(wire) \in Nat \ {0}
      /\ \A i \in 1 .. Len(Tail(wire)) : Tail(wire)[i] = wire[i + 1]
      /\ Head(wire) = wire[1]
  BY <1>1, HeadTailProperties, EmptySeq
<1>3. Without(wire, 1) = Tail(wire)
  <2>1. 1 \in DOMAIN wire
    BY <1>1, <1>2
  <2>2. /\ Without(wire, 1) \in Seq(Reports) /\ Len(Without(wire, 1)) = Len(wire) - 1
        /\ \A k \in 1 .. Len(wire) - 1 :
             Without(wire, 1)[k] = IF k < 1 THEN wire[k] ELSE wire[k + 1]
    BY <1>1, <2>1, WithoutType
  <2>3. \A k \in 1 .. Len(Tail(wire)) : Without(wire, 1)[k] = Tail(wire)[k]
    BY <1>2, <2>2
  <2>4. QED
    BY <1>2, <2>2, <2>3, SeqEqual
<1>4. wire = <<wire[1]>> \o Tail(wire)
  BY <1>1, <1>2, HeadThenTail
<1>5. Append(qualityChan, wire[1]) \o Tail(wire) = qualityChan \o wire
  <2>1. wire[1] \in Reports /\ <<wire[1]>> \in Seq(Reports)
    BY <1>2
  <2>2. Append(qualityChan, wire[1]) = qualityChan \o <<wire[1]>>
    BY <1>1, <2>1, AppendIsConcat
  <2>3. (qualityChan \o <<wire[1]>>) \o Tail(wire) = qualityChan \o (<<wire[1]>> \o Tail(wire))
    BY <1>1, <1>2, <2>1, ConcatAssociative
  <2>4. QED
    BY <1>4, <2>2, <2>3
<1>6. QED
  BY <1>3, <1>5 DEF Line

LEMMA LineAdvances ==
  ASSUME Typed, qualityChan # <<>>, prevLoss' = Head(qualityChan),
         qualityChan' = Tail(qualityChan), wire' = wire
  PROVE  Line' = Tail(Line) /\ Line[2] = Head(qualityChan) /\ Len(Line) >= 2
<1>1. /\ qualityChan \in Seq(Reports) /\ wire \in Seq(Reports)
      /\ Line \in Seq(Reports) /\ Len(Line) \in Nat \ {0}
      /\ Tail(Line) = qualityChan \o wire
  BY LineType
<1> DEFINE h == Head(qualityChan)
           rest == Tail(qualityChan)
<1>2. /\ h \in Reports /\ rest \in Seq(Reports) /\ Len(rest) = Len(qualityChan) - 1
      /\ \A i \in 1 .. Len(rest) : rest[i] = qualityChan[i + 1]
      /\ h = qualityChan[1] /\ Len(qualityChan) \in Nat \ {0}
  BY <1>1, HeadTailProperties, EmptySeq
<1> HIDE DEF h, rest
<1>3. <<h>> \in Seq(Reports) /\ Len(<<h>>) = 1 /\ <<h>>[1] = h
  BY <1>2
<1>4. <<h>> \o rest = qualityChan
  BY <1>1, HeadThenTail DEF h, rest
<1>5. <<h>> \o (rest \o wire) = qualityChan \o wire
  <2> DEFINE s == <<h>>
  <2>1. s \in Seq(Reports) /\ s \o rest = qualityChan
    BY <1>3, <1>4
  <2>0. wire \in Seq(Reports) /\ rest \in Seq(Reports)
    BY <1>1, <1>2
  <2> HIDE DEF s
  <2>2. (s \o rest) \o wire = s \o (rest \o wire)
    <3>1. \A x, y, z \in Seq(Reports) : (x \o y) \o z = x \o (y \o z)
      BY ConcatAssociative
    <3>2. QED
      BY <2>0, <2>1, <3>1, Zenon
  <2>3. QED
    BY <2>1, <2>2 DEF s
<1>6. Line' = Tail(Line)
  BY <1>1, <1>5 DEF Line, h, rest
<1>7. Len(Line) >= 2 /\ Line[1 + 1] = qualityChan[1]
  <2>1. Len(qualityChan) >= 1 /\ 1 \in 1 .. Len(qualityChan)
    BY <1>2
  <2>2. Len(Line) = 1 + Len(qualityChan) + Len(wire) /\ Len(wire) \in Nat
    BY LineParts
  <2>3. QED
    BY <2>1, <2>2, LineParts
<1>8. 1 + 1 = 2
  OBVIOUS
<1>9. QED
  BY <1>2, <1>6, <1>7, <1>8 DEF h

(* A new pipeline: the reports on the wire follow a line of their own.     *)
LEMMA LineRestarts ==
  ASSUME Typed, Quiet(Line), prevLoss' = NoReport, qualityChan' = <<>>, wire' = wire
  PROVE  /\ Quiet(Line') /\ Short(Line') <= Short(Line)
         /\ (\A i \in 1 .. Len(Line) : Line[i].fft = 0)
              => \A i \in 1 .. Len(Line') : Line'[i].fft = 0
<1>1. /\ qualityChan \in Seq(Reports) /\ wire \in Seq(Reports)
      /\ Line \in Seq(Reports) /\ Len(Line) \in Nat \ {0}
      /\ Tail(Line) = qualityChan \o wire
      /\ Len(qualityChan) \in Nat /\ Len(wire) \in Nat
  BY LineType
<1>2. NoReport \in Reports /\ NoReport.fft = 0 /\ <<NoReport>> \in Seq(Reports)
      /\ Len(<<NoReport>>) = 1 /\ <<NoReport>>[1] = NoReport
  BY NoReportType DEF NoReport, Report, NoLoss
<1> DEFINE n == <<NoReport>>
           k == Len(qualityChan)
<1>3. Line' = n \o wire
  BY <1>1, ConcatEmptySeq DEF Line
<1> HIDE DEF n
<1>4. n \in Seq(Reports) /\ Len(n) = 1 /\ n[1] = NoReport
  BY <1>2 DEF n
<1>5. /\ Len(Line') = Len(wire) + 1
      /\ \A i \in 1 .. Len(wire) + 1 : Line'[i] = IF i <= 1 THEN n[i] ELSE wire[i - 1]
  <2>1. /\ Len(n \o wire) = Len(n) + Len(wire)
        /\ \A i \in 1 .. Len(n) + Len(wire) :
             (n \o wire)[i] = IF i <= Len(n) THEN n[i] ELSE wire[i - Len(n)]
    BY <1>1, <1>4, ConcatProperties
  <2>2. Len(n) + Len(wire) = Len(wire) + 1
    BY <1>1, <1>4
  <2>3. QED
    BY <1>3, <1>4, <2>1, <2>2
<1>8. Len(Line) = k + Len(wire) + 1
  BY <1>1, LineParts
<1>9. ASSUME NEW j \in 1 .. Len(wire)
      PROVE  wire[j] = Line[j + k + 1] /\ wire[j] = Line'[j + 1] /\ wire[j].fft \in Nat
  <2>4. j + 1 \in 1 .. Len(wire) + 1 /\ ~(j + 1 <= 1) /\ j + 1 - 1 = j
    BY <1>1
  <2>5. Line'[j + 1] = wire[j]
    BY <1>5, <2>4
  <2>6. wire[j] \in Reports
    BY <1>1, ElementOfSeq
  <2>7. wire[j].fft \in Nat
    BY <2>6, ReportFields
  <2>8. wire[j] = Line[j + k + 1]
    BY LineParts
  <2>9. QED
    BY <2>5, <2>7, <2>8
<1>10. Line'[1].fft = 0
  BY <1>2, <1>4, <1>5, <1>1
<1> HIDE DEF k
<1>11. Quiet(Line')
  <2> SUFFICES ASSUME NEW i \in 1 .. Len(Line') - 1
               PROVE  Line'[i].fft = 0 \/ Line'[i + 1].fft = 0
    BY DEF Quiet
  <2>1. CASE i = 1
    BY <1>10, <2>1
  <2>2. CASE i # 1
    <3>1. i - 1 \in 1 .. Len(wire) /\ i \in 1 .. Len(wire)
      BY <1>1, <1>5, <2>2
    <3>2. /\ Line'[i - 1 + 1] = Line[i - 1 + k + 1] /\ Line'[i + 1] = Line[i + k + 1]
      BY <1>9, <3>1
    <3>3. k \in Nat
      BY <1>1 DEF k
    <3>4. i - 1 + 1 = i /\ i - 1 + k + 1 = i + k /\ i + k \in 1 .. Len(Line) - 1
      BY <1>1, <1>8, <3>1, <3>3
    <3>5. Line[i + k].fft = 0 \/ Line[i + k + 1].fft = 0
      BY <3>4 DEF Quiet
    <3>6. QED
      BY <3>2, <3>4, <3>5
  <2>3. QED
    BY <2>1, <2>2
<1>12. Short(Line') <= Short(Line)
  <2>1. CASE wire = <<>>
    <3>1. Len(Line') = 1
      BY <1>5, <2>1, EmptySeq
    <3>2. Short(Line') = 0
      BY <1>10, <3>1 DEF Short
    <3>3. QED
      BY <3>2 DEF Short
  <2>2. CASE wire # <<>>
    <3>1. Len(wire) \in 1 .. Len(wire)
      BY <1>1, <2>2, EmptySeq
    <3>2. Line'[Len(Line')] = wire[Len(wire)]
      BY <1>5, <1>9, <3>1
    <3>3. k \in Nat /\ Len(wire) + k + 1 = Len(Line)
      BY <1>1, <1>8 DEF k
    <3>4. Line[Len(Line)] = wire[Len(wire)]
      BY <1>9, <3>1, <3>3
    <3>5. QED
      BY <3>2, <3>4 DEF Short
  <2>3. QED
    BY <2>1, <2>2
<1>13. ASSUME \A i \in 1 .. Len(Line) : Line[i].fft = 0, NEW i \in 1 .. Len(Line')
       PROVE  Line'[i].fft = 0
  <2>1. CASE i = 1
    BY <1>10, <2>1
  <2>2. CASE i # 1
    <3>1. i - 1 \in 1 .. Len(wire) /\ i - 1 + 1 = i
      BY <1>1, <1>5, <2>2
    <3>2. k \in Nat /\ i - 1 + k + 1 \in 1 .. Len(Line)
      BY <1>1, <1>8, <3>1 DEF k
    <3>3. QED
      BY <1>9, <1>13, <3>1, <3>2
  <2>3. QED
    BY <2>1, <2>2
<1>14. QED
  BY <1>11, <1>12, <1>13
LEMMA OvertakeSecond == Typed /\ OvertakeInv /\ Second => OvertakeInv'
<1> SUFFICES ASSUME Typed, OvertakeInv, Second, ~fftLost', ~disturbed'
             PROVE  /\ fftInterval' = 1 /\ Quiet(Line')
                    /\ IF lastSent' = <<>> THEN \A i \in 1 .. Len(Line') : Line'[i].fft = 0
                       ELSE received'.fft + late'.fft >=
                              sent'.fft - lastSent'[1].fft + Short(Line')
  BY DEF OvertakeInv, Quiet, Short
<1>1. PICK audio \in Nat, lost \in [audio : Nat, fft : Nat],
           over \in [audio : Nat, fft : {0, 1}] : Streamed(audio, lost, over)
  BY SecondOf
<1> DEFINE mark == Mark(audio)
           got == Got(audio, lost, over)
           w == Grown(audio, lost)
           b == over.audio
           before1 == lastSent[1]
<1>t. PICK behind \in {0, 1}, lostFFT \in Nat : behind = over.fft /\ lostFFT = lost.fft
  OBVIOUS
<1>2. /\ mark \in Counts /\ got \in [audio : Nat, fft : Nat]
      /\ w \in Windows /\ b \in Nat /\ w.lost + b <= w.sent
      /\ late'.fft = behind /\ sent' = mark
      /\ MarkArrives(mark, got, w, b) \/ MarkLost(got, w)
      /\ UNCHANGED <<pipelineVars, qualityChan>>
  BY <1>1, <1>t, StreamedParts
<1>3. ~fftLost /\ ~disturbed /\ lostFFT = 0
  <2>1. fftLost' = (fftLost \/ lostFFT > 0) /\ disturbed' = disturbed
    BY <1>1, <1>t DEF Streamed
  <2>2. ~fftLost /\ ~(lostFFT > 0) /\ ~disturbed
    BY <2>1, Zenon
  <2>3. QED
    BY <1>t, <2>2
<1>4. /\ fftInterval = 1 /\ Quiet(Line)
      /\ IF lastSent = <<>> THEN \A i \in 1 .. Len(Line) : Line[i].fft = 0
         ELSE received.fft + late.fft >= sent.fft - lastSent[1].fft + Short(Line)
  BY <1>3 DEF OvertakeInv
<1>5. Spectra \in Nat
  <2>1. fftInterval \in Nat \ {0} /\ fftRate \in Nat
    BY <1>4, RateAssumption
  <2>2. QED
    BY <2>1, DivFloor DEF Spectra
<1>6. /\ received.fft \in Nat /\ sent.fft \in Nat /\ late.fft \in {0, 1}
      /\ mark.fft = sent.fft + Spectra
      /\ got.fft = received.fft + late.fft + Spectra - lostFFT - behind
  BY <1>t DEF Typed, TypeOK, Mark, Got
<1>7. fftInterval' = 1 /\ prevLoss' = prevLoss /\ qualityChan' = qualityChan
  BY <1>2, <1>4 DEF pipelineVars
<1>8. /\ Line \in Seq(Reports) /\ Len(Line) \in Nat \ {0}
      /\ Len(Line) \in 1 .. Len(Line) /\ Line[Len(Line)] \in Reports
  <2>1. Line \in Seq(Reports) /\ Len(Line) \in Nat \ {0}
    BY LineType
  <2>2. Len(Line) \in 1 .. Len(Line)
    BY <2>1
  <2>3. QED
    BY <2>1, <2>2, ElementOfSeq
<1>9. /\ Line[Len(Line)].fft \in Nat
      /\ Short(Line) = IF Line[Len(Line)].fft > 0 THEN 1 ELSE 0
  BY <1>8, ReportFields DEF Short
<1>s. lastSent # <<>> => before1 \in Counts /\ before1.fft \in Nat
  <2>1. lastSent \in Seq(Counts)
    BY DEF Typed
  <2>2. lastSent # <<>> => lastSent[1] \in Counts
    BY <2>1
  <2>3. QED
    BY <2>2 DEF Counts
<1> HIDE DEF mark, got, w, b
<1>10. CASE MarkLost(got, w)
  <2>1. received' = got /\ lastSent' = lastSent /\ wire' = wire
    BY <1>10 DEF MarkLost
  <2>2. Line' = Line
    BY <1>7, <2>1, LineSame
  <2> HIDE DEF before1
  <2>3. CASE lastSent = <<>>
    BY <1>4, <1>7, <2>1, <2>2, <2>3
  <2>4. CASE lastSent # <<>>
    <3>1. received.fft + late.fft >= sent.fft - before1.fft + Short(Line)
      BY <1>4, <2>4 DEF before1
    <3>2. got.fft + behind >= mark.fft - before1.fft + Short(Line)
      <4>1. /\ got.fft + behind = received.fft + late.fft + Spectra
            /\ mark.fft - before1.fft + Short(Line)
                 = sent.fft - before1.fft + Short(Line) + Spectra
        <5>1. Short(Line) \in Int /\ before1.fft \in Int
          BY <1>9, <1>s, <2>4
        <5>2. QED
          BY <1>3, <1>5, <1>6, <1>t, <5>1
      <4>2. /\ received.fft + late.fft \in Int
            /\ sent.fft - before1.fft + Short(Line) \in Int
        <5>1. received.fft \in Nat /\ late.fft \in Nat /\ sent.fft \in Nat
          BY <1>6
        <5>2. before1.fft \in Nat /\ Short(Line) \in Nat
          BY <1>9, <1>s, <2>4
        <5> QED BY <5>1, <5>2
      <4>3. QED
        BY <1>5, <3>1, <4>1, <4>2
    <3>3. QED
      BY <1>2, <1>4, <1>7, <2>1, <2>2, <2>4, <3>2 DEF before1
  <2>5. QED
    BY <2>3, <2>4
<1>11. CASE MarkArrives(mark, got, w, b)
  <2>1. /\ wire' = IF lastSent = <<>> THEN wire
                   ELSE Append(wire, Report(Sample(mark, got), Missing(w, b), Exact(w, b)))
        /\ lastSent' = <<mark>> /\ received' = NoLoss
    BY <1>11 DEF MarkArrives, ObserveSeqMark
  <2>2. lastSent' # <<>> /\ lastSent'[1] = mark /\ received'.fft = 0
    BY <2>1 DEF NoLoss
  <2>m. mark.fft \in Nat /\ mark.audio \in Nat
    BY <1>2 DEF Counts
  <2>3. CASE lastSent = <<>>
    <3>1. Line' = Line
      BY <1>7, <2>1, <2>3, LineSame
    <3>2. Short(Line) = 0
      BY <1>4, <1>8, <1>9, <2>3
    <3>3. 0 + behind >= mark.fft - mark.fft + 0
      BY <2>m
    <3>4. QED
      BY <1>2, <1>4, <1>7, <2>2, <3>1, <3>2, <3>3
  <2>4. CASE lastSent # <<>>
    <3> DEFINE r == Report(Sample(mark, got), Missing(w, b), Exact(w, b))
    <3>4. r \in Reports /\ r.fft = Sample(mark, got).fft
      BY <1>2, <2>4, MarkReport
    <3> HIDE DEF r
    <3>5. Line' = Append(Line, r)
      BY <1>7, <2>1, <2>4, <3>4, LineGrows DEF r
    <3>6. /\ Len(Line') = Len(Line) + 1 /\ Line'[Len(Line) + 1] = r
          /\ \A i \in 1 .. Len(Line) : Line'[i] = Line[i]
      BY <1>8, <3>4, <3>5, AppendProperties
    <3>7. r.fft > 0 => behind = 1 /\ Line[Len(Line)].fft = 0
      <4> SUFFICES ASSUME r.fft > 0 PROVE behind = 1 /\ Line[Len(Line)].fft = 0
        OBVIOUS
      <4>1. ~WentBack(mark)
        <5>1. WentBack(mark) => Sample(mark, got).fft = 0
          BY DEF Sample, NoLoss
        <5>2. QED
          BY <3>4, <5>1
      <4>2. r.fft = Pct(mark.fft - before1.fft, got.fft)
        BY <3>4, <4>1 DEF Sample
      <4>3. mark.fft - before1.fft > got.fft
        <5>1. ~(mark.fft - before1.fft = 0 \/ got.fft >= mark.fft - before1.fft)
          BY <4>2 DEF Pct
        <5>2. got.fft \in Nat /\ before1.fft \in Nat
          BY <1>2, <1>s, <2>4
        <5>3. QED
          BY <2>m, <5>1, <5>2
      <4>4. received.fft + late.fft >= sent.fft - before1.fft + Short(Line)
        BY <1>4, <2>4
      <4> HIDE DEF before1
      <4>5. Short(Line) < behind
        <5>1. Short(Line) \in Int /\ before1.fft \in Int
          BY <1>9, <1>s, <2>4
        <5>2. got.fft = received.fft + late.fft + Spectra - behind
          BY <1>3, <1>5, <1>6, <1>t
        <5>3. (sent.fft + Spectra) - before1.fft > received.fft + late.fft + Spectra - behind
          <6>1. mark.fft = sent.fft + Spectra
            BY <1>6
          <6>2. QED
            BY <4>3, <5>2, <6>1
        <5>4. received.fft \in Int /\ late.fft \in Int /\ behind \in Int /\ sent.fft \in Int
          BY <1>6, <1>t
        <5>5. QED
          BY <1>5, <4>4, <5>1, <5>3, <5>4
      <4>6. QED
        BY <1>9, <1>t, <4>5
    <3>8. Quiet(Line')
      <4> SUFFICES ASSUME NEW i \in 1 .. Len(Line') - 1
                   PROVE  Line'[i].fft = 0 \/ Line'[i + 1].fft = 0
        BY DEF Quiet
      <4>1. CASE i < Len(Line)
        <5>1. i \in 1 .. Len(Line) - 1 /\ i \in 1 .. Len(Line) /\ i + 1 \in 1 .. Len(Line)
          BY <1>8, <3>6, <4>1
        <5>2. QED
          BY <1>4, <3>6, <5>1 DEF Quiet
      <4>2. CASE i = Len(Line)
        <5>1. Line'[i] = Line[Len(Line)] /\ Line'[i + 1] = r
          BY <1>8, <3>6, <4>2
        <5>2. r.fft \in Nat
          BY <3>4, ReportFields
        <5>3. QED
          BY <3>7, <5>1, <5>2
      <4>3. QED
        BY <1>8, <3>6, <4>1, <4>2
    <3>9. Short(Line') <= behind
      <4>1. Line'[Len(Line')] = r
        BY <3>6
      <4>2. QED
        BY <3>7, <4>1 DEF Short
    <3>10. Short(Line') \in {0, 1}
      BY DEF Short
    <3>11. 0 + behind >= mark.fft - mark.fft + Short(Line')
      BY <2>m, <3>9, <3>10
    <3>12. QED
      BY <1>2, <1>7, <2>2, <3>8, <3>11
  <2>5. QED
    BY <2>3, <2>4
<1>12. QED
  BY <1>2, <1>10, <1>11

LEMMA OvertakeAdapt == Typed /\ OvertakeInv /\ Adapt => OvertakeInv'
<1> SUFFICES ASSUME Typed, OvertakeInv, Adapt, ~fftLost', ~disturbed'
             PROVE  /\ fftInterval' = 1 /\ Quiet(Line')
                    /\ IF lastSent' = <<>> THEN \A i \in 1 .. Len(Line') : Line'[i].fft = 0
                       ELSE received'.fft + late'.fft >=
                              sent'.fft - lastSent'[1].fft + Short(Line')
  BY DEF OvertakeInv, Quiet, Short
<1>1. /\ qualityChan # <<>> /\ qualityChan' = Tail(qualityChan)
      /\ prevLoss' = Head(qualityChan) /\ wire' = wire
      /\ fftInterval' = AdaptFFTInterval(AtMost(Head(qualityChan).fft, prevLoss.fft))
      /\ UNCHANGED <<sent, late, received, lastSent, fftLost, disturbed>>
  BY DEF Adapt, clientVars
<1>2. /\ Quiet(Line)
      /\ IF lastSent = <<>> THEN \A i \in 1 .. Len(Line) : Line[i].fft = 0
         ELSE received.fft + late.fft >= sent.fft - lastSent[1].fft + Short(Line)
  BY <1>1 DEF OvertakeInv
<1>3. /\ Line' = Tail(Line) /\ Line[2] = Head(qualityChan) /\ Len(Line) >= 2
      /\ Line[1] = prevLoss /\ Line \in Seq(Reports) /\ Len(Line) \in Nat \ {0}
  BY <1>1, LineAdvances, LineType
<1>4. /\ Len(Line') = Len(Line) - 1
      /\ \A i \in 1 .. Len(Line') : Line'[i] = Line[i + 1]
  <2>1. Line # <<>>
    BY <1>3, EmptySeq
  <2>2. QED
    BY <1>3, <2>1, HeadTailProperties
<1>5. fftInterval' = 1
  <2>1. 1 \in 1 .. Len(Line) - 1 /\ 1 \in 1 .. Len(Line) /\ 2 \in 1 .. Len(Line) /\ 1 + 1 = 2
    BY <1>3
  <2>2. Line[1].fft = 0 \/ Line[2].fft = 0
    BY <1>2, <2>1 DEF Quiet
  <2>3. Line[1].fft \in Nat /\ Line[2].fft \in Nat
    BY <1>3, <2>1, ElementOfSeq, ReportFields
  <2>4. AtMost(Line[2].fft, Line[1].fft) = 0
    BY <2>2, <2>3 DEF AtMost
  <2>5. AdaptFFTInterval(0) = 1
    BY DEF AdaptFFTInterval
  <2>6. QED
    BY <1>1, <1>3, <2>4, <2>5
<1>6. Quiet(Line')
  <2> SUFFICES ASSUME NEW i \in 1 .. Len(Line') - 1
               PROVE  Line'[i].fft = 0 \/ Line'[i + 1].fft = 0
    BY DEF Quiet
  <2>1. /\ i \in 1 .. Len(Line') /\ i + 1 \in 1 .. Len(Line')
        /\ i + 1 \in 1 .. Len(Line) - 1
    BY <1>3, <1>4
  <2>2. QED
    BY <1>2, <1>4, <2>1 DEF Quiet
<1>7. Short(Line') = Short(Line)
  <2>1. Len(Line') \in 1 .. Len(Line') /\ Len(Line') + 1 = Len(Line)
    BY <1>3, <1>4
  <2>2. Line'[Len(Line')] = Line[Len(Line)]
    BY <1>4, <2>1
  <2>3. QED
    BY <2>2 DEF Short
<1>8. CASE lastSent = <<>>
  <2>1. ASSUME NEW i \in 1 .. Len(Line') PROVE Line'[i].fft = 0
    <3>1. i + 1 \in 1 .. Len(Line) /\ Line'[i] = Line[i + 1]
      BY <1>3, <1>4
    <3>2. QED
      BY <1>2, <1>8, <3>1
  <2>2. QED
    BY <1>1, <1>5, <1>6, <1>8, <2>1
<1>9. CASE lastSent # <<>>
  BY <1>1, <1>2, <1>5, <1>6, <1>7, <1>9
<1>10. QED
  BY <1>8, <1>9

LEMMA OvertakeStep == Typed /\ OvertakeInv /\ [Next]_vars => OvertakeInv'
<1> SUFFICES ASSUME Typed, OvertakeInv, [Next]_vars PROVE OvertakeInv'
  OBVIOUS
<1>1. CASE Restart
  <2> SUFFICES ASSUME ~fftLost, ~disturbed
               PROVE  /\ fftInterval' = 1 /\ Quiet(Line')
                      /\ IF lastSent = <<>> THEN \A i \in 1 .. Len(Line') : Line'[i].fft = 0
                         ELSE received.fft + late.fft >=
                                0 - lastSent[1].fft + Short(Line')
    BY <1>1 DEF OvertakeInv, Quiet, Short, Restart, Zero, clientVars
  <2>1. /\ Quiet(Line)
        /\ IF lastSent = <<>> THEN \A i \in 1 .. Len(Line) : Line[i].fft = 0
           ELSE received.fft + late.fft >= sent.fft - lastSent[1].fft + Short(Line)
    BY DEF OvertakeInv
  <2>2. /\ prevLoss' = NoReport /\ qualityChan' = <<>> /\ wire' = wire
        /\ fftInterval' = 1
    BY <1>1 DEF Restart
  <2>3. /\ Quiet(Line') /\ Short(Line') <= Short(Line)
        /\ (\A i \in 1 .. Len(Line) : Line[i].fft = 0)
             => \A i \in 1 .. Len(Line') : Line'[i].fft = 0
    BY <2>1, <2>2, LineRestarts
  <2>4. CASE lastSent = <<>>
    BY <2>1, <2>2, <2>3, <2>4
  <2>5. CASE lastSent # <<>>
    <3>1. lastSent \in Seq(Counts)
      BY DEF Typed
    <3>2. lastSent[1].fft \in Nat
      <4>1. lastSent[1] \in Counts
        BY <2>5, <3>1
      <4>2. QED
        BY <4>1 DEF Counts
    <3>3. received.fft \in Nat /\ late.fft \in {0, 1} /\ sent.fft \in Nat
      BY DEF Typed, TypeOK
    <3>4. Short(Line) \in {0, 1} /\ Short(Line') \in {0, 1}
      BY DEF Short
    <3>5. received.fft + late.fft >= 0 - lastSent[1].fft + Short(Line')
      BY <2>1, <2>3, <2>5, <3>2, <3>3, <3>4
    <3>6. QED
      BY <2>2, <2>3, <2>5, <3>5
  <2>6. QED
    BY <2>4, <2>5
<1>2. CASE CmdQualityReport
  <2> SUFFICES ASSUME ~disturbed' PROVE OvertakeInv'
    BY DEF OvertakeInv
  <2>1. PICK i \in DOMAIN wire :
          /\ wire' = Without(wire, i)
          /\ qualityChan' = Append(IF Len(qualityChan) = qualityDepth
                                   THEN Tail(qualityChan) ELSE qualityChan, wire[i])
          /\ disturbed' = (disturbed \/ Len(qualityChan) = qualityDepth \/ i # 1)
    BY <1>2 DEF CmdQualityReport
  <2>2. i = 1 /\ Len(qualityChan) # qualityDepth /\ ~disturbed
    BY <2>1
  <2>3. wire # <<>>
    BY <2>1
  <2>4. prevLoss' = prevLoss /\ qualityChan' = Append(qualityChan, wire[1])
    BY <1>2, <2>1, <2>2 DEF CmdQualityReport, pipelineVars
  <2>5. Line' = Line
    BY <2>1, <2>2, <2>3, <2>4, LinePassesOn
  <2>6. UNCHANGED <<fftInterval, fftLost, lastSent, received, late, sent>>
    BY <1>2 DEF CmdQualityReport, pipelineVars, clientVars
  <2>7. QED
    BY <2>2, <2>5, <2>6 DEF OvertakeInv, Quiet, Short
<1>3. CASE ReportLost
  BY <1>3 DEF ReportLost, OvertakeInv
<1>4. CASE Rebuild \/ UNCHANGED vars
  <2>1. UNCHANGED <<fftInterval, prevLoss, qualityChan, wire, fftLost, disturbed, lastSent,
                    received, late, sent>>
    BY <1>4 DEF Rebuild, vars, pipelineVars, clientVars, historyVars
  <2>2. Line' = Line
    BY <2>1, LineSame
  <2>3. QED
    BY <2>1, <2>2 DEF OvertakeInv, Quiet, Short
<1>5. QED
  BY <1>1, <1>2, <1>3, <1>4, OvertakeSecond, OvertakeAdapt DEF Next

(* A network that loses no spectrum never slows the spectrum down, however *)
(* many marks overtake one and however many are lost, for any rates: what  *)
(* is missing in one window is too much in the next, and the smaller of    *)
(* two reports decides.                                                    *)
THEOREM OvertakingIsIgnored == Spec => []OvertakingIgnored
<1>1. Init => OvertakeInv
  <2> SUFFICES ASSUME Init PROVE OvertakeInv
    OBVIOUS
  <2>1. Line = <<NoReport>>
    BY DEF Init, Line
  <2>2. NoReport.fft = 0
    BY DEF NoReport, Report, NoLoss
  <2>3. QED
    BY <2>1, <2>2 DEF Init, OvertakeInv, Quiet
<1>2. OvertakeInv => OvertakingIgnored
  BY DEF OvertakeInv, OvertakingIgnored
<1>3. QED
  BY <1>1, <1>2, Always, OvertakeStep, PTL DEF Spec
=============================================================================
