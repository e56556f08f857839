SPECIFICATION Spec
CONSTANTS
  MaxSeconds = 4
  MaxOnWay = 2
  baseOpusBitrate = 32000
  fftRate = 10
  audioRate = 20
  statusRate = 10
  AudioLosses = {0, 15}
  FFTLosses = {0, 3}
  AudioBehind = {0, 6}
  qualityDepth = 2
INVARIANTS TypeOK ReportIsTrue SpikeIgnored  LossHeard EncoderAsDecided
