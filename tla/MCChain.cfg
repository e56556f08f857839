SPECIFICATION Spec
CONSTANTS
  BlockLens = {3, 9}
  MaxFed = 33
  sampleRate = 24
  ChannelBandwidth <- MCChannelBandwidth
  AudioRate <- MCAudioRate
  xlatTaps = 4
  audioTaps = 3
  voiceTaps = 2
  hop = 2
  frameSize = 2
  Levels = {0, 1, 2}
  Thresholds = {2, 3}
  cfgSquelchDb = 2
  hysteresis = 1
  hangSamples = 3
  fastSamples = 3
  Channels = {118000000, 118008333, 100000000}
  Carriers = {3000, 9000}
INVARIANTS TypeOK FramesContinuous FindsTheStation TunedWithinChannel
PROPERTIES EncoderKeepsUp ClosesAfterHang
