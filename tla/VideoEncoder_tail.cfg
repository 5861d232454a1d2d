SPECIFICATION EncoderSpec
CONSTANTS
  Temps = {clip}
  Default = tmp
  Device = video0
  Targets = {clip, saved}
  Stamps = {2, 3, 4}
  Period = 2
  Sizes = {small, large}
  Lookahead = 1
  Lossy = FALSE
  BitRates = {"auto"}
  Resizes = FALSE
  Concurrent = FALSE
  MaxFrames = 2
  NoName = NoName
  NoSize = NoSize
INVARIANTS
  FramesReachFile
