SPECIFICATION ConsoleSpec
CONSTANTS
  Places = {auto, early, folder}
  DefaultPlace = auto
  Relative = {auto}
  Folders = {folder}
  Closed = {folder}
  NoPlace = NoPlace
  Verbosities = {0, 1, 4}
  MaxMessages = 3
INVARIANTS
  LogsReachTheirFile
