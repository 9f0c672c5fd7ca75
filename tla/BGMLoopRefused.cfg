SPECIFICATION Spec
CONSTANTS
  Length <- MCLongDisc
  PlayArgs <- OnDisc
  Msgs = {"OPEN", "STATUS", "STOP", "PAUSE", "SEEK"}
  Rejectable = {"PLAY"}
  SEC = 2
  WRAP = 12
  MaxLag = 1
  Spans <- MCSpans
  Garbage = {0, 1, 5}
  MaxGap = 3
  OSVersion = 61
INVARIANT NoReplayWhilePlaying
