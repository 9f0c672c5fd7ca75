SPECIFICATION FairSpec
CONSTANTS
  Length <- MCLength
  PlayArgs <- OnDisc
  Msgs = {"OPEN", "CLOSE", "STATUS", "STOP", "PAUSE", "SEEK", "SET"}
  Rejectable = {"SET"}
  SEC = 2
  WRAP = 12
  MaxLag = 1
  Spans <- MCSpans
  Garbage = {0, 1, 5}
  MaxGap = 3
  OSVersion = 61
INVARIANTS TypeOK NoReplayWhilePlaying WatchCoversSong PlayInTrackFormat
PROPERTIES ImplementsRequest SongEndIsNoticed
