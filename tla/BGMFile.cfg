SPECIFICATION FairSpec
CONSTANTS
  Ids = {1, 2, 3}
  Tracks = {2, 3, 5}
  Missing = {3}
  Refusals = {"OPEN CD", "OPEN FILE", "PLAY FILE"}
  MaxOpen <- OneOfEach
INVARIANTS TypeOK NoFileIsLost SongIsTheOneAsked
PROPERTIES ImplementsMusicBox MusicLoops
