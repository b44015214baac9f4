SPECIFICATION PeripheralsSpec
CONSTANTS
  Gop = 2
  MaxRecords = 3
  MaxFiles = 2
  MaxMishaps = 1
  Tasks = 2
  Cutover = 2
  Periods = {2, 3, 6}
  Spins = {0, 1}
  MaxClock = 8
  Joints = {"arm"}
  Cameras <- FrontCameras
  Resized = {"c2"}
  MaxDeliveries = 2
  MaxToggles = 2
  MaxCycles = 2
  Followers = {"left", "right"}
  Wheels = {"base"}
  MaxMessages = 2
  MaxOffset = 2
  MaxCount = 2
  Base = 2
  Sent <- SentNumbers
  MaxFloats = 3
  Word = 512
  IntMax = 7
  Views = {"arm", "cam"}
  Wanted <- ArmPositions
  MaxShows = 1
  MaxShowings = 2
INVARIANTS EpisodeDecodes PacedRuns FreshObservation ReplayFaithful FacesOwned CodecFaithful EpisodesApart
CHECK_DEADLOCK FALSE
