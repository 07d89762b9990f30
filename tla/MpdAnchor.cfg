SPECIFICATION Spec
CONSTANTS
  Manifests <- MCAnchor
  MpdTimes = {0, 5000, 13000, 21000}
  MpdIds <- MCIds
  MaxMpdAsked = 3
  LayerFeeds <- MCFeeds
  PtsPart = 3
  MaxRounds = 2
  Shows <- MCShows
  MaxPlays = 3
  MaxSources = 3
  MaxTurns = 5
  MaxSourceSeeks = 2
  Polite = TRUE
  Timers = {1, 2}
  EndTimes = {0, 2}
  Sync = TRUE
  Gapless = FALSE
  MaxFakeTurns = 3
  MaxPlaying = 2
  MaxRunning = 3
INVARIANTS AnchorHonoured
CHECK_DEADLOCK FALSE
