SPECIFICATION Spec
CONSTANTS
  QtFiles <- MCQtFiles
  MaxBuffer = 12
  MaxPushes = 2
  LoopFiles <- MCLoopFiles
  LoopSeeks <- MCLoopSeeks
  MaxLoopSeeks = 2
  Jump = 2
  MaxPiece = 1
  SoonEnd = 2
  Tables <- MCTables
  Streams <- MCStreams
  Gap = 3
  MaxReads = 7
  CencTracks <- MCCenc
  Headers <- MCHeaders
  MaxHeaders = 3
  MaxResets = 2
  Moovs <- MCMoovs
  TagHeaders <- MCTagHeaders
  MaxTagReads = 2
  EditTracks <- MCEditTracks
  MaxMaps = 2
  MaxUnits = 1
  BoxFiles <- MCBoxFiles
  MaxAsked = 2
INVARIANTS PushRight PlayRight SamplesRight HeadRight
CHECK_DEADLOCK FALSE
