SPECIFICATION Spec
CONSTANTS
  Parts = 2
  Increments = {1, 2, 5}
  Fades = {1, 3}
  DeclickParts = 5
  Bases = {1, 2}
  Files <- MCFiles
  MaxIncludeDepth = 3
  MaxExpanded = 31
  Numbers <- MCNumbers
  NoteNames <- MCNoteNames
  AudioFiles <- MCAudioFiles
  Controllers = {1}
  PreloadFrames = 4
  MaxResident = 5
  Forever = 3
  Shelf <- MCShelf
  SearchDepth = 2
  MinimumRelease = 1
  MaxNesting = 6
  Collections <- MCCollections
  Trees <- MCTrees
  NkiDocuments <- MCNkiDocuments
  RfInstruments <- MCRfInstruments
  LongestStage = 8
  MaxSfzRegions = 4
  MaxSelected = 17
  Followed <- MCFollowed
  Notes = {60, 64}
  Velocities = {100}
  Settings = {0, 64, 127}
INVARIANTS VoiceReadsItsSample RunsOutFaded DocumentsMeanWhatTheySay LoadedInstrumentsPlay
CHECK_DEADLOCK FALSE
PROPERTY VoiceRunsItsCourse
