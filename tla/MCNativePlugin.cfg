SPECIFICATION Spec
CONSTANTS
  Banks <- TheBanks
  Roots <- TheRoots
  MaxVoices = 3
  MaxLayers = 2
  Notes = {n1, n2}
  Gains = {"default", "soft"}
  DefaultGain = "default"
  Invalid = "invalid"
  MaxFrames = 2
  FrameLists <- TheFrameLists
  States <- TheStates
SYMMETRY NoteSymmetry
INVARIANTS TypeOK NotesFollowTheKeys SelectionAgrees NamesResolve NoEventIsLate
