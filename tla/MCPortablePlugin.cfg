SPECIFICATION Spec
CONSTANTS
  Channels = {1, 10}
  Notes = {"a", "b"}
  MaxVoices = 2
  Files <- TheFiles
  Percussion = 10
  MaxPresets = 2
  MaxBytes = 3
  Rates = {44, 48}
  DefaultRate = 48
  Controls = {"default", "large"}
  DefaultControl = "default"
  Volumes = {"default", "low"}
  DefaultVolume = "default"
  MaxFrames = 1
  FrameLists <- TheFrameLists
  None = None
CONSTRAINT Explored
INVARIANTS TypeOK VoicesFollowTheKeys ChokedGroupsAreSilent InstalledBanksAreWhole
  OfferedPresetsExist SettingsAreHeard BlocksAreComplete
