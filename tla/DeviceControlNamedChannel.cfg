SPECIFICATION Spec
CONSTANTS
  DevIds = {1, 2}
  Devices <- MCDevices
  Channels = {1, 2}
  StartChan <- MCStartChan
  Names = {night}
  NoName = NoName
  MAX_PRESET_V40 = 2
  MaxChanges = 2
PROPERTY
  UpdatesNamedChannel
