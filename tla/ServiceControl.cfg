SPECIFICATION Spec
CONSTANTS
  Dialogs <- MCDialogs
  Shells <- MCShells
  Commands <- MCCommands
  Profiles <- MCProfiles
  MaxStart = 2
  MaxStop <- MCMaxStop
INVARIANTS
  TypeOK
  ShownIsShaped
  FileBehindService
  HandlesClosed
  SettingsMeant
PROPERTIES
  ToolsReturn
