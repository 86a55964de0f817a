SPECIFICATION SetupSpec
CONSTANTS
  ann = ann
  own = own
  team = team
  e1 = e1
  e2 = e2
  r1 = r1
  r2 = r2
  q1 = q1
  q2 = q2
  NoRef = noref
  NoSource = nosource
  Machine = machine
  Broken = broken
  Refs = {r1, r2}
  Main = r1
  Names = {e1, e2}
  Pins = {q1, q2}
  Scenes <- MCScenes
  Dialogs <- MCDialogs
  Self = own
  Named = {ann}
  Forums = {}
  Users = {ann}
  Folders <- MCFolders
  Tabs <- MCTabs
  Matched <- MCMatched
  Found <- MCFound
  MaxFanout = 2
CHECK_DEADLOCK FALSE
INVARIANTS
  SavedAccessIsAsShown
  SetupReportsHold
