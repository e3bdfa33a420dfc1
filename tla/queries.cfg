\* Two requesters; the file may be rewritten at any moment.
CONSTANTS
  r1 = r1
  r2 = r2
  old = old
  new = new
  short = short
  Main = Main
  BuiltIn = BuiltIn
  Requesters <- MCRequesters
  Files <- MCFiles
  Assigned <- MCAssigned
SPECIFICATION Spec
INVARIANTS
  TypeOK
  
  MixingNeedsMishap
PROPERTIES
  LoadsRunOut
  SettingsSettle
