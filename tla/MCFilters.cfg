SPECIFICATION RunSpec
CONSTANTS
  Calls = {"c", "d"}
  Imported = {"i"}
  Tolerance = 0
  Polls = 1
  Dedup = 2
  MaxTime = 1
  MaxMishaps = 1
  Users = {"ann", "bob"}
  MaxWrites = 1
  Patterns = {"p"}
  LearnWindow = 3
  MinHours = 2
  MaxHour = 4
  MaxPerHour = 3
  MaxMarks = 2
  TapWindow = 1
  MasterWindow = 1
  StaleDays = 0
  MaxDelay = 1
  MaxFrames = 1
  MaxDay = 4
  MaxCorrections = 1
  MaxRestarts = 1
  
PROPERTIES   SuppressionOK  
