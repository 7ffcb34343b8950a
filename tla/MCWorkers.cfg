CONSTANTS
  Spawns = {1, 2}
  Terms = {1, 2}
  MaxExits = 1
  MaxUpsets = 1
SPECIFICATION MCWorkersSpec
  
PROPERTIES SettledSpawnStays
CHECK_DEADLOCK FALSE
