SPECIFICATION FairSpec
CONSTANTS
  Tasks <- MCTasks
  NoTask = 0
  MaxInterrupts = 1
  MaxParks = 1
  MaxCommands = 1
  MaxSubmits = 0
PROPERTIES
  ActiveSettles
  QueueDrains
