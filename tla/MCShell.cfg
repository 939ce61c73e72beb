SPECIFICATION Spec
CONSTANTS
  Proc = {1, 2, 3, 4}
  NFILE = 4
  NOFILE = 5
  NPIPE = 1
  PIPESIZE = 1
  MAXARGS = 3
  MaxLines = 2
  Commands <- MCCommands
  Malformed <- MCMalformed
  Trees <- MCTrees
INVARIANTS
  FilesCounted
  ParsedAsMeant
PROPERTY PromptReturns
CHECK_DEADLOCK FALSE
