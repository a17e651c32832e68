CONSTANTS
  Dirs <- MCDirs
  Candidates <- MCCandidates
  outputDir <- MCOutputDir
  outputFile <- MCOutputFile
  Letters <- MCLetters
  Upper <- MCUpper
SPECIFICATION Spec
INVARIANTS UniqueConst
CHECK_DEADLOCK FALSE
