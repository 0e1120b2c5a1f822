SPECIFICATION MidiSpec
CONSTANTS
  Scores <- MCScores
  Generators = {0, 1}
INVARIANT PauseKept
PROPERTY MelodyEnds
CHECK_DEADLOCK FALSE
