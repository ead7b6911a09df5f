SPECIFICATION Spec
CONSTANTS
  Handlers = {h1, h2, h3}
  Early = Early
SYMMETRY HandlerSymmetry
INVARIANTS StatusMatchesAck EarlyAckApplied
PROPERTY LevelNeverFalls
CHECK_DEADLOCK FALSE
