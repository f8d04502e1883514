SPECIFICATION Spec
CONSTANTS
  Configs <- MCFast
INVARIANT NotEnqueuedTwice
