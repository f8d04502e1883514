SPECIFICATION Spec
CONSTANTS
  Configs <- MCConfigs
INVARIANTS OneInstructionEvent RunnableIsActive StallsAccounted FetchedBeforeExecuted StepIsOne
PROPERTY Resumes
