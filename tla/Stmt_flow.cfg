SPECIFICATION Spec
CONSTANTS
  Families = {"nest", "dispatch", "unsigned", "bare"}
  Programs <- AllPrograms
  Answers <- MCAnswers
  MaxTrace = 6
INVARIANT FlowExact
