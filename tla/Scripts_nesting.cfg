SPECIFICATION FairSpec
CONSTANT MAX_SCRIPT_DEPTH <- MCDepth
INVARIANTS ConsoleOpen OptionObeyed
PROPERTY FailureUnwinds
CHECK_DEADLOCK FALSE
