SPECIFICATION FairSpec
CONSTANT Workers = {w1}
CHECK_DEADLOCK FALSE
PROPERTY RunStarts
