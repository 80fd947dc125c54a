SPECIFICATION Spec
CONSTANT Conns = {c1}
CHECK_DEADLOCK FALSE
INVARIANT WebsockIsValid
