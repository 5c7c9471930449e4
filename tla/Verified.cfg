SPECIFICATION VerifySpec
CHECK_DEADLOCK FALSE
INVARIANT PassIsOfProject
