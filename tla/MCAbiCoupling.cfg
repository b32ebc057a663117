\* The same without a failing operation: the only way root's verdict can be a
\* failure is the other client of the record.
SPECIFICATION Spec
CONSTANT Failing = {}
INVARIANT NoCoupling
CHECK_DEADLOCK FALSE
