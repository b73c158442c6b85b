\* Two callers on a script of up to two items, or a fixed reply; requests the
\* bridge serves or refuses for one reason each; the recording taken at any
\* time.  A session ends with its last call.
SPECIFICATION Spec
CONSTANTS
  Callers = {c1, c2}
  Grants <- SomeGrants
  Requests <- SomeRequests
  MaxScript = 2
  MaxCalls = 2
CHECK_DEADLOCK FALSE
SYMMETRY CallerSymmetry
INVARIANTS ScriptServedOnce RequestsRecordedOnce OnlySupportedServed
