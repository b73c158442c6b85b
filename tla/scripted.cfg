\* Every script of up to three replies and every sequence of up to four calls.
\* A session ends with its last call.
SPECIFICATION Spec
CONSTANTS
  Replies <- MCReplies
  MaxScript = 3
  MaxCalls = 4
CHECK_DEADLOCK FALSE
INVARIANTS ScriptFollowed
PROPERTIES RefinesContract
