\* Seven kinds of session: reasoning options, output schemas, dialogues over
\* three providers with tools, a registry that changes, odd messages, refused
\* configurations and answers, and failed calls.
SPECIFICATION Spec
CONSTANTS
  Nil = Nil
  Json <- MCJson
  Sessions <- MCSessions
CHECK_DEADLOCK FALSE
INVARIANTS
  TypeOK
  ReportComplete
  ResultsNameTheirCalls
  NoDeadEnd
  ControlsSurvive
  StrictSchemaArrives
  DispatchSound
  CauseDecides
