\* Two clients and up to three requests in batches of two let clients finish,
\* be refused and be replaced in every order; a third handle is needed while a
\* client is replaced.  MSET has ten placeholders: an array of 2 grows three
\* times, as one of 8 does once.
CONSTANTS
  Handle = {h1, h2, h3, h4}
  CommandLines <- AllCommandLines
  InitialPointers = 2
  MaxPasses = 2
  MaxFailures = 1
SPECIFICATION Spec
INVARIANTS RequestsIntact AnswersMatchCommands LiveClientsCounted ReportComplete NoPrematureAbort
PROPERTY BenchmarkEnds
\* The program ends.
CHECK_DEADLOCK FALSE
