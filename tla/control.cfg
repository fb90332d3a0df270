\* Both protocols, POSIX build.
CONSTANTS
  Protocols = {"COLA_B", "COLA_2"}
  Posix = TRUE
  ReqIdModulus = 4
  MaxOpens = 3
  MaxCalls = 3
SPECIFICATION Spec
INVARIANTS TypeOK ConnectionIsWhole AnswerIsForCommand2 OnlyLateAnswersAreForeign CloseCloses
PROPERTIES ExecutedAtMostTwice CallsReturn
