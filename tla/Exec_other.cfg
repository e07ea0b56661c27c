SPECIFICATION ExecSpec
CONSTANTS
    MinPin = 2
    MaxPin = 3
    Lines <- MCLines
    Secrets <- MCSecrets
    Stdins <- MCStdins
    Own = {"o1", "o2"}
    Other = {"x1"}
    MaxPending = 2
    Signals = {"HUP", "TERM"}
CHECK_DEADLOCK FALSE
PROPERTIES
    AnswersOnlyOwn
