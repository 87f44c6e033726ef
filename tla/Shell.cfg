SPECIFICATION Spec
CONSTANTS
    Char <- MCChar
    INPUT_BUF_SIZE = 16
    UINT = 32
    Before = 29
    UART_TX_BUF_SIZE = 2
    Proc = {0, 1, 2, 3, 4, 5, 6}
    Name <- MCName
    PIPESIZE = 2
    MAXARGS = 4
    NBUF = 18
    Scenarios <- MCScenarios
INVARIANTS FilesExact RunsAsTyped
PROPERTIES IsLineInput PromptReturns
CHECK_DEADLOCK FALSE
