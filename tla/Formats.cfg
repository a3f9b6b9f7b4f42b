SPECIFICATION Formats
CONSTANTS
    CountLimit = 120
    MaxTok = 8
    MaxFile = 14
CHECK_DEADLOCK FALSE
INVARIANTS MessagesExact OptionsExact HeadersExact FindsModule
PROPERTY ImplementsCounter
