SPECIFICATION Spec
CONSTANTS
    MaxMsgs = 2
    Threshold = 1
    Faults = {"startup", "open", "register", "send", "recv", "oom", "keyread", "oversize"}
CHECK_DEADLOCK FALSE
INVARIANTS OneReply AbortBlamed CleanExit
PROPERTIES SignalEnds RequestAnswered HangupEnds
