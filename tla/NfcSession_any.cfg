SPECIFICATION CardSpec
INVARIANTS NoLostWakeup StopIsPrompt RadioFollows
PROPERTIES StartHonoured ServiceKept
