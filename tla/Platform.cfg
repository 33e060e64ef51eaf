SPECIFICATION PlatformSpec
CONSTANT None = None
INVARIANTS OutputsAsConfigured BeatIsWellRun
PROPERTIES FilesAreSafe SetupIsComplete
CHECK_DEADLOCK FALSE
