SPECIFICATION SSpec
CONSTANT Processes = {"ijvm", "ijdb"}
INVARIANTS IjvmFreesOnce DebuggerFreesOnce OnlyFilesAreLost ExitFreesAll
