SPECIFICATION CfgSpec
CONSTANTS
  Order <- MCOrder
  Strings = {"Config_name", "cpu_onnx"}
  Inferred = {"max_range"}
  Unsaved = {"move_dll"}
  Typed <- MCTyped
  Default <- MCDefault
  Components <- MCComponents
  Directories <- MCDirectories
  Found <- MCFound
  ProgramName = "SF_DML.exe"
  MaxSaves = 2
INVARIANTS CfgTypeOK SavedIsLoaded PlainNamesStayBeside KeepSaveKeeps
PROPERTY InterruptedSaveLosesNoKey
CHECK_DEADLOCK FALSE
