CONSTANTS
  None = None
  Garbage = Garbage
  Schemas <- MCSchemas
  Docs <- MCDocs
  LargeAt = 1
  Texts <- MCTexts
  Folders <- MCFolders
  Histories <- MCHistories
  Days <- MCDays
  NoReport = NoReport
SPECIFICATION MCSpec
CHECK_DEADLOCK FALSE
INVARIANTS AllOfComplete ToolsAgree VerifyAcceptsMock LoadingIsExact
           SchemaBreaksAreSeen RollbackBreaks DatesAreCivil ReportsAreBacked
