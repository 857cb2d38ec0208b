SPECIFICATION MCSpec
CONSTANTS
  Parts = {"renderer", "session", "config"}
  \* TerminalRenderer
  Glyphs <- MCGlyphs
  Texts <- MCTexts
  Statuses <- MCStatuses
  Notices <- MCNotices
  Widths = {0, 3, 4}
  Heights = {1, 3}
  MaxColumns = 4
  MaxRows = 3
  MaxBody = 3
  \* TerminalSession
  MaxTurns = 1
  MaxAgents = 2
  MaxOperations = 2
  MaxText = 1
  OutputLines = 1
  DetailLines <- MCDetailLines
  \* TerminalConfig
  Ids <- MCIds
  Fields <- MCFields
  Interaction <- MCInteraction
  Required <- MCRequired
  ChoiceValues <- MCChoiceValues
  MaxDraft = 2
  Parsable <- MCParsable
  Catalog <- MCCatalog
  StatsEntries <- MCStatsEntries
  Nothing = Nothing
  UserDocuments <- MCUserDocuments
  MaxRevision = 1
CHECK_DEADLOCK FALSE
INVARIANTS ScreenShowsFrame ScreenIsCurrent
PROPERTIES PromptsAreKept DraftsAreHonoured
