SPECIFICATION MCSpec
CONSTANTS
  Chars <- MCChars
  MaxLen <- MCMaxLen
  NumberOf <- MCNumberOf
  Bounds <- MCBounds
  Template <- MCTemplate
  Configs <- MCConfigs
  NoConfig = NoConfig
  DefaultServer <- MCDefaultServer
  Edits <- MCEdits
  Forms <- MCForms
  HeaderLen = 2
  MaxMsg = 18
  MaxLabel = 3
  MaxName = 8
  TailLen = 2
  AnswerLen = 4
  Queries <- MCQueries
  NoQuery = NoQuery
INVARIANT
  MinimumSetup
