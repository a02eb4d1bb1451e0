\* Suggestion windows of up to three rows; the other widgets' bounds are in MCWidgets.
SPECIFICATION WidgetsSpec
CONSTANTS
  MaxRows = 3
  Heights <- TerminalHeights
  InputYs <- ComposerRows
  Widths <- TerminalWidths
  Counts <- CandidateCounts
  Columns <- LetterColumns
  Joined <- LetterJoined
  PromptCols = 2
  ComposerMaxRows = 4
  MainY = 7
  MainMin = 3
  SideMargin = 4
  Terminals <- UsualTerminals
  MaxLength = 4
  Cap = 4
  Width = 3
  Char <- Letters
  NewLine = "NL"
  Texts <- SomeTexts
  Sizes <- SomeSizes
  MaxWritten = 6
  LeadSize <- EditLeadSize
  White <- Blank
  BufSize = 6
  Table <- EditTable
  Slash = "/"
  Space = " "
  MaxTokens = 2
  MaxArgs = 2
  Inputs <- EditInputs
  PortLists <- EditPorts
  ProtocolLists <- NoLists
INVARIANTS
  SelectedShown
  TextViewCurrent
  ComposerCurrent
  LineStands
  SubmissionReads
PROPERTIES
  AppendKeepsPlace
  AcceptReplacesWord
