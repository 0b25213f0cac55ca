SPECIFICATION LibrarySpec
CONSTANTS
  width = 3
  height = 3
  CONSOLE_TAB_SIZE = 2
  Texts <- MCTexts
  UINT_SIZE = 128
  Sizes = {0, 1, 3, 4, 12}
  Formats <- MCFormats
  Node = {n1, n2, n3}
  ListHead = {h1, h2}
  NULL = NULL
  Cap = 4
  Wrap = 8
  BUFFER_SIZE = 3
  Message <- MCMessage
  PANIC <- MCPanic
  HALTED <- MCHalted
  MaxExceptions = 2
INVARIANTS
  TextAsFormatted
  LinksMutual
  HaltMessageLast
PROPERTIES
  BehavesAsTerminal
  ActsOnSequences
  BehavesAsBoundedLog
  PanicHalts
