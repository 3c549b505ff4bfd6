SPECIFICATION Spec
CONSTANTS
  WordBits <- MCWordBits
  MaxWidth <- MCMaxWidth
  ValueChars <- MCValueChars
  SliceChars <- MCSliceChars
  Sizes <- MCSizes
  Paths <- MCPaths
  Arguments <- MCArguments
INVARIANTS TypeOK CheckedPathReads ChunksExtend
PROPERTIES OnlySelectedBits DoneWhenTold PartialWriteIsPrefix ReadIsTrue ClearedBeforeRead
CHECK_DEADLOCK FALSE
