SPECIFICATION Spec
CONSTANTS
  MaxLength <- MCMaxLength
  null = null
  Keys <- MCKeys
  Globs <- MCGlobs
  Regexes <- MCRegexes
  Strings <- MCStrings
  CachedStrings <- MCCachedStrings
  Sizes <- MCSizes
INVARIANTS TypeOK HeapIsCache CachedAsUncached MatchIsGlob VerilogAgrees GlobToRe BufferFits
PROPERTIES OrderedByUse OnlyOldestHitBreaksList EvictsOldest
CHECK_DEADLOCK FALSE
