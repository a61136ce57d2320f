SPECIFICATION ValuesSpec
CONSTANTS
 UINT8_MAX = 1
 INT32_MAX = 3
 UINT32_MAX = 7
 INT64_MAX = 15
 NANOS_IN_SEC = 4
 Doubles <- MCDoubles
 Singles <- MCSingles
 DBL_MAX = 96
 FLT_MAX = 64
 Operands <- MCOperands
 PatternTexts <- MCPatternTexts
 strlen <- MCStrlen
 tolower <- MCTolower
 pcre2_match <- MCMatch
 Namespaces <- MCNamespaces
 Trees <- MCTrees
 Types <- MCTypes
 Values <- MCValueSet
 Execs <- MCExecs
 Templates <- MCTemplates
 Destinations <- MCDestinations
 Managers <- MCManagers
 SUBSEC_DIGITS = 2
 identity <- MCIdentity
 Keyword <- MCKeyword
 Shown <- MCShown
 cace_ari_dtn_epoch = 7
 TIMEPERIOD_DAY = 12
 TIMEPERIOD_HOUR = 6
 TIMEPERIOD_MINUTE = 2
 Portables <- MCPortables
 Received <- MCReceived
 Options <- MCOptions
 Comparables <- MCComparables
 Texts <- MCTexts
 Bytes <- MCBytes
 Ranges <- MCRanges
INVARIANTS OrderSound ArithmeticExact EvalMatchesTree ConvertStable ExpandsInOrder ReportsComplete  TextRoundTrip CmpOrder RangeContains
