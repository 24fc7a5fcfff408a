CONSTANTS
  Name <- MCName
  NumberOf <- MCNumber
  JsonOf <- MCJsonOf
  Regexes <- MCRegexes
  ScalarOf <- MCScalarOf
  Matched <- MCMatched
  Fragment <- MCPosted
  Change <- MCChange
  Filter <- MCFilter
  MaxChanges = 4
  Served <- MCServed
  Local <- MCLocal
  Link <- MCLink
  MaxDepth = 8
SPECIFICATION MCSpec
INVARIANTS ParsedAsMeant ScopesAsMeant GraphOnlyIfUsed OperatorsAgree
           SnapshotCovers NewestSelected PartsAddUp ShownIsFetched TermsOfAllContexts
PROPERTIES WritesHeard QuietWritesHeard CirclesEnd
