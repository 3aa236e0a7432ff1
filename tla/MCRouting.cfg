CONSTANTS
  Lower <- MCLower
  NoRoute = NoRoute
  RequestHosts <- MCHosts
  RequestPaths <- MCPaths
  Listable <- MCListable
  MaxListed = 3
  Words <- MCWords
  LowerField <- MCLowerField
  FromLast <- MCFromLast
  LabelKeys <- MCKeys
  Names <- MCNames
  MaxLabels = 5
  Missing = Missing
SPECIFICATION Spec
INVARIANT PrefixMatchIsSegmentwise
INVARIANT SelectIsMostSpecific
INVARIANT DiscoveredWinsTie
INVARIANT RoutesAsDeclared
CHECK_DEADLOCK FALSE
