SPECIFICATION DecoderSpec
CONSTANTS
  HostLabels <- MCHostLabels
  MaxLabels = 1
  MaxAnswers = 2
  PrefixLen = 128
  Letters <- MCLetters
  Paths <- MCPaths
  HostNames <- MCHostNames
  Phrases <- MCPhrases
  HeaderFields <- MCHeaderFields
  Rests <- MCRests
INVARIANTS
  DnsEventIsWhatWasCaptured
  HttpEventExplained
CHECK_DEADLOCK FALSE
