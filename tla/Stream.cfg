\* Answers with thoughts, contents and tool blocks for both APIs, cut into tokens in every way.
SPECIFICATION Spec
CONSTANTS
  Requests <- Answers
  MarkerScan = 4
  MarkerHold = 8
  MaxPiece = 3
INVARIANT NeverRetracted
INVARIANT StreamsAgree
INVARIANT Delivered
INVARIANT BlocksNested
 
