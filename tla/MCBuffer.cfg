CONSTANTS
  cr = cr
  lf = lf
  x = x
  Bytes = {cr, lf, x}
  Delim <- CRLF
  Lengths = {1, 3}
  MaxSent = 5
SPECIFICATION Spec
INVARIANTS
  BufferTypeOK
  NothingLost
  MatchIgnoresCuts
PROPERTIES
  GetEndsWithDelim
  CallsReturn
