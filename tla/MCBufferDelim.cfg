CONSTANTS
  cr = cr
  lf = lf
  x = x
  Bytes = {cr, lf, x}
  Delim <- CRLF
  Lengths = {1, 3}
  MaxSent = 4
SPECIFICATION Spec
INVARIANTS
  GetStopsAtDelim
