SPECIFICATION MCSpec
CONSTANTS
  a = a
  b = b
  c = c
  d = d
  in = in
  raw = raw
  dets = dets
  Names = {a, b, c, d}
  Keys = {in, raw, dets}
  InputKeys = {in}
  OutputKeys = {dets}
  MaxNodes = 4
  Graphs <- MCExplicit
  Packets = {p}
  NodeChoices <- MCChoices
  MaxAdded = 3
CHECK_DEADLOCK FALSE
INVARIANT
  AllTracesNumbered
