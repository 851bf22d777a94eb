\* Two readers among two writers; the whole stream fits the page.
CONSTANTS
  snapshot = snapshot  coverage = coverage
  Names <- TwoNames
  Alone <- ReadAlone
  Writers = {w1, w2}
  Readers = {r1, r2}
  PageLimit = 4
  MaxEvents = 4
SPECIFICATION Spec
PROPERTIES ReadsImplemented
