\* The stream outgrows the page.
CONSTANTS
  snapshot = snapshot  coverage = coverage
  Names <- TwoNames
  Alone <- ReadAlone
  Writers = {w1}
  Readers = {r1}
  PageLimit = 3
  MaxEvents = 5
SPECIFICATION Spec
INVARIANTS AnswersAreOnePrefix
