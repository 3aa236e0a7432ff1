SPECIFICATION HistogramSpec
CONSTANTS
  Observers = {o1, o2}
  Buckets = 2
  MaxObs = 3
SYMMETRY MCSymmetry
INVARIANT ScrapeWithinBounds
