SPECIFICATION UringSpec
CONSTANTS
  Groups = {"g0", "g1"}
  Subreads <- MCSubreads
  RingDepth = 1
  MaxOutstanding = 1
  Prompt = {"g1"}
  MaxFailures = 0
INVARIANT AcceptedIsVisible
