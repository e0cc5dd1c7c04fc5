SPECIFICATION Spec
CONSTANTS
  Longest = 3
  Programs <- MCPrograms
  Calls <- MCCalls
  Probes <- MCProbes
CHECK_DEADLOCK FALSE
INVARIANTS BoundsAreKept MeansWhatIsWritten RunsWhatWasChecked OrderDoesNotMatter
