CONSTANTS
  Longest = 7
  MostLines = 5
  LongestHeader = 6
  LongestOutput = 4
  Documents <- MCDocuments
  Problems <- MCProblems
  UserNames <- MCUserNames
  Headers <- MCHeaders
  Runs <- MCRuns
  Expecteds <- MCExpecteds
SPECIFICATION Spec
INVARIANTS CookieRight ComparedWhole Nested Escaped Kept Placed
