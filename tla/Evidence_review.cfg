SPECIFICATION Spec
CONSTANTS
  r0 = r0
  r1 = r1
  r2 = r2
  d1 = d1
  d2 = d2
  Runs <- MCRuns
  First = r0
  Docs <- MCDocs
  Removable = {d2}
  Suspicious = {d2}
  Texts = {"sure", "unsure"}
  Low = {"unsure"}
  Scopes <- MCScopes
  Links <- MCLinks
  Answers <- MCAnswers
  FirstClaims <- MCFirstClaims
  Sections = {"s1", "s2"}
  FirstReport <- MCFirstReport
  Outlines = {{"s1"}}
  Questions = {1}
  NoRun = NoRun
  NoClaim = NoClaim
INVARIANTS CommitsNeverCollide ReportsAreSound RefreshKeepsOtherSections
 
CHECK_DEADLOCK FALSE
