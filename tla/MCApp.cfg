SPECIFICATION FairSpec
CONSTANTS
  Apps = {a1, a2}
  NoApp = NoApp
  MaxEvents = 2
INVARIANTS MainAppLives InService
PROPERTIES ClosingSticks CloseEndsRun QuitIsHeard
