CONSTANTS
  Plays <- MCEvery
  Object <- MCObject
  Above <- MCAbove
  Router = "vr"
  Bgp = "bgp"
  Setting <- MCSetting
  KeyOf <- MCKeyOf
  Bare = "entry"
  Starts <- MCStarts
  Task <- MCTask
  Idle = Idle
  Script <- MCScript
  State <- MCState
  Target <- MCTarget
  Asked <- MCAsked
  Kids <- MCKids
  Holder <- MCHolder
  Commit <- MCTask
  Replace <- MCReplace
  NextVr <- MCNextVr
  Incomplete <- MCIncomplete
  Flaky = {"read", "write", "lost", "commit"}
  Admin = {"commit", "revert"}
SPECIFICATION Spec
INVARIANTS TypeOK RunAgain
PROPERTIES OnlyOwn OkMeansAsked CommitIfChanged
