CONSTANTS
  Plays <- MCNested
  Object <- MCObject
  Above <- MCAbove
  Router = "vr"
  Bgp = "bgp"
  Setting <- MCSetting
  KeyOf <- MCKeyOf
  Bare = "entry"
  Starts <- MCStarts
  Task <- MCTask
  Idle = Idle
  Script <- MCScript
  State <- MCState
  Target <- MCTarget
  Asked <- MCAsked
  Kids <- MCKids
  Holder <- MCHolder
  Commit <- MCTask
  Replace <- MCReplace
  NextVr <- MCNextVr
  Incomplete <- MCIncomplete
  Flaky = {"read", "write"}
  Admin = {"commit"}
SPECIFICATION FairSpec
PROPERTIES Converges OkMeansRunning
