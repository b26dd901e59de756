CONSTANTS
  a1 = a1  b1 = b1  c1 = c1  fw = fw  other = other
  Link = {a1, b1, c1}
  None = None
  Firewall = {fw, other}
  This = fw
  Deployment <- MCDeployment
  BeginTunnel = 500
  BeginIpsec = 500
  Starts <- MCStarts
  Task <- MCTask
  State <- MCState
  Name <- MCName
  Gateway <- MCGateway
  Peer <- MCPeer
  Number <- MCNumber
  Flaky = {"write", "lost", "rejected", "commit"}
  Admin = {"commit", "revert"}
  Trouble = 2
SPECIFICATION FairSpec
INVARIANTS TypeOK
PROPERTIES OkMeansJoined WorkingStays OkMeansBoth Heals
