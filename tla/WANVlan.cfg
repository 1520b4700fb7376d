\* One gateway with a tagged WAN port and a probe of it.
CONSTANTS
  PortCount = 3
  Member <- MCMember
  Bridge = "br0"
  Virtual = {"tap1", "tap2"}
  Physical = {"eno1", "eno2"}
  Place <- MCPlace
  MAC = {a, b}
  Tables <- MCTables
  Config <- MCConfig
  NoMember = "nobody"
  Profile = "profile"
  Down = "down"
  Iface = {"e1"}
  NoIface = ""
  RatePorts = {1, 2, 3}
  MaxBytes = 2
  MaxMoved = 2
  MaxAge = 2
  Plan <- VLANPlan
  Heard <- MCHeard
  HostSpeed = 100
  Answers <- MCAnswers
SPECIFICATION ReportSpec
INVARIANT ProbesLeaveVLAN
