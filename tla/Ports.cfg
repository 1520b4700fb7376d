\* Three ports, five bridge interfaces with two addresses, one host interface.
CONSTANTS
  PortCount = 3
  Member <- MCMember
  Bridge = "br0"
  Virtual = {"tap1", "tap2"}
  Physical = {"eno1", "eno2"}
  Place <- MCPlace
  MAC = {a, b}
  Tables <- MCTables
  Config <- MCConfig
  NoMember = "nobody"
  Profile = "profile"
  Down = "down"
  Iface = {"e1"}
  NoIface = ""
  RatePorts = {1, 2, 3}
  MaxBytes = 2
  MaxMoved = 2
  MaxAge = 2
  Plan <- MCPlan
  Heard <- MCHeard
  HostSpeed = 100
  Answers <- MCAnswers
SPECIFICATION ReportSpec
SYMMETRY AddressSymmetry
INVARIANTS
  RemoteIsNeverClaimed EveryMemberIsShown PinsAreReserved OneInterfacePerPort NothingSyntheticOnceLearned
   OperatorHasTheLastWord HostFactsAreCurrent ImportKeepsOperator
  LLDPNeverFails ConfiguredEdgesSurvive HeardOneWay
  RootTrafficIsReal  
