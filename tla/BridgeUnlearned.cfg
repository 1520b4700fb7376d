\* A bridge that has learned nothing yet.
CONSTANTS
  PortCount = 3
  Member <- MCMember
  Bridge = "br0"
  Virtual = {"tap1", "tap2"}
  Physical = {"eno1", "eno2"}
  Place <- MCPlace
  MAC = {a}
  Tables <- MCTables
  Config <- MCConfig
  NoMember = "nobody"
  Profile = "profile"
  Down = "down"
SPECIFICATION Spec
INVARIANT UnmappedPortsAreDown
