\* Progress of an adoption and of the commands of one SSH session.
CONSTANTS
  RawKey = {}
  HexKey = {"k1hex"}
  BadKey = {}
  KeyBytes <- MCKeyBytes
  DefaultBytes = "default"
  Url = {"u1"}
  BadUrl = {}
  CfgVersion = {}
  ControlCfg = {}
  Version = {}
  Controller = "u1"
  NoFile = NoFile
  Session = {s1}
  NoSession = NoSession
  InitialDisk <- NoneOrInvalid
  s1 = s1
  s2 = s2
SPECIFICATION FairSpec
PROPERTY AdoptingLeadsToConfirmation
PROPERTY SSHCommandsAreServed
