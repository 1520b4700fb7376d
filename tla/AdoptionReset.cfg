\* One SSH session resets the stub while an inform exchange is under way.
CONSTANTS
  RawKey = {}
  HexKey = {"k1hex"}
  BadKey = {}
  KeyBytes <- MCKeyBytes
  DefaultBytes = "default"
  Url = {"u1"}
  BadUrl = {}
  CfgVersion = {}
  ControlCfg = {}
  Version = {}
  Controller = "u1"
  NoFile = NoFile
  Session = {s1}
  NoSession = NoSession
  InitialDisk <- NoneOrInvalid
  s1 = s1
  s2 = s2
SPECIFICATION Spec
PROPERTY NextInformIsFactoryAfterReset
