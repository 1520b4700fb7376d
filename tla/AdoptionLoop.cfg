\* The daemon alone (no SSH server): rich replies.
CONSTANTS
  RawKey = {"k1raw"}
  HexKey = {"k1hex", "k2hex", "defhex"}
  BadKey = {"bad"}
  KeyBytes <- MCKeyBytes
  DefaultBytes = "default"
  Url = {"u0", "u1", "ubad"}
  BadUrl = {"ubad"}
  CfgVersion = {"c1", "ctl"}
  ControlCfg = {"ctl"}
  Version = {"v0"}
  Controller = "u0"
  NoFile = NoFile
  Session = {}
  NoSession = NoSession
  InitialDisk <- FilesFound
  s1 = s1
  s2 = s2
SPECIFICATION Spec
INVARIANT ManagedIsConfirmed
 
