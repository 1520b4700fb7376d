\* The daemon and two SSH sessions on small data: two keys, one URL and
\* no configured fallback.
CONSTANTS
  RawKey = {}
  HexKey = {"k1hex", "k2hex"}
  BadKey = {}
  KeyBytes <- MCKeyBytes
  DefaultBytes = "default"
  Url = {"u1"}
  BadUrl = {}
  CfgVersion = {}
  ControlCfg = {}
  Version = {}
  Controller = ""
  NoFile = NoFile
  Session = {s1, s2}
  NoSession = NoSession
  InitialDisk <- NoneOrInvalid
  s1 = s1
  s2 = s2
SPECIFICATION Spec
SYMMETRY SessionSymmetry
INVARIANTS TypeOK CopiesAreCurrent
PROPERTIES ForgetsOnlyInResetOrRace
