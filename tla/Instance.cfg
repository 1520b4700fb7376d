\* Two processes in every combination of modes, two host keys.
CONSTANTS
  Proc = {p1, p2}
  NoProc = NoProc
  Key = {k1, k2, k3}
  NoKey = NoKey
  TornKey = TornKey
SPECIFICATION Spec
INVARIANTS TypeOK OneGuardedInstance MetadataNamesHolder ListenerGoneBeforeGuard HostKeyIsStable
PROPERTY WriterIsGuarded
