\* Three concurrent calls, three contents.
CONSTANTS
  Writer = {w1, w2, w3}
  Content = {a, b, c}
  Torn = Torn
SPECIFICATION Spec
INVARIANT AcknowledgedIsDurable
PROPERTY ImplementsRegister
