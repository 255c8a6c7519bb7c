CONSTANTS
  Texts <- SomeTexts
  DefaultServer = "api.nodecast.net"
  Ports <- SomePorts
  Rates = {5, 10}

SPECIFICATION Spec

INVARIANT NoWildTimer
