SPECIFICATION Spec
CONSTANTS
  eth0 = eth0
  wlan0 = wlan0
  eth0_1 = eth0_1
  Ifaces <- FewIfaces
  Aliases <- OneAlias
  AliasOf <- ThatAlias
  Ports <- FewPorts
  TableSize = 1
  Width = 12
  Narrow = 3
  Slack = 2
  Totals = {3, 9}
  Registers = {0, 2, 5, 6, 9, 12}
  MaxRows = 4
  MaxTicks = 1
  MaxTraffic = 13
  MaxWork = 1
INVARIANTS RateIsTraffic RamCoversTotal CpuShares ExitHasCause
PROPERTIES ListenSpec ProbesEnd
