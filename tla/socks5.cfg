SPECIFICATION Socks5Spec
CONSTANTS
    Ports <- SmallPorts
    Hosts <- SmallHosts
    Local <- SmallLocal
    MaxDatagrams = 3
INVARIANT RelayedRight
PROPERTY Released
CHECK_DEADLOCK FALSE
