SPECIFICATION Spec
CONSTANTS
    Hosts = {"k3s", "switch"}
    DefaultHost = "k3s"
    MaxClients = 3
    Ports = {q1, q2}
    MaxProcs = 2
    SshUser = "sudoer"
INVARIANTS TypeOK NoForgottenKubectl TunnelsShareConnection
CHECK_DEADLOCK FALSE
SYMMETRY PortSymmetry
