SPECIFICATION Spec
CONSTANTS
    Hosts = {"k3s", "switch"}
    DefaultHost = "k3s"
    MaxClients = 1
    Ports = {q1, q2}
    MaxProcs = 2
    SshUser = "sudoer"
INVARIANT TrueMeansForwarded
CHECK_DEADLOCK FALSE
