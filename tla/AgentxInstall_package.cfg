SPECIFICATION Spec
CONSTANTS
 Refs = {"r1","r2"}
 MaxProcesses = 3
INVARIANTS InstalledHasPackage
CHECK_DEADLOCK FALSE
