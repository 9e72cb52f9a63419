SPECIFICATION Spec
CONSTANTS
    Gpus = {1, 2, 3}
    Machines <- AllMachines
    Groups <- AllGroups
INVARIANT UnmatchedIsNotMissing
