\* Three GPUs, their wirings, and up to two link ends NVML does not tell.
SPECIFICATION Spec
CONSTANTS
    Gpus = {1, 2, 3}
    Machines <- AllMachines
    Groups <- AllGroups
INVARIANTS RefusalIsFounded PassIsFounded
