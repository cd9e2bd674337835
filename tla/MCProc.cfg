\* Three slots on two CPUs; 0 is the pid of a slot that was never used, the
\* device 9 (a pipe, the console) may never wake its sleepers.
SPECIFICATION LiveSpec
CONSTANTS
    c1 = c1
    c2 = c2
    NPROC = 3
    CPU = {c1, c2}
    Devices = {9}
    Targets = {0, 2}
    MaxPid = 3
CHECK_DEADLOCK FALSE
PROPERTIES KeepsGoing KilledExits
INVARIANTS OneCpuEach SomeoneReaps WaiterNotStranded
