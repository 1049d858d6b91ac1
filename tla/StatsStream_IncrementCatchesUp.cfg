CONSTANTS
    m1 = m1
    m2 = m2
    part = part
    alarm = alarm
    axis = axis
    estop = estop
    exec = exec
    Machines = {m1, m2}
    Items = {part, alarm, axis, exec}
    MachineOf <- ItemsMachine
    Kind <- ItemsKind
    SectionOf <- ItemsSection
    Values = {0, 1}
    Unavailable = 1
    Unseen = unseen
    BufferSize = 2
    SampleCount = 2
    MaxSeq = 3
    MaxInstance = 2

SPECIFICATION Spec
PROPERTY IncrementCatchesUp
