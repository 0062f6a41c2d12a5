SPECIFICATION SchedulerSpec
CONSTANTS
    main = main
    handler1 = handler1
    handler2 = handler2
    soon = soon
    later = later
    Owners = {main}
    Changers = {handler1, handler2}
    Dues = {soon, later}
    NoDue = NoDue
    Thrown = Thrown
    MaxStarts = 2
INVARIANTS
    OneWorkerAtATime
    NeverSleepsOnStaleDelay
PROPERTIES
    DueReachesCycle
    WakeReachesCycle
    StopReturns
