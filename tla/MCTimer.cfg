CONSTANTS
  MAX_TASKS = 3
  TASK_QUANTUM = 2
  Stacks = {s1, s2}
  BootStack = boot
  NoStack = null
  CounterMod = 1
  WORD = 12
  TIMER_HZ = 3
  SECOND = 4
  Durations = {1, 3, 5}
SPECIFICATION SpecTimer
INVARIANTS
  TypeOK
  RunsOnLiveStack
  ReadyIsResumable
  StacksOwnedOnce
  BoundedWait
  TicksKeepComing
PROPERTIES
  DeadStaysDead
  FullQuantum
  ReadyTaskRuns
  DeadTaskReaped
  SleepReturns
  SleepOnTime
