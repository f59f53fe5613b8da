SPECIFICATION FairSpec
CONSTANTS
  MaxThreads = 4
  MaxTasks = 2
  LongTasks = {2}
  THREAD_NUM_MIN = 1
  THREAD_NUM_MAX = 2
  THREAD_IDLE_MAX = 0
  THREAD_INTERVAL_CREATE = 1
  THREAD_INTERVAL_DESTROY = 2
  THREAD_INTERVAL_COND_SIGNAL = 2
  THREAD_QUIT_WAITTIME_MAX = 1
  MayDelete = TRUE
  CreateMayFail = TRUE
  SpuriousWakeups = TRUE
INVARIANTS
  MutexHolder TaskCount ThreadMutexReleased WithinMax SafeUntilHalt
PROPERTIES
  ImplementsTaskPool HaltEnds
