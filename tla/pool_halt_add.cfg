SPECIFICATION Spec
CONSTANTS
  MaxThreads = 2
  MaxTasks = 2
  LongTasks = {}
  THREAD_NUM_MIN = 1
  THREAD_NUM_MAX = 2
  THREAD_IDLE_MAX = 0
  THREAD_INTERVAL_CREATE = 1
  THREAD_INTERVAL_DESTROY = 2
  THREAD_INTERVAL_COND_SIGNAL = 2
  THREAD_QUIT_WAITTIME_MAX = 1
  MayDelete = TRUE
  CreateMayFail = FALSE
  SpuriousWakeups = FALSE
INVARIANT NoTaskAfterHalt
