SPECIFICATION Spec
CONSTANTS
  MaxThreads = 2
  MaxTasks = 1
  LongTasks = {}
  THREAD_NUM_MIN = 2
  THREAD_NUM_MAX = 3
  THREAD_IDLE_MAX = 0
  THREAD_INTERVAL_CREATE = 1
  THREAD_INTERVAL_DESTROY = 2
  THREAD_INTERVAL_COND_SIGNAL = 2
  THREAD_QUIT_WAITTIME_MAX = 1
  MayDelete = TRUE
  CreateMayFail = FALSE
  SpuriousWakeups = FALSE
PROPERTY JoinsOnlyCanceled
