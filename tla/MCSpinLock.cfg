SPECIFICATION FairSpec
CONSTANTS
  Files = {"spinlock.hpp", "spinlock_2.hpp"}
  t1 = t1  t2 = t2  t3 = t3  t4 = t4
  Threads = {t1, t2, t3, t4}
PROPERTIES RefinesMutex SomebodyEnters
