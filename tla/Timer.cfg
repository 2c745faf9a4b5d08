\* Loading and removing the module, on one processor and on several.
CONSTANT TIMER_MS = 4
SPECIFICATION TimerSpec
INVARIANTS TimerTypeOK OnlyARaceCrashes
PROPERTIES APeriodApart KeepsFiring
