\* Two tasks on one handle and one thread; a third on a thread and handle of its own.
CONSTANTS
    None = None
    t1 = t1  t2 = t2  t3 = t3
    h1 = h1  h2 = h2
    Task = {t1, t2, t3}
    Handle = {h1, h2}
    HandleOf <- MCHandleOf
    Operations <- MixedOperations
    Preemptive = {t3}
SPECIFICATION Spec
INVARIANTS TypeOK ConfirmedSurvive InFlightCoherent
PROPERTY WritesReplaceWhatWasRead
