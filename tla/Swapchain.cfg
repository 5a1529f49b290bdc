\* Two records queued at once let rendering wait behind a timeline value while
\* a second image is acquired; two polls reach every outcome of the drain.
SPECIFICATION FairSpec
CONSTANTS
    Semaphores = {rendered}
    Fences = {taken}
    Submissions <- MCSubmissions
    MaxQueued = 2
    MaxPolls = 2
    MaxToken = 3
INVARIANTS
    DisplayedIsUntouched
PROPERTIES
    ConsumedMeansShown
    DrainEnds
