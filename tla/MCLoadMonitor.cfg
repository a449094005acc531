\* One job, durations on both sides of the 2 ms jitter threshold, and clock
\* jumps both within and beyond the 8 second decay window.
CONSTANTS
    Events <- MCEvents
    Durations = {0, 1, 3}
    Targets = {0, 2}
    MaxTime = 10
    MaxGap = 9
    MaxSamples = 3
    MaxMs = 4
    None = None
SPECIFICATION Spec
INVARIANTS
    FreshSampleInPeak
