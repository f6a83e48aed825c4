CONSTANTS
    VotePeriods <- mcVotePeriods
    MaxHeight = 18
    MaxFaults = 4
SPECIFICATION Spec
PROPERTIES OneMissedReveal
CHECK_DEADLOCK FALSE
