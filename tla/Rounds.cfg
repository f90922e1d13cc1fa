\* Three operations; a coordinator with a timer, or three rounds without one.
SPECIFICATION FairSpec
CONSTANTS
    Operations = {o1, o2, o3}
    Owner = main
    MaxRounds = 3
INVARIANTS OneReport AllDoneMeansDone NoStaleReport
PROPERTY RoundIsReported
CHECK_DEADLOCK FALSE
