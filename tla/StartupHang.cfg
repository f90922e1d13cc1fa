SPECIFICATION StartupFairSpec
CONSTANTS
    Main = main
    ServiceMayHang = TRUE
INVARIANT InitializedOnce
PROPERTY AppStarts
CHECK_DEADLOCK FALSE
