\* A queue, FIFO or not, of two messages, and two replicas that are shut down and crash.
CONSTANTS
    appA = appA  appB = appB  l1 = l1  l2 = l2
    Limit = 2
    Orders = {TRUE, FALSE}
    Apps = {appA, appB}
    Loops = {l1, l2}
    AppOf <- MCAppOf
    Destroys = TRUE
    Crashes = TRUE
SPECIFICATION FairSpec
INVARIANTS LateAtMostOne
PROPERTIES ImplementsAtLeastOnce Drains Delivered
CHECK_DEADLOCK FALSE
