SPECIFICATION NavigationSpec
CONSTANT LastEntry = 2
INVARIANT StaleUrlNotFound
CHECK_DEADLOCK FALSE
