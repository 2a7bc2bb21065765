CONSTANTS
    Amount = 2
SPECIFICATION FairSpec
INVARIANTS TypeOK HandlersGoOn NothingStranded FillsCountOnce EventsInOrder TrackedUntilFinished
           FillsNeverPanic
PROPERTIES StatusGoesForward CreateOrderReturns MailIsNotLost
CHECK_DEADLOCK FALSE
