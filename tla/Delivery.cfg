\* Two threads, two jobs, batches of two.
CONSTANTS
    m1 = m1  m2 = m2
    Thread = {t1, t2}
    Msg = {m1, m2}
    MailKinds <- Kinds2
    MaxNumberOfMessages = 2
    MaxReceives = 2
    MaxFaults = 1
    MaxCrashes = 1
SPECIFICATION FairSpec
INVARIANTS TypeOK DeletedWasInjected OneCopyPerReceive OrphansAreFew UntriedDeadNeedsPoison
PROPERTIES GoodMailInjected EverySettled ImplementsTransfer
