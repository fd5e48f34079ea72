\* Two domains of one inbound queue file, concurrently, with a retry.
CONSTANTS
    d1 = d1  d2 = d2  r1 = r1  r2 = r2  r3 = r3
    o1 = o1  o2 = o2  p1 = p1  p2 = p2
    Delivery = {d1, d2}
    Recipient = {r1, r2, r3}
    rcptsOf <- TwoDomains
    Direction = "INBOUND"
    Owner = {o1, o2}
    OwnerOf <- OwnersAlias
    PolicyId = {p1, p2}
    Sender = sender
    JilterContexts <- InboundContexts
    Rejections <- NoneOrR2
    MailInfoIsBig = FALSE
    UserSplit = FALSE
    SqsBatchSize = 2
    MaxFaults = 1
    MaxAttempts = 2
SPECIFICATION Spec
INVARIANTS TypeOK JobDocumentsStored SentMailIsHandedOver NoJobSentTwice PostedEventHasJob InlineContextNamesItsJob
PROPERTIES DeletesOnlyUnneededFile ImplementsHandoff
