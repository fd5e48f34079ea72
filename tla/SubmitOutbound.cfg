\* One outbound mail to three recipients, mail_info kept in S3, a full batch and a rest.
CONSTANTS
    d1 = d1  d2 = d2  r1 = r1  r2 = r2  r3 = r3
    o1 = o1  o2 = o2  p1 = p1  p2 = p2
    Delivery = {d1}
    Recipient = {r1, r2, r3}
    rcptsOf <- OneDelivery
    Direction = "OUTBOUND"
    Owner = {o1, o2}
    OwnerOf <- OwnersAlias
    PolicyId = {p1, p2}
    Sender = sender
    JilterContexts <- OutboundContexts
    Rejections <- NoneOrR2
    MailInfoIsBig = TRUE
    UserSplit = FALSE
    SqsBatchSize = 2
    MaxFaults = 2
    MaxAttempts = 3
SPECIFICATION FairSpec
INVARIANTS SentMailIsHandedOver ContextNamesItsJob
PROPERTIES EventuallySent
