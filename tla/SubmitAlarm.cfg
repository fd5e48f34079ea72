\* SIGALRM at every point of the script.
CONSTANTS
    d1 = d1  d2 = d2  r1 = r1  r2 = r2  r3 = r3
    o1 = o1  o2 = o2  p1 = p1  p2 = p2
    Delivery = {d1}
    Recipient = {r1, r2, r3}
    rcptsOf <- OneDelivery
    Direction = "INBOUND"
    Owner = {o1, o2}
    OwnerOf <- OwnersAlias
    PolicyId = {p1, p2}
    Sender = sender
    JilterContexts <- NoFileOnly
    Rejections <- NoneOrR2
    MailInfoIsBig = FALSE
    UserSplit = TRUE
    SqsBatchSize = 10
    MaxFaults = 1
    MaxAttempts = 2
SPECIFICATION Spec
PROPERTIES AlarmEndsProcess
