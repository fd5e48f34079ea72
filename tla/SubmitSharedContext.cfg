\* As SubmitOutbound with the mail_info inside the jobs.
CONSTANTS
    d1 = d1  d2 = d2  r1 = r1  r2 = r2  r3 = r3
    o1 = o1  o2 = o2  p1 = p1  p2 = p2
    Delivery = {d1}
    Recipient = {r1, r2, r3}
    rcptsOf <- OneDelivery
    Direction = "OUTBOUND"
    Owner = {o1, o2}
    OwnerOf <- OwnersAlias
    PolicyId = {p1, p2}
    Sender = sender
    JilterContexts <- OutboundContexts
    Rejections <- NoneOrR2
    MailInfoIsBig = FALSE
    UserSplit = FALSE
    SqsBatchSize = 2
    MaxFaults = 2
    MaxAttempts = 3
SPECIFICATION Spec
INVARIANTS ContextNamesItsJob
