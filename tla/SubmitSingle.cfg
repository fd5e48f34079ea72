\* One recipient: the context file is deleted, and a retry runs without it.
CONSTANTS
    d1 = d1  d2 = d2  r1 = r1  r2 = r2  r3 = r3
    o1 = o1  o2 = o2  p1 = p1  p2 = p2
    Delivery = {d1}
    Recipient = {r1}
    rcptsOf <- SingleRecipient
    Direction = "INBOUND"
    Owner = {o1}
    OwnerOf <- OwnerSingle
    PolicyId = {p1, p2}
    Sender = sender
    JilterContexts <- SingleContexts
    Rejections <- NoneOrR1
    MailInfoIsBig = FALSE
    UserSplit = FALSE
    SqsBatchSize = 2
    MaxFaults = 3
    MaxAttempts = 4
SPECIFICATION FairSpec
INVARIANTS OnlyOrphanPolicyExpires
PROPERTIES EventuallySent
