\* One thread and no crash: the verdict of inject_email.
CONSTANTS
    m1 = m1  m2 = m2
    Thread = {t1}
    Msg = {m1, m2}
    MailKinds <- Kinds2
    MaxNumberOfMessages = 2
    MaxReceives = 2
    MaxFaults = 1
    MaxCrashes = 0
SPECIFICATION Spec
PROPERTIES InjectReturnsVerdict
