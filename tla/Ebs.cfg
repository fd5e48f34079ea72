CONSTANTS
    Host = {h1, h2, h3}
    Volume = {v1, v2, v3}
    None = None
    MaxRetries = 1
    MaxFaults = 2
SPECIFICATION Spec
SYMMETRY Symmetry
INVARIANTS TypeOK MailIsRecorded RecordedIsFormatted OrphansAreFew
PROPERTIES NeverFormatsMail
CHECK_DEADLOCK FALSE
