--------------------------- MODULE SubmitProducer ---------------------------
(***************************************************************************)
(* The submit producer, xgemail.sqs.message.producer.py: the script that   *)
(* Postfix's pipe(8) runs for a queue file to move it into AWS.  For each  *)
(* part of the recipients it stores MESSAGE and METADATA in S3 and sends   *)
(* one job to SQS; exit status 0 makes Postfix forget the mail and         *)
(* EX_TEMPFAIL makes it try again later, from the start, with nothing      *)
(* remembered but what is already in S3, in SQS and in the jilter's files. *)
(*                                                                         *)
(* One queue file is modelled: its queue_id is part of every S3 path and   *)
(* of the jilter's file names, so two queue files share no state.  Postfix *)
(* runs one process for each nexthop domain of the queue file (a           *)
(* "delivery"); these processes run concurrently.                          *)
(***************************************************************************)
EXTENDS Naturals, FiniteSets

CONSTANTS
    Delivery,        \* the nexthop domains of the queue file
    Recipient,       \* its envelope recipients
    rcptsOf,         \* rcptsOf[d]: the recipients Postfix passes for d
    Direction,       \* "INBOUND" (INTERNET, MF_INBOUND) or "OUTBOUND" (CUSTOMER, MF_OUTBOUND)
    Owner,           \* mailbox_id / userId values
    OwnerOf,         \* OwnerOf[r]: whose address r is; aliases share an owner
    PolicyId,        \* policy ids found in the policy bucket
    Sender,          \* the validated sender, key of an outbound accepted event
    JilterContexts,  \* what the jilter may have written: [events, policy]
    Rejections,      \* the sets of recipients it may have rejected
    MailInfoIsBig,   \* mail_info exceeds MSG_HISTORY_MAIL_INFO_MAX_BYTES_IN_MSG_CONTEXT
    UserSplit,       \* a split-by-recipient / ToC flag is on
    SqsBatchSize,    \* SQS_BATCH_SIZE
    MaxFaults,       \* bound: failures and timeouts in a behaviour
    MaxAttempts      \* bound: runs of the script before the queue lifetime ends

BaseKey == "00"
EventKey == Recipient \cup {Sender}
Key == Recipient \cup Owner \cup PolicyId \cup {BaseKey}
Path == [domain : Delivery, mailbox : Key]

\* What tells jobs apart, and the stamps on accepted events: the S3 path and the
\* attempt that wrote it.  (The split flows add a fresh UUID to the queue id.)
Stamp == [path : Path, attempt : Nat]
NoStamp == [path |-> [domain |-> "", mailbox |-> ""], attempt |-> 0]

\* How a job refers to its mail_info before it is serialised.
NoContext == "none"
InS3 == "mail_info_s3_path"

NoMetadata == [attempt |-> 0, rcpts |-> {}]
NoJob == [id |-> NoStamp, rcpts |-> {}, ctx |-> NoContext]
NoEvents == [k \in {} |-> NoStamp]

ASSUME DeliveryAssumption ==
    /\ rcptsOf \in [Delivery -> SUBSET Recipient]
    /\ \A d \in Delivery : rcptsOf[d] # {}
    /\ \A d \in Delivery, e \in Delivery : d # e => rcptsOf[d] \cap rcptsOf[e] = {}
    /\ Recipient = UNION {rcptsOf[d] : d \in Delivery}

ASSUME FiniteAssumption == IsFiniteSet(Recipient)

ASSUME DirectionAssumption == Direction \in {"INBOUND", "OUTBOUND"}

ASSUME OwnerAssumption == OwnerOf \in [Recipient -> Owner]

ASSUME JilterAssumption ==
    /\ \A c \in JilterContexts : c.events \subseteq EventKey /\ c.policy \subseteq Recipient
    /\ Rejections \subseteq SUBSET Recipient

ASSUME FlagAssumption == MailInfoIsBig \in BOOLEAN /\ UserSplit \in BOOLEAN

ASSUME BoundAssumption ==
    SqsBatchSize \in Nat \ {0} /\ MaxFaults \in Nat /\ MaxAttempts \in Nat

ASSUME SentinelAssumption == EventKey \cap {NoContext, InS3} = {}

VARIABLES
    \* Postfix, S3, SQS, the event processor and the jilter's files
    status,      \* status[d]: "queued", or what became of the delivery
    rejected,    \* the recipients named by <queue_id>.rejected
    jilter,      \* the contents of the jilter's context file <queue_id>
    fileExists,  \* that file is still there
    messages,    \* paths whose MESSAGE object is stored
    metadata,    \* metadata[p]: the METADATA object stored at path p
    mailInfo,    \* mailInfo[p]: the stamp in the MAIL_INFO object at path p
    sqs,         \* the jobs sent to the processing queue
    posted,      \* stamps of the accepted events sent to the event processor
    faults,      \* failures so far
    \* the process running for each delivery
    pc,          \* where it is
    attempt,     \* how many times it was started
    alarm,       \* SIGALRM: "armed", or "spent" when it went off or was disabled
    accepted,    \* metadata.recipients
    mh,          \* msghistory_events: mailbox -> the stamp on its mail_info
    policy,      \* the recipients the jilter context has policy attributes for
    todo,        \* the entries of policy_list / recipients not yet visited
    cur,         \* the job whose documents are being uploaded
    batch        \* sqs_message_json_queue

inputVars == <<rejected, jilter>>
s3Vars == <<messages, metadata, mailInfo>>
localVars == <<accepted, mh, policy, todo, cur, batch>>
vars == <<status, inputVars, fileExists, s3Vars, sqs, posted, faults, pc, attempt,
          alarm, localVars>>

-----------------------------------------------------------------------------
\* Faulty variants, named ...Fault, are the ways the code could plausibly be
\* wrong that the properties below must notice; nothing else uses them.

PathFault(d, key) == [domain |-> CHOOSE e \in Delivery : TRUE, mailbox |-> key]

\* get_s3_prefix_path: root, prefix and host are functions of the queue_id; the
\* path has no timestamp, so a retry writes where the attempt before it wrote.
PathOf(d, key) == [domain |-> d, mailbox |-> key]

\* An entry of policy_list, or one recipient of an outbound mail.
Part(key, rcpts) == [key |-> key, rcpts |-> rcpts]

GroupBy(f, R) == {Part(k, {r \in R : f[r] = k}) : k \in {f[r] : r \in R}}

BaseParts(R) == {Part(BaseKey, R)}

NestedListFault(R) ==
    {Part(o, {{r} : r \in {q \in R : OwnerOf[q] = o}}) : o \in {OwnerOf[r] : r \in R}}

AliasReplacedFault(R) ==
    {Part(o, {CHOOSE r \in R : OwnerOf[r] = o}) : o \in {OwnerOf[r] : r \in R}}

\* build_recipient_map_from_msghistory_enabled: by mailbox_id, aliases together.
MsgHistoryParts(R) == GroupBy(OwnerOf, R)

\* build_policy_map by policy id.  The policy bucket is edited while mail flows,
\* so each attempt may read another map.
PolicyParts(R) == {GroupBy(f, R) : f \in [R -> PolicyId]}

\* build_policy_map by user id: each recipient of a user replaces the one
\* before it (user_list[userId] = [recipient]).
UserParts(R) ==
    LET Owners == {OwnerOf[r] : r \in R}
        Picks == {f \in [Owners -> R] : \A o \in Owners : OwnerOf[f[o]] = o}
    IN  {{Part(o, {f[o]}) : o \in Owners} : f \in Picks}

\* multi_policy_flow reads the policy bucket when the accepted events are
\* missing or incomplete.
FallsBack(d) == Direction = "INBOUND" /\ ~(accepted[d] \subseteq DOMAIN mh[d])

\* split_by_recipient consults a policy only for two recipients or more.
ReadsSplitFlag(d) == FallsBack(d) /\ Cardinality(accepted[d]) > 1

\* The base flow is taken when the bucket has no policy for some recipient.
FallbackSplits(d) ==
    {BaseParts(accepted[d])} \cup PolicyParts(accepted[d])
    \cup (IF UserSplit /\ ReadsSplitFlag(d) THEN UserParts(accepted[d]) ELSE {})

\* outbound_split_by_recipients: one part, with its own path, per recipient.
OutboundParts(R) == {Part(r, {r}) : r \in R}

Splits(d) ==
    IF Direction = "OUTBOUND" THEN {OutboundParts(accepted[d])}
    ELSE IF FallsBack(d) THEN FallbackSplits(d)
    ELSE {MsgHistoryParts(accepted[d])}

StampAllFault(part) == EventKey

\* update_msghistory_event: whose mail_info receives the s3_resource_id and the
\* decorated_queue_id of a part.
StampedKeys(part) == IF Direction = "INBOUND" THEN part.rcpts ELSE {Sender}

StampOnceFault(events, part, stamp) ==
    [k \in DOMAIN events |->
        IF k \in StampedKeys(part) /\ events[k] = NoStamp THEN stamp ELSE events[k]]

StampEvents(events, part, stamp) ==
    [k \in DOMAIN events |-> IF k \in StampedKeys(part) THEN stamp ELSE events[k]]

ContextKeyFault(first) == Sender

\* Whose mail_info becomes the message context; first is recipients[0].
ContextKey(first) == IF Direction = "INBOUND" THEN first ELSE Sender

HasContextFault(d, first) == first \in DOMAIN mh[d]

HasContext(d, first) == ContextKey(first) \in DOMAIN mh[d]

\* prepare_message_context, after a MAIL_INFO upload that succeeded or not.
MessageContext(d, first, uploaded) ==
    CASE ~HasContext(d, first) -> NoContext
      [] HasContext(d, first) /\ ~MailInfoIsBig -> ContextKey(first)
      [] HasContext(d, first) /\ MailInfoIsBig -> IF uploaded THEN InS3 ELSE NoContext

PolicyCrashFault(d, part, first, ctx) == first \in policy[d]

\* update_policy_context calls update() on a message_context that is None.
PolicyNeedsContext(d, part, first, ctx) ==
    part.key # BaseKey /\ first \in policy[d] /\ ctx = NoContext

\* A job holds the mail_info dict itself, not a copy: json.dumps reads it when
\* the job is sent.
Serialised(d, job) ==
    LET inline == job.ctx \in DOMAIN mh[d]
    IN  [id |-> job.id,
         ctx |-> IF inline THEN "inline" ELSE job.ctx,
         info |-> IF inline THEN mh[d][job.ctx] ELSE NoStamp]

SingleFault(d) == Cardinality(accepted[d]) = 1

\* The envelope of the whole queue file, over all its deliveries.
EnvRecipientListIsSingle(d) == Cardinality(Recipient) = 1

-----------------------------------------------------------------------------
Init ==
    /\ status = [d \in Delivery |-> "queued"]
    /\ rejected \in Rejections
    /\ jilter \in JilterContexts
    /\ fileExists = (jilter.events # {} \/ jilter.policy # {})
    /\ messages = {}
    /\ metadata = [p \in Path |-> NoMetadata]
    /\ mailInfo = [p \in Path |-> NoStamp]
    /\ sqs = {}
    /\ posted = {}
    /\ faults = 0
    /\ pc = [d \in Delivery |-> "idle"]
    /\ attempt = [d \in Delivery |-> 0]
    /\ alarm = [d \in Delivery |-> "spent"]
    /\ accepted = [d \in Delivery |-> {}]
    /\ mh = [d \in Delivery |-> NoEvents]
    /\ policy = [d \in Delivery |-> {}]
    /\ todo = [d \in Delivery |-> {}]
    /\ cur = [d \in Delivery |-> NoJob]
    /\ batch = [d \in Delivery |-> {}]

Goto(d, label) == pc' = [pc EXCEPT ![d] = label]

\* The process is gone, with everything it knew; main disables the alarm.
EndProcess(d) ==
    /\ Goto(d, "idle")
    /\ alarm' = [alarm EXCEPT ![d] = "spent"]
    /\ accepted' = [accepted EXCEPT ![d] = {}]
    /\ mh' = [mh EXCEPT ![d] = NoEvents]
    /\ policy' = [policy EXCEPT ![d] = {}]
    /\ todo' = [todo EXCEPT ![d] = {}]
    /\ cur' = [cur EXCEPT ![d] = NoJob]
    /\ batch' = [batch EXCEPT ![d] = {}]

Fault == faults < MaxFaults /\ faults' = faults + 1

\* Postfix starts the script: get_metadata drops the recipients the jilter
\* rejected, main reads the jilter's context file.  Neither read stops the mail:
\* a failure reads as "nothing rejected" and as "no context".
Invoke(d) ==
    /\ pc[d] = "idle" /\ status[d] = "queued" /\ attempt[d] < MaxAttempts
    /\ attempt' = [attempt EXCEPT ![d] = @ + 1]
    /\ alarm' = [alarm EXCEPT ![d] = "armed"]
    /\ \E R \in {rcptsOf[d] \ rejected, rcptsOf[d]} :
        /\ accepted' = [accepted EXCEPT ![d] = R]
        /\ Goto(d, IF R = {} THEN "exit" ELSE "split")
    /\ \E readable \in {FALSE, fileExists} :
        /\ mh' = [mh EXCEPT ![d] =
                    [k \in (IF readable THEN jilter.events ELSE {}) |-> NoStamp]]
        /\ policy' = [policy EXCEPT ![d] = IF readable THEN jilter.policy ELSE {}]
    /\ UNCHANGED <<status, inputVars, fileExists, s3Vars, sqs, posted, faults,
                   todo, cur, batch>>

\* multi_policy_flow or outbound_split_by_recipients chooses the parts.
Split(d) ==
    /\ pc[d] = "split"
    /\ \E parts \in Splits(d) : todo' = [todo EXCEPT ![d] = parts]
    /\ Goto(d, "prepare")
    /\ UNCHANGED <<status, inputVars, fileExists, s3Vars, sqs, posted, faults,
                   attempt, alarm, accepted, mh, policy, cur, batch>>

\* The head of the loop over the parts: the accepted events get the part's path
\* and decorated queue id, a big mail_info goes to S3 (a failure is swallowed),
\* and the job is built.
Prepare(d, part, first, uploaded) ==
    LET id == [path |-> PathOf(d, part.key), attempt |-> attempt[d]]
        ctx == MessageContext(d, first, uploaded)
        events == StampEvents(mh[d], part, id)
    IN  /\ pc[d] = "prepare" /\ part \in todo[d] /\ first \in part.rcpts
        /\ ~PolicyNeedsContext(d, part, first, ctx)
        /\ mh' = [mh EXCEPT ![d] = events]
        /\ IF MailInfoIsBig /\ HasContext(d, first) /\ ~uploaded
           THEN Fault /\ UNCHANGED mailInfo
           ELSE /\ mailInfo' =
                     IF ctx = InS3
                     THEN [mailInfo EXCEPT ![id.path] = events[ContextKey(first)]]
                     ELSE mailInfo
                /\ UNCHANGED faults
        /\ todo' = [todo EXCEPT ![d] = @ \ {part}]
        /\ cur' = [cur EXCEPT ![d] = [id |-> id, rcpts |-> part.rcpts, ctx |-> ctx]]
        /\ Goto(d, "message")
        /\ UNCHANGED <<status, inputVars, fileExists, messages, metadata, sqs, posted,
                       attempt, alarm, accepted, policy, batch>>

\* The same head of the loop when the policy has no context to go into: the
\* AttributeError reaches main, which exits EX_TEMPFAIL.
PolicyCrash(d, part, first, uploaded) ==
    /\ pc[d] = "prepare" /\ part \in todo[d] /\ first \in part.rcpts
    /\ PolicyNeedsContext(d, part, first, MessageContext(d, first, uploaded))
    /\ IF MailInfoIsBig /\ HasContext(d, first) THEN Fault ELSE UNCHANGED faults
    /\ EndProcess(d)
    /\ UNCHANGED <<status, inputVars, fileExists, s3Vars, sqs, posted, attempt>>

StoreMessageFault(path) == messages' \in {messages, messages \cup {path}}

\* upload_message_to_s3: a failure is not swallowed, it is a TempFail.
StoreMessage(path) == messages' = messages \cup {path}

\* upload_documents: MESSAGE first ...
UploadMessage(d) ==
    /\ pc[d] = "message"
    /\ StoreMessage(cur[d].id.path)
    /\ Goto(d, "metadata")
    /\ UNCHANGED <<status, inputVars, fileExists, metadata, mailInfo, sqs, posted,
                   faults, attempt, alarm, localVars>>

NoRemainderFault(d, jobs) ==
    CASE Cardinality(jobs) = SqsBatchSize -> "publish"
      [] Cardinality(jobs) # SqsBatchSize /\ todo[d] # {} -> "prepare"
      [] OTHER -> "post"

\* The batch is sent when it is full and when the loop is over.
AfterUpload(d, jobs) ==
    IF Cardinality(jobs) = SqsBatchSize \/ todo[d] = {} THEN "publish" ELSE "prepare"

\* ... then METADATA, and the job joins the batch.
UploadMetadata(d) ==
    LET job == cur[d]
    IN  /\ pc[d] = "metadata"
        /\ metadata' = [metadata EXCEPT ![job.id.path] =
                          [attempt |-> job.id.attempt, rcpts |-> job.rcpts]]
        /\ batch' = [batch EXCEPT ![d] = @ \cup {job}]
        /\ cur' = [cur EXCEPT ![d] = NoJob]
        /\ Goto(d, AfterUpload(d, batch'[d]))
        /\ UNCHANGED <<status, inputVars, fileExists, messages, mailInfo, sqs, posted,
                       faults, attempt, alarm, accepted, mh, policy, todo>>

SendFault(job) == sqs' \in {sqs, sqs \cup {job}}

\* add_to_sqs: a failure is not swallowed, it is a TempFail.
Send(job) == sqs' = sqs \cup {job}

BatchKeptFault(d, job) == batch[d]

\* The list is emptied once its jobs are sent.
Unsent(d, job) == batch[d] \ {job}

\* publish_msg_processing_message, one job of the batch at a time.
Publish(d) ==
    /\ pc[d] = "publish"
    /\ \E job \in batch[d] :
        /\ Send(Serialised(d, job))
        /\ batch' = [batch EXCEPT ![d] = Unsent(d, job)]
        /\ Goto(d, IF batch[d] # {job} THEN "publish"
                   ELSE IF todo[d] # {} THEN "prepare" ELSE "post")
    /\ UNCHANGED <<status, inputVars, fileExists, s3Vars, posted, faults, attempt,
                   alarm, accepted, mh, policy, todo, cur>>

\* handle_msghistory_events posts the stamped events, once; a failure is logged.
PostEvents(d) ==
    LET stamps == {mh[d][k] : k \in DOMAIN mh[d]} \ {NoStamp}
    IN  /\ pc[d] = "post"
        /\ posted' \in {posted, posted \cup stamps}
        /\ Goto(d, IF mh[d] = NoEvents THEN "exit" ELSE "cleanup")
        /\ UNCHANGED <<status, inputVars, fileExists, s3Vars, sqs, faults, attempt,
                       alarm, localVars>>

\* delete_msghistory_events_file.
DeleteEventsFile(d) ==
    /\ pc[d] = "cleanup"
    /\ fileExists' \in IF EnvRecipientListIsSingle(d) THEN {FALSE, fileExists}
                                                      ELSE {fileExists}
    /\ Goto(d, "exit")
    /\ UNCHANGED <<status, inputVars, s3Vars, sqs, posted, faults, attempt, alarm,
                   localVars>>

\* main returns: status 0, and Postfix removes the delivery from its queue.
ExitOk(d) ==
    /\ pc[d] = "exit"
    /\ status' = [status EXCEPT ![d] = "sent"]
    /\ EndProcess(d)
    /\ UNCHANGED <<inputVars, fileExists, s3Vars, sqs, posted, faults, attempt>>

\* An AWS call fails, a sender cannot be validated, or the process is killed:
\* the delivery stays queued.
TempFail(d) ==
    /\ pc[d] # "idle"
    /\ Fault
    /\ EndProcess(d)
    /\ UNCHANGED <<status, inputVars, fileExists, s3Vars, sqs, posted, attempt>>

\* SIGALRM: signal_handler calls exit(EX_TEMPFAIL), which raises SystemExit.
\* The bare except of split_by_recipient catches it and the script goes on.
AlarmRings(d) ==
    /\ pc[d] # "idle" /\ alarm[d] = "armed"
    /\ Fault
    /\ \/ EndProcess(d)
       \/ /\ pc[d] = "split" /\ ReadsSplitFlag(d)
          /\ alarm' = [alarm EXCEPT ![d] = "spent"]
          /\ UNCHANGED <<pc, localVars>>
    /\ UNCHANGED <<status, inputVars, fileExists, s3Vars, sqs, posted, attempt>>

\* The interpreter dies before main, where AwsHandler is created: its exit
\* status 1 is not a sysexits code, and pipe(8) bounces the mail.
StartupBounce(d) ==
    /\ pc[d] = "idle" /\ status[d] = "queued"
    /\ Fault
    /\ status' = [status EXCEPT ![d] = "bounced"]
    /\ UNCHANGED <<inputVars, fileExists, s3Vars, sqs, posted, pc, attempt, alarm,
                   localVars>>

\* Postfix's maximal_queue_lifetime is over.
Expire(d) ==
    /\ pc[d] = "idle" /\ status[d] = "queued" /\ attempt[d] = MaxAttempts
    /\ status' = [status EXCEPT ![d] = "expired"]
    /\ UNCHANGED <<inputVars, fileExists, s3Vars, sqs, posted, faults, pc, attempt,
                   alarm, localVars>>

VisitPart(d) ==
    \E part \in todo[d] : \E first \in part.rcpts, uploaded \in BOOLEAN :
        Prepare(d, part, first, uploaded) \/ PolicyCrash(d, part, first, uploaded)

Step(d) ==
    \/ Invoke(d) \/ Split(d) \/ VisitPart(d) \/ UploadMessage(d) \/ UploadMetadata(d)
    \/ Publish(d) \/ PostEvents(d) \/ DeleteEventsFile(d) \/ ExitOk(d)

Finished == \A d \in Delivery : status[d] # "queued"

Next ==
    \/ \E d \in Delivery :
        Step(d) \/ TempFail(d) \/ AlarmRings(d) \/ StartupBounce(d) \/ Expire(d)
    \/ Finished /\ UNCHANGED vars

Spec == Init /\ [][Next]_vars

\* Postfix keeps retrying what it holds, and every call the script makes
\* returns or raises: it makes progress until it exits.
Fairness == \A d \in Delivery : WF_vars(Step(d)) /\ WF_vars(Expire(d))

FairSpec == Spec /\ Fairness

-----------------------------------------------------------------------------
(***************************************************************************)
(* Properties.                                                             *)
(***************************************************************************)
Job == [id : Stamp, rcpts : SUBSET Recipient, ctx : EventKey \cup {NoContext, InS3}]
SentJob == [id : Stamp, ctx : {"inline", NoContext, InS3}, info : Stamp \cup {NoStamp}]
IsEvents(f) == DOMAIN f \subseteq EventKey /\ f \in [DOMAIN f -> Stamp \cup {NoStamp}]
Label == {"idle", "split", "prepare", "message", "metadata", "publish", "post",
          "cleanup", "exit"}

\* Type invariant: every variable holds the kind of value the code gives it.
TypeOK ==
    /\ status \in [Delivery -> {"queued", "sent", "bounced", "expired"}]
    /\ rejected \in Rejections
    /\ jilter \in JilterContexts
    /\ fileExists \in BOOLEAN
    /\ messages \subseteq Path
    /\ metadata \in [Path -> [attempt : Nat, rcpts : SUBSET Recipient]]
    /\ mailInfo \in [Path -> Stamp \cup {NoStamp}]
    /\ sqs \subseteq SentJob
    /\ posted \subseteq Stamp
    /\ faults \in 0..MaxFaults
    /\ pc \in [Delivery -> Label]
    /\ attempt \in [Delivery -> 0..MaxAttempts]
    /\ alarm \in [Delivery -> {"armed", "spent"}]
    /\ accepted \in [Delivery -> SUBSET Recipient]
    /\ mh = [d \in Delivery |-> mh[d]]
    /\ \A d \in Delivery : IsEvents(mh[d])
    /\ policy \in [Delivery -> SUBSET Recipient]
    /\ todo \in [Delivery -> SUBSET [key : Key, rcpts : SUBSET Recipient]]
    /\ cur \in [Delivery -> Job \cup {NoJob}]
    /\ batch \in [Delivery -> SUBSET Job]

\* A job in the queue always leads to its mail: MESSAGE and METADATA are stored
\* under its path, by the attempt that sent the job or by a later one.
\* (upload_documents precedes the append to sqs_message_json_queue.)
JobDocumentsStored ==
    \A job \in sqs :
        /\ job.id.path \in messages
        /\ metadata[job.id.path].attempt >= job.id.attempt

\* The recipients whom a job in the queue leads to.
Handed ==
    {r \in Recipient : \E job \in sqs :
        job.id.path \in messages /\ r \in metadata[job.id.path].rcpts}

\* Under a user split one address stands for all the addresses of its user.
StandIns(d, r) ==
    {q \in rcptsOf[d] : q = r \/ (UserSplit /\ OwnerOf[q] = OwnerOf[r])}

Served(d, r) == StandIns(d, r) \cap Handed # {}

\* No mail is lost: when exit status 0 has made Postfix forget a delivery, each
\* of its recipients that the jilter did not reject is handed over, whatever was
\* retried, regrouped or overwritten before, and stays so.
SentMailIsHandedOver ==
    \A d \in Delivery : status[d] = "sent" =>
        \A r \in rcptsOf[d] \ rejected : Served(d, r)

\* Each recipient is in the list of its policy or user: "a map with <policy_id> as
\* key and a list of recipient emails that belong to that policy as values".
SentToEveryRecipient ==
    \A d \in Delivery : status[d] = "sent" => rcptsOf[d] \ rejected \subseteq Handed

\* One attempt sends a job once: what waits in sqs_message_json_queue was not
\* sent before.  (The list is emptied after every batch of SQS_BATCH_SIZE.)
NoJobSentTwice ==
    \A d \in Delivery : \A job \in batch[d], s \in sqs : s.id # job.id

\* The message history never names mail that no job will deliver: each posted
\* accepted event carries the s3_resource_id and decorated_queue_id of a sent job.
PostedEventHasJob == \A stamp \in posted : \E job \in sqs : job.id = stamp

\* The context a consumer of the job finds.
ContextStamp(job) ==
    IF job.ctx = InS3 THEN mailInfo[job.id.path] ELSE job.info

\* The message context of a job carries the job's own s3_resource_id.
ContextNamesItsJob ==
    \A job \in sqs : job.ctx # NoContext => ContextStamp(job).path = job.id.path

\* A context sent within the job also carries the job's own decorated_queue_id.
InlineContextNamesItsJob ==
    \A job \in sqs : job.ctx = "inline" => job.info = job.id

\* The jilter's context file is deleted only when no other delivery of the queue
\* file can still read it.
DeletesOnlyUnneededFile ==
    [][fileExists /\ ~fileExists' =>
        \A d \in Delivery : status[d] = "queued" => pc[d] = "cleanup"]_vars

\* "A timed out process will return the proper EX_TEMPFAIL back to Postfix."
AlarmEndsProcess ==
    [][\A d \in Delivery :
        alarm[d] = "armed" /\ alarm'[d] = "spent" => pc'[d] = "idle"]_vars

\* Recipients with policy attributes in the jilter context but no accepted event.
Orphans(c) ==
    IF Direction = "INBOUND" THEN c.policy \ c.events
    ELSE IF Sender \in c.events THEN {} ELSE c.policy

\* A mail is retried until its queue lifetime ends only when the jilter wrote a
\* policy and no accepted event for one of its recipients.
OnlyOrphanPolicyExpires ==
    \A d \in Delivery : status[d] = "expired" => Orphans(jilter) \cap rcptsOf[d] # {}

\* Every delivery without such a recipient is handed over in the end, unless
\* the script failed to start and Postfix bounced the mail: failures, timeouts
\* and killed processes only cost retries.
EventuallySent ==
    \A d \in Delivery :
        Orphans(jilter) \cap rcptsOf[d] = {} => <>(status[d] \in {"sent", "bounced"})

\* The producer implements the hand-over promised by SubmitHandoff.
Handoff ==
    INSTANCE SubmitHandoff
    WITH handed <- Handed,
         standIns <- [d \in Delivery |-> [r \in rcptsOf[d] |-> StandIns(d, r)]]
ImplementsHandoff == Handoff!Spec
=============================================================================
