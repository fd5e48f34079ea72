# TLA+ models of xgemail-infrastructure

This directory is a verification project for Sophos xgemail as it is installed by
this repository: the path of a mail through the submit and delivery hosts, and the
life of a delivery host around it (its volume, its address, its replacement and its
end). TLA+ modules are translated from the Python scripts, TLC runs model-check them
on small instances, and TLAPS proofs establish their safety properties for every
value of the constants.

Short names used below: `producer` is
`cookbooks/sophos-cloud-xgemail/templates/default/xgemail.sqs.message.producer.py.erb`,
`consumer` is `xgemail.sqs.message.consumer.py.erb` beside it, `awshandler` is
`awshandler.py.erb` beside them; `messagehistory`, `multipolicyreaderutils`,
`formatterutils` and `metadata` are modules of
`cookbooks/sophos-cloud-xgemail/files/default/`; `terminator` is
`instance-terminator.py.erb` beside the producer, `eip` is
`lambda/xgemail_eip_rotation.py` (its SSM documents are in
`terraform/fsc/ssm_documents/`), `ssm.tf` is the SSM automation in
`terraform/fsc/termination_automation/`, `ebs` is
`cookbooks/sophos-cloud-mount/files/default/manage-ebs-volumes.py`, `cycle` is
`jenkins/xdelivery-instances-cycle.py`.

## 1. The system

Mail enters through a *submit* host and leaves through a *delivery* host; in
between, documents are in S3 and jobs are in SQS.

    sender -> Postfix (submit) -> jilter -> queue file
           -> pipe(8): producer -> S3 MESSAGE + METADATA, SQS job
           -> [mail processors, not in this repository]
           -> SNS/SQS -> consumer threads -> Postfix (delivery) -> recipient

A delivery host comes and goes around that path. At launch `ebs` gives it the volume
with the Postfix queue of its predecessor and `eip` an address; while it serves, `eip`
exchanges the address for a cleaner one; after a deployment `cycle` replaces the hosts
group by group; and before a host ends, `terminator` drains its queue or copies it to
EFS and tells the SSM automation whether the volume may be deleted.

### Inventory

| Component | State it keeps | Operations | Interacts with | Correct when |
|---|---|---|---|---|
| Submit producer (`producer`, `messagehistory`, `multipolicyreaderutils`) | nothing of its own between runs; S3 objects at paths computed from queue id, mailbox and domain, SQS jobs, the jilter's context and rejected files | one process per (queue file, nexthop): read recipients and context, split, upload, publish in batches, post events, delete the context file, exit status | Postfix by exit status, the jilter by files, S3, SQS, the event processor by HTTP, itself by concurrent processes and retries | exit status 0 means handed over; every job leads to documents; contexts and events name the right job |
| Delivery consumer (`consumer`, `awshandler`) | per thread: a received batch and the current job; a mail info file per injection | receive, download, write mail info, inject, delete | SQS by receipts and timers, S3, local Postfix by SMTP | deleted only after injected; duplicates only after failures; every job settles |
| Policy grouping (`multipolicyreaderutils`) | none | group recipients by policy or user | S3 policy bucket | every recipient is in a group |
| Instance terminator (`terminator`) | queue count, counts of the copy, number of heartbeats, exit status | count, drain, heartbeat, copy to EFS and verify, purge, stop Postfix | Postfix queue directories that change meanwhile, autoscaling hook, SSM automation by exit status | no mail is purged or deleted with its volume that was not copied |
| EIP rotation (`eip`, `xgemail_multi_eip_rotation.py`) | per invocation: host, old and new address; in EC2 the associations | initial, single and scheduled rotation | EC2, SSM commands (stop, start, hostname), launch hooks, itself by concurrent invocations | a serving host has an address, its name and a running Postfix |
| EBS volumes (`ebs`) | per attempt: volume set; SimpleDB record, attachments, LVM | fetch or create, attach, make or find a file system, mount, store | EC2, LVM, SimpleDB, Chef retries, the host it replaces | the record leads the next host to the mail; mail is never formatted |
| Instance cycling (`cycle`) | termination queue, current chunk | list, terminate in chunks, find the new hosts, three waiters | autoscaling, EC2, ELB | at most `--term` hosts down; reports success only when all are in service |
| Policy poller, bouncer, encryption producer, updaters, CLIs, lambdas | files or one message | see `PROJECT.json` | SQS, S3 | not modelled, reasons in `PROJECT.json` |

What is hard to test here, line by line, is the `hazards` list of `PROJECT.json`.
In short: retries that start from the beginning on top of what an earlier
attempt left in S3 and SQS; concurrent processes for the domains of one queue
file that share the jilter's file; batches at their boundary; policies edited
between attempts; a SIGALRM anywhere; objects aliased into jobs and changed
before they are serialised; visibility timeouts in the middle of a batch; an
exception that abandons a batch; a crash between injection and deletion; a queue that
changes while it is counted and copied directory by directory; rotations that run into
each other, and SSM commands that run after they were given up on; an install that
fails after any line and is retried, or skipped, by Chef, while the host it replaces
still runs; waiters that give up.

## 2. Modules

| Module | What it is |
|---|---|
| `SubmitHandoff` | abstract: what a submit host promises about one queue file |
| `SubmitProducer` | the producer with Postfix, the jilter's files, S3 and SQS |
| `MCSubmitProducer` + six `.cfg` | small instances for TLC |
| `SubmitProducerProofs` | `SubmitProducer`: types, documents, nothing sent twice, nothing lost |
| `SubmitHandoffProofs` | `SubmitProducer`: events, contexts, retries, and that it implements `SubmitHandoff` |
| `SubmitWorkProofs` | `SubmitProducer`: batch limit, no dead end, the length of a run |
| `MailTransfer` | abstract: at-least-once transfer from a queue into a mail server |
| `DeliveryConsumer` | the consumer threads with SQS and the local Postfix |
| `MCDeliveryConsumer` + two `.cfg`, `DeliveryConsumerProofs` | its instances and theorems |
| `EipRotation` | concurrent invocations of the rotation lambda over one pool of addresses |
| `MCEipRotation` + `Eip.cfg`, `EipRotationProofs` | its instance and theorems |
| `EbsVolumes` | `install` on the successive hosts of one volume set |
| `MCEbsVolumes` + `Ebs.cfg`, `EbsVolumesProofs` | its instance and theorems |
| `InstanceCycle` | one run of the cycling script over several groups |
| `Cycle.cfg`, `InstanceCycleProofs` | its instance and theorems |
| `InstanceTerminator` | one run of the terminator beside a Postfix that moves its mail |
| `Terminator.cfg`, `InstanceTerminatorProofs` | its instance and theorems |

### SubmitProducer

One queue file is modelled. All S3 paths and jilter files contain its queue id,
so two queue files share nothing as long as the ids differ. Postfix starts one
process per nexthop domain of the file (the recipient limit of the transport is
the default of Postfix's `default_destination_recipient_limit`, 500 in
`common-postfix-multi-instance-config.rb`); a *delivery* `d \in Delivery` is one of
those, and an outbound mail has a single one because of the content filter.

| State | Code |
|---|---|
| `status[d]` | the delivery in Postfix's queue, decided by the exit status of the script |
| `rejected`, `jilter`, `fileExists` | `<queue_id>.rejected` and `<queue_id>` in the jilter's directory |
| `messages`, `metadata`, `mailInfo` | MESSAGE, METADATA and MAIL_INFO objects in S3, by path |
| `sqs`, `posted` | sent jobs, posted accepted events |
| `accepted`, `mh`, `policy`, `todo`, `cur`, `batch` | `metadata.recipients`, `msghistory_events`, the policies of the context, the rest of the loop, the part being uploaded, `sqs_message_json_queue` |
| `pc`, `attempt`, `alarm` | where the process is, how often Postfix ran it, SIGALRM |

| Action | Code |
|---|---|
| `Invoke` | `get_metadata`, `get_rejected_recipients`, `read_jilter_context` (producer 138-187, 884-921): a failed read is "nothing rejected" and "no context" |
| `Split` | the choice of the parts in `multi_policy_flow` and `outbound_split_by_recipients`, with the fall-back to `build_policy_map` and to `base_policy_flow` |
| `Prepare`, `PolicyCrash` | the head of the loop: `update_msghistory_event`, `prepare_message_context`, `update_policy_context` (which raises on a `None` context) |
| `UploadMessage`, `UploadMetadata` | `upload_documents` |
| `Publish` | `publish_msg_processing_message` for each job of the batch |
| `PostEvents`, `DeleteEventsFile` | `handle_msghistory_events`, `delete_msghistory_events_file` |
| `ExitOk`, `TempFail`, `AlarmRings`, `StartupBounce`, `Expire` | the ways a process or a delivery ends |

`Stamp` (path, attempt) stands for what makes a job of an attempt what it is: the
`s3_resource_id` and the decorated queue id. A job keeps a reference (`ctx`) to the
entry of `msghistory_events` whose `mail_info` it contains, and `Serialised` reads
that entry when the job is sent: this is the aliasing of the Python dicts.
`Handed` is the meaning of the whole: a recipient is handed over when some job in
SQS leads to a stored MESSAGE and to METADATA that names it.

Abstractions: message contents, formats, compression and encryption; the policy
documents (any assignment of recipients to policy ids may be read, another one at
each attempt); the customer id, which the jilter writes in every event; a recipient
belongs to at most one delivery. The validated sender of an outbound mail, whose
domain is part of its paths, is the same in every attempt, and its validation fails
only as one of the bounded failures, since the jilter accepted the mail with it. Sent jobs stay in `sqs`: what processors do with
them is not in the repository.

### DeliveryConsumer

A job is `good`, has `missing` documents, is `poison` (its body or its metadata cannot be
parsed: an unguarded line raises before the mail info file is written, consumer 668-713), or
is `unsendable` (a line between that file and the injection raises, 728-760, or `smtplib`
does, or Postfix always refuses the mail, so that every receive leaves a file). `Receive`
takes up to `MaxNumberOfMessages` visible jobs, each with a receipt (the number of the
receive). `Take`, `Download`, `WriteMailInfo`, `Inject` and
`Delete` are the remote calls of `deliver_messages` in their order; `TakePoison`,
`DownloadFails`, `InjectRefused`, `InjectRaises`, `InjectNever` and `DeleteFails` are its exception
paths, each ending in one of the two handlers: `Continue` (on to the next message) or
`Abandon` (the handler around the loop body, which forgets the batch).
`VisibilityTimeout`, `Redrive` and the effect of `DeleteWith` on an old receipt are SQS,
`Crash` kills the process. `copies[m][n]` counts the mails Postfix accepted from the
n-th receive of `m`.

### EipRotation

Several invocations `l \in Lambda` run at once. `InvokeForLaunch`, `InvokeForOne` and
`InvokeForAll` are the three triggers (launch hook, SSM automation, schedule); the first
runs `initial_eip`, the others `rotate_eip`, for one host or in the loop over the list that
was made at the start. A rotation reads the public address of a host (`InvokeForOne`,
`InvokeForAll`) and asks EC2 for its association later (`LookUpOne`, `NextHost`): in between
the address may pass to another host. `InvokeForOne` takes any host there is, of any age: only
the schedule has the 1800 s test.

| State | Code |
|---|---|
| `phase[i]` | how far the host is: `launching` until its hook is completed, `launched` up to 1800 s of age, `old`; `RecentlyDeployed` is the test of the schedule |
| `owner`, `uses` | the associations in EC2; `uses` numbers them, which stands for the association id |
| `boot`, `bootName` | how far the recipes of the host are, and the address whose name they found |
| `postfix`, `hostname`, `late` | what the SSM commands and the recipes do on the host, and commands that were given up on and may still run |
| `pc`, `kind`, `target`, `listed`, `cur`, `new` | an invocation: where it is, its trigger, host, the hosts to come with the address read of each, the answer of `lookup_eip`, the chosen address |
| `seen`, `blame[i]` | bookkeeping: the associations when `l` read its list; what went wrong at `i` and was not repaired since |

`Choose` is `get_clean_eip`, `Stop`, `Disassociate`, `Associate`, `UpdateHostname` and
`Restart` are the calls of `rotate_eip` in their order, each with an action for its
failure: an error that the code handles, one that it does not (`eip['PublicIp']` of a host
without an address, the `message` of a `WaiterError`), or a wait that is given up. An
association may have taken effect although its answer is an error (`AssociateFails`).
`UpdateHostname` is the script of `ssm-update-hostname.tf`: `postconf`, then `monit start`,
without `set -e`, so that the command succeeds with the old name when only `postconf` fails.
`Abort` is the lambda's timeout. The order of the free addresses, which the tags decide, is any
order. `RunLate` lets a command that was given up on run after all. monit is asynchronous:
Success means that it took the request, and `postfix[i]` is what it was last told.

`ReadName` and `Configure` are the recipes of a new host (`get_fsc_hostname` and
`common-postfix-multi-instance-config.rb`). They run from the boot on, beside the launch hook,
so that Postfix may be configured with the name of an address that the host has yet to get, or
no longer has.

### EbsVolumes

The hosts `h` of one volume set replace each other and may overlap: `Terminate` makes room
for the next `Launch` while the old host runs on until `Gone`, at any line of the script.
`Fetch`, `CreateVolumeSet`, `AttachVolumeSet`, `Pvs`, `CreateFileSystem`, `Mount` and
`StoreVolumeSet` are the steps of `install` in their order; each `...Raises` action is its
failure, after which Chef tries again (`RetriesLeft`) unless the mount point is mounted
(`SkipRetry`, the `not_if` of the resource). `layer[v]` is what is on a volume: nothing,
a physical volume, a logical volume, a file system. `DeviceAppears` is the delay between
an attachment and its device. `base[h]`, `mail` and `blame[v]` are bookkeeping: the record
that the attempt read, the volumes that hosts in service have written mail to, and why the
record does not lead to a volume.

### InstanceCycle

`old[g]` and `new[g]` are the outdated host of a group and its replacement. `List`,
`NextChunk` (`termination_control`), `Terminate`, `AllTerminated`, `GetNewInstances` and
three `Wait`s are the script in its order; `TerminateFails`, `WaitTerminatedGivesUp` (skips
the chunk) and `WaiterError` (exit status 1) are its failures. `Advance(g)` and `HostDies(g)`
are the group. `skipped`, `troubled`, `unlisted` and `cycled` are bookkeeping for what the
success message hides.

### InstanceTerminator

`loc[m]` is where a mail is; `Arrive`, `Manage` and `Bounce` are Postfix. The script walks
the four directories one after the other, when it counts (`CountDir`), and when it copies
(`CopyDir`, then `WalkDir`, for each), and mail moves between any two of these steps.
`os.walk` ignores what it cannot list: each walk may see less than there is (`Sees`), which
costs a failure. `instance` is the answer of `get_postfix_instance`; without an MTA it is
`None`, `/storage/None` holds nothing, and the script counts 0 without any failure.
`Heartbeat`, `BeginBackup`, `Purge`, `Mismatch`, `StopPostfix` and `Exit` are the rest of
`process_event`, `backup_postfix_queue` and `main`; `Dies` is a failed command.
`Branch`, `CompleteLifecycleAction` and `DeleteVolume` are the automation in `ssm.tf`: a
volume that goes with its host (`disposable`) ends it without the script; the exit status
leads to `volumeEmpty` or `volumeNotEmpty`; a failure of either is ignored, and the volume is
waited for two minutes and then deleted in any case, which EC2 refuses while the host is
there. `eluded` is bookkeeping: the mail that moved since it was last looked for, or was in a
directory that could not be listed.

### Abstract specifications

`SubmitHandoff` has no process: a queued delivery may be reworked freely, it is
released as sent only when every required recipient is served, and what is handed of
a released delivery stays. A recipient is served when it is handed or when one of its
stand-ins is: `standIns` holds the recipient alone, and with `UserSplit` the other addresses
of its user that the same delivery has, because the map keeps one address of each user.
`SubmitProducer` implements it with `handed <- Handed`.
`MailTransfer` lets a message be injected at any time and removed only after that;
`DeliveryConsumer` implements it by forgetting visibility, threads and receipts.

## 3. Runs

| Run | Result | Question |
|---|---|---|
| `SubmitInbound` | passes | two domains, concurrent processes, aliases, rejected recipients, complete and incomplete events, one failure and a retry: nothing lost, no dangling job, no wrong event or context, implements `SubmitHandoff` |
| `SubmitOutbound` | passes | three recipients, batches of two (a full one and a rest), contexts in S3, two failures, three attempts; every delivery ends handed over or bounced |
| `SubmitSingle` | passes | one recipient: the context file is deleted, retries run without it; only a policy without an event makes a mail expire |
| `SubmitSharedContext` | violated | contexts inside the jobs of an outbound mail name another recipient's job |
| `SubmitUserSplit` | violated | split by user drops an alias |
| `SubmitAlarm` | violated | SIGALRM does not always end the process |
| `Delivery` | passes | two threads, two jobs, batches of two, two receives, a failure or crash anywhere: safety, liveness and implementation of `MailTransfer` |
| `DeliveryVerdict` | violated | `inject_email` does not always return a verdict |
| `Eip` | passes | launches and rotations by two invocations at once, two failures, late commands or timeouts anywhere: which mishaps leave a host stopped, without an address or under a wrong name; recipes run beside it |
| `Ebs` | passes | three hosts that fail, retry, end and overlap: what keeps the record from leading to the mail; mail is never formatted over |
| `Cycle` | passes | three groups in chunks of two, slow, dying and late hosts: how many are down at once, what "Complete!" means, that the script ends |
| `Terminator` | passes | mail that moves, bounces and arrives while it is counted, copied and purged: where the instance is found, only mail that moved, that a failed listing hid or that a wrapped exit status denies is ever lost |

The four violated runs are disagreements between the code and its own comments; the
`findings` of `PROJECT.json` quote both sides.

### Bounds

* Three recipients are two aliases of one owner and a stranger; two deliveries are
  enough for every shared file and every neighbouring path. An outbound mail needs
  three parts for a full batch of two and a rest; the code's batch size of 10 is the
  constant `SqsBatchSize` and the theorems hold for any.
* `MaxFaults` bounds failures (failed calls, alarms, killed processes, late answers)
  in one behaviour, `MaxAttempts` the runs of the script before the queue lifetime is
  over. They are related on purpose: `EventuallySent` holds because there are fewer
  failures than attempts, as a real queue lifetime has many more retries than
  failures. Two failures and three attempts include a retry of a retry.
* `MaxReceives` is 2 instead of the 5 of `create_sqs`: enough for a second receive
  next to a first one and for the dead-letter queue.
* `Eip`: two hosts, three addresses, two invocations, two failures. Two invocations
  are enough for every race over an address or a host, and the third address is the one
  that is free when each host has one. Hosts, addresses and invocations are
  interchangeable, so TLC takes them as symmetric; there is no liveness property there.
  One case needs a third invocation: that a rotation of another host takes the address of a
  host which has just been launched (`crossed` in `LaunchedHasAddress`). The theorem covers
  it.
* `Ebs`: three hosts, so that a successor inherits what an overlap of two has left;
  three volumes, the most that two failures and one retry can have created and still
  race; one retry of the recipe. Symmetric, and without liveness as well.
* `Cycle`: three groups in chunks of two give a full chunk and a rest. `Terminator`: two
  mails, so that one moves while the other stays; two heartbeats instead of 19; `Modulus`
  2 instead of 256, which makes two stuck mails the wrapped exit status.
* The theorems have none of these bounds: they hold for all values of them.

### Fairness

`SubmitProducer`: each step of a process is weakly fair, since every call it makes
returns or raises (and the alarm ends it otherwise), and Postfix's queue manager
retries what it holds, which makes `Invoke` fair, until `Expire`. Failures have no
fairness. `DeliveryConsumer`: the threads are infinite loops around calls that
return or raise, so `Work(t)` is weakly fair; SQS keeps its timers, so `Timer(m)` is.
`Crash` and the failures have none. `Finished` and `Settled` let a system that has
nothing left to do stutter, so deadlock is checked in the runs of these two.

`InstanceCycle`: the script runs, since its waiters poll with a limit and its other calls
return or raise, so `Script` is weakly fair; a group that wants a host launches one and
hooks end, so `Advance(g)` is. That the group does its part is what `get_new_instance`,
which has no limit, depends on. `InstanceTerminator`: `Terminator` and `Automation` are fair,
Postfix is not: mail may stay where it is for ever. `EipRotation` and `EbsVolumes` have
safety properties only and no fairness. In these four a behaviour really ends: each
invocation, host or script is over after its last step. Their runs do not check
deadlock; that the scripts reach their end is what `CycleEnds` and `TerminationEnds` say.

### Properties

For the producer: `JobDocumentsStored`, `SentMailIsHandedOver`, `NoJobSentTwice`,
`PostedEventHasJob`, `InlineContextNamesItsJob`, `ContextNamesItsJob`,
`DeletesOnlyUnneededFile`, `OnlyOrphanPolicyExpires`, `EventuallySent`,
`ImplementsHandoff`. For the consumer: `DeletedWasInjected`, `OneCopyPerReceive`,
`OrphansAreFew`, `UntriedDeadNeedsPoison`, `GoodMailInjected`, `EverySettled`,
`ImplementsTransfer`. For the addresses: `StoppedIsAccounted`, `RunningHasAddress`,
`NameMatchesAddress`, `LaunchedHasAddress`, `LossIsAccounted`. For the volumes:
`MailIsRecorded`, `RecordedIsFormatted`, `OrphansAreFew`, `NeverFormatsMail`. For the
cycling: `AtMostTermDown`, `CompleteMeansReplaced`, `CycleEnds`. For the terminator:
`PurgeLosesOnlyMoved`, `DeleteLosesOnlyUncounted`, `TerminationEnds`. Each is stated in words at
its definition.

Several of them have the form "the good state, or a named cause": the code has no
remedy for some failures, and the property says which they are and that nothing else
leads there. The causes are bookkeeping variables (`blame`, `skipped`, `eluded`, ...) that
no guard of the model reads. Such a property does not catch the named cause itself; the
`hazards` it exempts say so in their `note`:

* `OrphansAreFew` of the consumer counts mail that can be injected. An `unsendable` mail
  leaves a mail info file at each receive, with no failure at all.
* `DeleteLosesOnlyUncounted` exempts a host whose Postfix instance is not found, a directory
  that could not be listed, mail that moved during the last count, and a multiple of 256
  mails: in these the code breaks its own "Any failure will allow the volume to survive"
  (terminator 190-191). `PurgeLosesOnlyMoved` exempts mail that moves during the backup.
* `NameMatchesAddress` exempts a `postconf` that failed under a command reported as Success.
* `LossIsAccounted` allows a rotation, scheduled or single, to take the address of another
  host if it read the address as its own host's before it passed on.
* `AtMostTermDown` and `CompleteMeansReplaced` exempt chunks that the script gave up on and
  went past (its docstring says "Else it will fail", `cycle` 26).

`SentMailIsHandedOver` allows, when `UserSplit` is on, that another address of the
same user stands for an alias; `SentToEveryRecipient` does not, and is the one the
user split violates. Definitions named `...Fault` are plausible mistakes in the code;
`PROJECT.json` pairs each property with one that breaks it.

## 4. Proofs

The assumptions are the named `ASSUME`s of the modules (the shape of the constants),
which TLC evaluates in every run.

`SubmitProducerProofs`:

* `TypeCorrect`, `DocumentsOfJobs`, `JobsAreSentOnce`: `[]TypeOK`, `[]JobDocumentsStored`,
  `[]NoJobSentTwice`.
* `NoMailIsLost`: `[]SentMailIsHandedOver`; `EveryRecipientIsHandedOver`: with `UserSplit`
  off, `[]SentToEveryRecipient`.

None of these is inductive. The invariant `IInv` is `TypeOK` with three parts:
`ProcessInv` (a process works on a job of its own delivery and attempt exactly while
its `pc` says so), `DocumentInv` (sent and waiting jobs have their documents, under
the attempt that made them or a later one) and `FreshInv` (the paths of the running
attempt are used once: a part still to do has no job yet, a waiting job was not
sent). `NoMailIsLost` needs `CoverInv` on top: at every point of an attempt each
accepted recipient is in a part still to do, in the job being uploaded, in a job
waiting in the batch, or reached by a sent job of this attempt; when nothing is left
to do only the last remains, and paths of a delivery that was released are never
written again, because a path contains its domain. One lemma per action shows that
the action keeps each part.

`SubmitHandoffProofs` adds `CarryInv`, one delivery at a time, on top of these:

* `EventsNameJobs`: `[]PostedEventHasJob`. `Stamped`: every stamped event of a running attempt
  has a job in hand or in SQS; when the events are posted nothing is in hand any more.
* `InboundContextsAreOwn`, `ContextsAreOwn`: `[]InlineContextNamesItsJob` for inbound mail,
  `[]ContextNamesItsJob` for inbound mail and for contexts in S3, which is the exact
  border of the finding that `SubmitSharedContext` shows. `InContext`: the parts of an inbound
  split are disjoint, so the event a job refers to is stamped once.
* `OnlyOrphansExpire`: `[]OnlyOrphanPolicyExpires` when there are fewer failures than
  attempts. `Budgeted`: without an orphan, each finished attempt has cost a failure.
* `DeletionIsSafe`: the action property `DeletesOnlyUnneededFile`.
* `ProducerImplementsHandoff`: `Spec => ImplementsHandoff`, whatever the split. `Addressed`:
  METADATA under a path of `d` names only recipients of `d`, so that a step of `d` is a
  `Rework` of `d` alone.
* `ReleasedMailStays`: the action property `HandedStays`, derived from the refinement: once a
  delivery is released, no step of another delivery changes what is handed of it.

`SubmitWorkProofs` adds `LoopInv`, what the loop over the parts knows, and counts:

* `ScriptIsNeverStuck`: `[]NeverStuck`; wherever a process is, what its next step works on is
  there. `SplitsExist`: a mail with an accepted recipient can always be split.
* `BatchesStaySmall`: `[]BatchesFit`; what is sent in one call never exceeds `SqsBatchSize`.
* `RunsComeToAnEnd`: see *The work left* below. `FewImages`: there are no more parts than
  recipients.

`DeliveryConsumerProofs`:

* `ConsumerTypeCorrect`: `[]TypeOK`. `DeletedMailWasInjected`: `[]DeletedWasInjected`,
  from `HeldInv`: a thread that is about to delete holds a job whose mail was injected.
* `ConsumerImplementsTransfer`: `Spec => ImplementsTransfer`; every step of a thread, of
  SQS or a crash is a step of `MailTransfer` or leaves its variables alone.
* `OneCopyForEachReceive`: `[]OneCopyPerReceive`, from `JobInv`: a receive of a job is in the hand
  of one thread, and its copies and mail info file tell how far that thread is.
* `DeadLettersWereTried`: `[]UntriedDeadNeedsPoison` when there are fewer failures than
  receives: without poison each receive of an untried job has cost a failure.
* `FewOrphans`: `[]OrphansAreFew`, by counting the files of a crash; the files of unsendable
  mail are left out of the count, because no failure pays for them.
* `BatchesRunDown`: see *The work left*.

`EipRotationProofs`: `Typed`, and the five properties of the run (`StoppedHostsAccounted`,
`RunningHostsHaveAddress`, `NamesMatch`, `LaunchesHaveAddress`, `LossesAccounted`). `TypeInv`
adds what an invocation knows at each `pc`. `AddressInv`: a host has at most one address; an
address that an invocation read of host `i` is that of `i` or nobody's as long as no new
association was made (`ReadOf`), and what it looked up is at least as recent as what it read.
`Fit(i)`, one host at a time, relates Postfix, address and name to `blame[i]` and to the
rotations under way: `Housed` says that a launched host has its address, a rotation about to
give it one, or a cause; `Up`, that its recipes are through, is the condition under which
Postfix and name are accounted for, since the recipes may finish before the launch hook.

`EbsVolumesProofs`: `Typed`, `MailStaysRecorded`, `RecordLeadsToFileSystem`,
`MailIsNeverFormatted`. `HostInv(h)` is what an attempt knows at each step (its base is nothing
or its own volume, what it mounted is its own or a left-over); `RecordInv` adds that mail
lies on a file system, and file systems never go away. `OrphansStayFew`: `[]OrphansAreFew`. The
step that makes an orphan also makes a failed attempt, a host that went away or an
overwritten record, and the sets of these only grow.

`InstanceCycleProofs`: `Typed`, `TermBoundsOutage`, `CompletionIsReplacement`. `Parted`: the queue
is disjoint from the chunk and from what was cycled, and a chunk has at most `Term` groups;
`Covered`: a group is unlisted, in
the queue, in the chunk, done or named by an exception.

`InstanceTerminatorProofs`: `Typed`, `PurgeSafe`, `DeleteSafe`. `Located` says for each mail that
has not eluded the script what the walk so far has seen or copied of it; `Verdict` carries the last
count to the exit status and to the automation.

### The work left

Liveness is out of the prover's reach, but the half of it that does not depend on
fairness is not. Six theorems give a ranking function, `Work` or `Left`, that is a number
below a stated bound in every reachable state and that every step of the script makes
smaller, while steps of others leave it alone or make it smaller:

| Theorem | What takes | at most |
|---|---|---|
| `RunsComeToAnEnd` | one run of the producer | 4 steps for each recipient and 5 more |
| `BatchesRunDown` | a consumer thread, from one receive to the next | 6 steps for each job received and 1 more |
| `InvocationsRunDown` | one invocation of the rotation lambda | 9 steps for each host it listed and 8 more |
| `InstallRunsDown` | the install of one host, with its retries | 10 steps for each attempt and 9 more |
| `ScriptRunsDown` | one run of the cycling script | 7 steps for each group and 2 more |
| `TerminationRunsDown` | one run of the terminator and the automation | 6 steps for each heartbeat and 26 more |

So no failure, timeout or step of another process sends a script back to work it has
done. With the fairness of section 3, which says that a script that can take a step
takes one, this is the argument behind `EventuallySent`, `EverySettled`, `CycleEnds` and
`TerminationEnds`; TLC checks those as a whole.

### Assumptions

Beyond the shape of the constants: `Recipient`, `Address`, `Instance`, `Host`, `Volume`,
`Group`, `Thread` and `Mail` are finite, since the properties count, and `BatchesRunDown`
says the same of `Msg`; `""` is no message. Where a theorem compares `MaxFaults` with `MaxAttempts` or `MaxReceives`, it
says so in its statement.

Model-checked only: the liveness properties (`EventuallySent`, `GoodMailInjected`,
`EverySettled`, `CycleEnds`, `TerminationEnds`), which are beyond the prover. Every invariant,
action property and refinement that a passing run checks is stated by a theorem.

## 5. Plan

Done, in this order: `SubmitHandoff`, `SubmitProducer`, `MailTransfer`, `DeliveryConsumer`;
`EipRotation`; `EbsVolumes`; `InstanceCycle`; `InstanceTerminator`; the theorems of section 4.

What is left, the most useful first:

1. The terminator's lambda as a second trigger: two copies of the script on one host.
2. Reuse of a Postfix queue id while documents of the earlier mail are needed (two queue
   files in `SubmitProducer`, once the lifetime of S3 objects is known).
3. The order of rename and reload in the updaters of domains and recipients.

## 6. Not modelled

Components without a module and the reason for each are listed in `PROJECT.json`. In
short:

* The policy poller cannot start (line 203 of `xgemail.sqs.policy.poller.py.erb` is not
  valid Python), so there is no behaviour to model.
* `xgemail_multi_eip_rotation.py` ends its loop according to what EC2 answers to an
  association with a private address that is in use, which this repository does not tell.
* The bamboo predecessor of the cycling script has the same waiters and never fails.
* The EIP monitor writes the tags that order the free addresses; `EipRotation` allows
  any order. The bouncer, the encryption producer and the lambdas have one call each, or
  the shape of a flow that is modelled.
* Reuse of a Postfix queue id while the documents of an earlier mail are still needed is a
  hazard of the path format that one queue file cannot show.

Most of the Python here is not the program's own. `src/lambda` holds complete copies
of `idna`, `chardet`, `urllib3`, `requests` and others, and the producers, consumers and the
terminator, which carry the logic, are `.erb` templates. The share of all Python lines that
the modules translate is small for that reason; vendored packages, infrastructure
templates, installation recipes and test data stay out.

## 7. Running

    tlc -workers 2 -config SubmitInbound.cfg MCSubmitProducer
    tlc -workers 2 -config Delivery.cfg MCDeliveryConsumer
    tlc -workers 2 -config Eip.cfg MCEipRotation
    tlc -workers 2 -config Ebs.cfg MCEbsVolumes
    tlc -workers 2 -config Cycle.cfg InstanceCycle
    tlc -workers 2 -config Terminator.cfg InstanceTerminator
    tlapm SubmitProducerProofs.tla
    tlapm SubmitHandoffProofs.tla

and `tlapm` on the other `...Proofs` modules in the same way; each takes about a minute.
