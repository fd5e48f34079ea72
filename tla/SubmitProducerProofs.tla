------------------------ MODULE SubmitProducerProofs ------------------------
(***************************************************************************)
(* Theorems about SubmitProducer, for every set of deliveries, recipients  *)
(* and policies and every bound on failures and attempts.                  *)
(***************************************************************************)
EXTENDS SubmitProducer, TLAPS

-----------------------------------------------------------------------------
(***************************************************************************)
(* The inductive invariant.                                                *)
(***************************************************************************)

\* The loop over the parts has a job whose documents it uploads.
HasCur(d) == pc[d] \in {"message", "metadata"}

\* The job was built by the running attempt of d, from the events it holds.
Own(d, job) ==
    /\ job \in Job
    /\ job.id.path.domain = d
    /\ job.id.attempt = attempt[d]
    /\ job.ctx \in DOMAIN mh[d] \cup {NoContext, InS3}

\* What a process holds is its own, and a new process starts with nothing.
ProcessInv ==
    \A d \in Delivery :
        /\ HasCur(d) => Own(d, cur[d])
        /\ \A job \in batch[d] : Own(d, job)
        /\ pc[d] \in {"idle", "split"} => todo[d] = {} /\ batch[d] = {}

\* The documents of a job are there before the job is in the batch, and METADATA
\* is never newer than the attempts that were made.
DocumentInv ==
    /\ \A p \in Path : metadata[p].attempt <= attempt[p.domain]
    /\ \A d \in Delivery :
        /\ pc[d] = "metadata" => cur[d].id.path \in messages
        /\ \A job \in batch[d] :
            job.id.path \in messages /\ metadata[job.id.path].attempt >= attempt[d]
    /\ JobDocumentsStored

\* What the attempt on d makes of the part with this key.
StampOf(d, key) == [path |-> PathOf(d, key), attempt |-> attempt[d]]

\* No job that waits or was sent has this stamp.
Unused(d, id) == (\A job \in batch[d] : job.id # id) /\ (\A s \in sqs : s.id # id)

\* Every part of an attempt gets one job: the parts differ in their keys, and
\* a part that is still to do has no job yet.
FreshInv ==
    /\ \A d \in Delivery :
        /\ pc[d] = "split" =>
            \A s \in sqs : s.id.path.domain = d => s.id.attempt < attempt[d]
        /\ HasCur(d) => Unused(d, cur[d].id)
        /\ \A part \in todo[d] :
            /\ Unused(d, StampOf(d, part.key))
            /\ HasCur(d) => cur[d].id # StampOf(d, part.key)
            /\ \A other \in todo[d] : other.key = part.key => other = part
        /\ \A job \in batch[d], other \in batch[d] : other.id = job.id => other = job
    /\ NoJobSentTwice

IInv == TypeOK /\ ProcessInv /\ DocumentInv /\ FreshInv

-----------------------------------------------------------------------------
(***************************************************************************)
(* Lemmas about the operators.                                             *)
(***************************************************************************)

\* A split is a set of parts that differ in their keys.
IsSplit(parts) ==
    \A part \in parts :
        /\ part \in [key : Key, rcpts : SUBSET Recipient]
        /\ \A other \in parts : other.key = part.key => other = part

\* Grouping recipients by the values of a function yields a split.
LEMMA GroupBySplits ==
    ASSUME NEW R \in SUBSET Recipient, NEW f, \A r \in R : f[r] \in Key
    PROVE  IsSplit(GroupBy(f, R))
BY DEF IsSplit, GroupBy, Part

\* Whatever way the producer chooses to split, it gets a split of accepted[d].
LEMMA SplitsAreSplits ==
    ASSUME NEW d \in Delivery, accepted[d] \in SUBSET Recipient,
           NEW parts \in Splits(d)
    PROVE  IsSplit(parts)
<1>1. CASE parts = OutboundParts(accepted[d])
    BY <1>1 DEF OutboundParts, IsSplit, Part, Key
<1>2. CASE parts = BaseParts(accepted[d])
    BY <1>2 DEF BaseParts, IsSplit, Part, Key
<1>3. CASE parts = MsgHistoryParts(accepted[d])
    <2>1. \A r \in accepted[d] : OwnerOf[r] \in Key
        BY OwnerAssumption DEF Key
    <2> QED BY <1>3, <2>1, GroupBySplits DEF MsgHistoryParts
<1>4. CASE parts \in PolicyParts(accepted[d])
    <2>1. PICK f \in [accepted[d] -> PolicyId] : parts = GroupBy(f, accepted[d])
        BY <1>4 DEF PolicyParts
    <2>2. \A r \in accepted[d] : f[r] \in Key
        BY DEF Key
    <2> QED BY <2>1, <2>2, GroupBySplits
<1>5. CASE parts \in UserParts(accepted[d])
    <2> DEFINE Owners == {OwnerOf[r] : r \in accepted[d]}
    <2>1. PICK f \in [Owners -> accepted[d]] : parts = {Part(o, {f[o]}) : o \in Owners}
        BY <1>5 DEF UserParts
    <2>2. Owners \subseteq Key
        BY OwnerAssumption DEF Key
    <2>3. \A o \in Owners : {f[o]} \in SUBSET Recipient
        OBVIOUS
    <2> HIDE DEF Owners
    <2> QED BY <2>1, <2>2, <2>3 DEF IsSplit, Part
<1> QED BY <1>1, <1>2, <1>3, <1>4, <1>5 DEF Splits, FallbackSplits

-----------------------------------------------------------------------------
(***************************************************************************)
(* Type correctness.                                                       *)
(***************************************************************************)
LEMMA InitTyped == Init => TypeOK /\ ProcessInv
<1> SUFFICES ASSUME Init PROVE TypeOK /\ ProcessInv
    OBVIOUS
<1>1. fileExists \in BOOLEAN
    BY Zenon DEF Init
<1>2. mh = [d \in Delivery |-> mh[d]] /\ \A d \in Delivery : IsEvents(mh[d])
    BY DEF Init, NoEvents, IsEvents
<1>3. metadata \in [Path -> [attempt : Nat, rcpts : SUBSET Recipient]]
    BY DEF Init, NoMetadata
<1>4. TypeOK
    BY <1>1, <1>2, <1>3, BoundAssumption DEF Init, TypeOK, Label
<1>5. ProcessInv
    BY DEF Init, ProcessInv, HasCur
<1> QED BY <1>4, <1>5

\* The end of a process clears what is its own and touches no other process.
LEMMA EndProcessTyped ==
    ASSUME TypeOK, ProcessInv, NEW d \in Delivery, EndProcess(d),
           status' \in [Delivery -> {"queued", "sent", "bounced", "expired"}],
           faults' \in 0..MaxFaults,
           UNCHANGED <<inputVars, fileExists, s3Vars, sqs, posted, attempt>>
    PROVE  TypeOK' /\ ProcessInv'
<1> USE DEF EndProcess, Goto, inputVars, s3Vars
<1>1. TypeOK'
    BY DEF TypeOK, NoEvents, IsEvents, Label
<1>2. ASSUME NEW e \in Delivery
      PROVE  /\ HasCur(e)' => Own(e, cur[e])'
             /\ \A job \in batch'[e] : Own(e, job)'
             /\ pc'[e] \in {"idle", "split"} => todo'[e] = {} /\ batch'[e] = {}
    <2>1. CASE e = d
        BY <2>1 DEF TypeOK, HasCur
    <2>2. CASE e # d
        BY <2>2 DEF TypeOK, ProcessInv, HasCur, Own
    <2> QED BY <2>1, <2>2
<1> QED BY <1>1, <1>2 DEF ProcessInv

LEMMA FaultTyped == TypeOK /\ Fault => faults' \in 0..MaxFaults
BY BoundAssumption DEF TypeOK, Fault

LEMMA InvokeTyped ==
    ASSUME TypeOK, ProcessInv, NEW d \in Delivery, Invoke(d)
    PROVE  TypeOK' /\ ProcessInv'
<1> USE DEF Invoke, Goto, inputVars, s3Vars
<1>1. PICK R \in {rcptsOf[d] \ rejected, rcptsOf[d]} :
        /\ accepted' = [accepted EXCEPT ![d] = R]
        /\ pc' = [pc EXCEPT ![d] = IF R = {} THEN "exit" ELSE "split"]
    OBVIOUS
<1>2. R \in SUBSET Recipient
    BY <1>1, DeliveryAssumption
<1>3. PICK readable \in {FALSE, fileExists} :
        /\ mh' = [mh EXCEPT ![d] =
                    [k \in (IF readable THEN jilter.events ELSE {}) |-> NoStamp]]
        /\ policy' = [policy EXCEPT ![d] = IF readable THEN jilter.policy ELSE {}]
    OBVIOUS
<1>4. jilter.events \subseteq EventKey /\ jilter.policy \subseteq Recipient
    BY JilterAssumption DEF TypeOK
<1>5. TypeOK'
    <2>1. mh' = [e \in Delivery |-> mh'[e]] /\ \A e \in Delivery : IsEvents(mh'[e])
        BY <1>3, <1>4 DEF TypeOK, IsEvents
    <2>2. attempt' \in [Delivery -> 0..MaxAttempts]
        BY BoundAssumption DEF TypeOK
    <2>3. policy' \in [Delivery -> SUBSET Recipient]
        BY <1>3, <1>4 DEF TypeOK
    <2> QED BY <1>1, <1>2, <2>1, <2>2, <2>3 DEF TypeOK, Label
<1>6. ProcessInv'
    BY <1>1, <1>3 DEF TypeOK, ProcessInv, HasCur, Own
<1> QED BY <1>5, <1>6

LEMMA SplitTyped ==
    ASSUME TypeOK, ProcessInv, NEW d \in Delivery, Split(d)
    PROVE  TypeOK' /\ ProcessInv'
<1> USE DEF Split, Goto, inputVars, s3Vars
<1>1. PICK parts \in Splits(d) : todo' = [todo EXCEPT ![d] = parts]
    OBVIOUS
<1>2. parts \in SUBSET [key : Key, rcpts : SUBSET Recipient]
    BY SplitsAreSplits DEF TypeOK, IsSplit
<1>3. TypeOK'
    BY <1>1, <1>2 DEF TypeOK, Label
<1>4. ProcessInv'
    BY <1>1 DEF TypeOK, ProcessInv, HasCur, Own
<1> QED BY <1>3, <1>4

\* The job that Prepare builds belongs to the running attempt.
LEMMA PreparedJobTyped ==
    ASSUME TypeOK, NEW d \in Delivery, NEW part \in todo[d], NEW first \in part.rcpts,
           NEW uploaded \in BOOLEAN
    PROVE  /\ StampOf(d, part.key) \in Stamp
           /\ MessageContext(d, first, uploaded) \in DOMAIN mh[d] \cup {NoContext, InS3}
           /\ DOMAIN mh[d] \subseteq EventKey
           /\ part.rcpts \in SUBSET Recipient
<1>1. part \in [key : Key, rcpts : SUBSET Recipient]
    BY DEF TypeOK
<1>2. StampOf(d, part.key) \in Stamp
    BY <1>1, BoundAssumption DEF TypeOK, StampOf, PathOf, Stamp, Path
<1>3. MessageContext(d, first, uploaded) \in DOMAIN mh[d] \cup {NoContext, InS3}
    BY DEF MessageContext, HasContext
<1> QED BY <1>1, <1>2, <1>3 DEF TypeOK, IsEvents

\* update_msghistory_event changes stamps and never whom there are events for.
LEMMA StampEventsTyped ==
    ASSUME NEW events, IsEvents(events), NEW part, NEW stamp \in Stamp
    PROVE  /\ IsEvents(StampEvents(events, part, stamp))
           /\ DOMAIN StampEvents(events, part, stamp) = DOMAIN events
BY DEF IsEvents, StampEvents

LEMMA PrepareTyped ==
    ASSUME TypeOK, ProcessInv, NEW d \in Delivery, NEW part \in todo[d],
           NEW first \in part.rcpts, NEW uploaded \in BOOLEAN,
           Prepare(d, part, first, uploaded)
    PROVE  TypeOK' /\ ProcessInv'
<1> DEFINE id == StampOf(d, part.key)
           ctx == MessageContext(d, first, uploaded)
           job == [id |-> id, rcpts |-> part.rcpts, ctx |-> ctx]
           info == StampEvents(mh[d], part, id)[ContextKey(first)]
<1>1. /\ pc[d] = "prepare"
      /\ mh' = [mh EXCEPT ![d] = StampEvents(mh[d], part, id)]
      /\ \/ mailInfo' = mailInfo
         \/ ctx = InS3 /\ mailInfo' = [mailInfo EXCEPT ![id.path] = info]
      /\ faults' = faults \/ Fault
      /\ todo' = [todo EXCEPT ![d] = @ \ {part}]
      /\ cur' = [cur EXCEPT ![d] = job]
      /\ pc' = [pc EXCEPT ![d] = "message"]
      /\ UNCHANGED <<status, inputVars, fileExists, messages, metadata, sqs, posted,
                     attempt, alarm, accepted, policy, batch>>
    BY DEF Prepare, StampOf, Goto
<1>2. /\ id \in Stamp /\ ctx \in DOMAIN mh[d] \cup {NoContext, InS3}
      /\ DOMAIN mh[d] \subseteq EventKey /\ part.rcpts \in SUBSET Recipient
    BY PreparedJobTyped
<1>3. id.path \in Path /\ id.path.domain = d /\ id.attempt = attempt[d]
    BY <1>2 DEF StampOf, PathOf, Stamp
<1>4. ctx = InS3 => ContextKey(first) \in DOMAIN mh[d]
    BY DEF MessageContext, HasContext, NoContext, InS3
<1>5. ctx = InS3 => info \in Stamp \cup {NoStamp}
    <2>1. IsEvents(StampEvents(mh[d], part, id))
        BY <1>2, StampEventsTyped DEF TypeOK
    <2>2. DOMAIN StampEvents(mh[d], part, id) = DOMAIN mh[d]
        BY DEF StampEvents
    <2> QED BY <1>4, <2>1, <2>2 DEF IsEvents
<1> HIDE DEF id, ctx, info
<1>6. job \in Job
    BY <1>2 DEF Job
<1>7. /\ mh' = [e \in Delivery |-> mh'[e]]
      /\ \A e \in Delivery : IsEvents(mh'[e]) /\ DOMAIN mh'[e] = DOMAIN mh[e]
    <2>1. IsEvents(mh[d])
        BY DEF TypeOK
    <2>2. /\ IsEvents(StampEvents(mh[d], part, id))
          /\ DOMAIN StampEvents(mh[d], part, id) = DOMAIN mh[d]
        BY <1>2, <2>1, StampEventsTyped
    <2> QED BY <1>1, <2>2 DEF TypeOK
<1>8. faults' \in 0..MaxFaults
    BY <1>1, FaultTyped DEF TypeOK
<1>9. mailInfo' \in [Path -> Stamp \cup {NoStamp}]
    BY <1>1, <1>3, <1>5 DEF TypeOK
<1>10. TypeOK'
    BY <1>1, <1>6, <1>7, <1>8, <1>9 DEF TypeOK, Label, inputVars
<1>11. ProcessInv'
    BY <1>1, <1>2, <1>3, <1>6, <1>7 DEF TypeOK, ProcessInv, HasCur, Own
<1> QED BY <1>10, <1>11

LEMMA UploadMessageTyped ==
    ASSUME TypeOK, ProcessInv, NEW d \in Delivery, UploadMessage(d)
    PROVE  TypeOK' /\ ProcessInv'
<1> USE DEF UploadMessage, Goto, inputVars, s3Vars, localVars
<1>1. Own(d, cur[d])
    BY DEF ProcessInv, HasCur
<1>2. messages' \subseteq Path
    BY <1>1 DEF TypeOK, StoreMessage, Own, Job, Stamp
<1>3. TypeOK'
    BY <1>2 DEF TypeOK, Label
<1>4. ProcessInv'
    BY DEF TypeOK, ProcessInv, HasCur, Own
<1> QED BY <1>3, <1>4

LEMMA UploadMetadataTyped ==
    ASSUME TypeOK, ProcessInv, NEW d \in Delivery, UploadMetadata(d)
    PROVE  TypeOK' /\ ProcessInv'
<1> DEFINE job == cur[d]
           stored == [attempt |-> job.id.attempt, rcpts |-> job.rcpts]
<1>1. /\ pc[d] = "metadata"
      /\ metadata' = [metadata EXCEPT ![job.id.path] = stored]
      /\ batch' = [batch EXCEPT ![d] = @ \cup {job}]
      /\ cur' = [cur EXCEPT ![d] = NoJob]
      /\ \E label \in {"publish", "prepare"} : pc' = [pc EXCEPT ![d] = label]
      /\ UNCHANGED <<status, inputVars, fileExists, messages, mailInfo, sqs, posted,
                     faults, attempt, alarm, accepted, mh, policy, todo>>
    BY DEF UploadMetadata, AfterUpload, Goto
<1>2. Own(d, job)
    BY <1>1 DEF ProcessInv, HasCur
<1>3. stored \in [attempt : Nat, rcpts : SUBSET Recipient] /\ job \in Job
    BY <1>2 DEF Own, Job, Stamp
<1> HIDE DEF stored, job
<1>4. TypeOK'
    <2>1. metadata' \in [Path -> [attempt : Nat, rcpts : SUBSET Recipient]]
        BY <1>1, <1>3 DEF TypeOK
    <2>2. batch' \in [Delivery -> SUBSET Job]
        BY <1>1, <1>3 DEF TypeOK
    <2>3. cur' \in [Delivery -> Job \cup {NoJob}] /\ pc' \in [Delivery -> Label]
        BY <1>1 DEF TypeOK, Label
    <2> QED BY <1>1, <2>1, <2>2, <2>3 DEF TypeOK, inputVars
<1>5. ProcessInv'
    BY <1>1, <1>2 DEF TypeOK, ProcessInv, HasCur, Own
<1> QED BY <1>4, <1>5

\* The job as a consumer will find it.
LEMMA SerialisedTyped ==
    ASSUME TypeOK, NEW d \in Delivery, NEW job, Own(d, job)
    PROVE  Serialised(d, job) \in SentJob /\ Serialised(d, job).id = job.id
<1>1. job.id \in Stamp /\ IsEvents(mh[d])
    BY DEF TypeOK, Own, Job
<1>2. job.ctx \in DOMAIN mh[d] => mh[d][job.ctx] \in Stamp \cup {NoStamp}
    BY <1>1 DEF IsEvents
<1> QED BY <1>1, <1>2 DEF Serialised, SentJob, Own

LEMMA PublishTyped ==
    ASSUME TypeOK, ProcessInv, NEW d \in Delivery, Publish(d)
    PROVE  TypeOK' /\ ProcessInv'
<1>1. PICK job \in batch[d] :
        /\ pc[d] = "publish"
        /\ sqs' = sqs \cup {Serialised(d, job)}
        /\ batch' = [batch EXCEPT ![d] = @ \ {job}]
        /\ \E label \in {"publish", "prepare", "post"} : pc' = [pc EXCEPT ![d] = label]
        /\ UNCHANGED <<status, inputVars, fileExists, s3Vars, posted, faults, attempt,
                       alarm, accepted, mh, policy, todo, cur>>
    BY DEF Publish, Send, Unsent, Goto
<1>2. Serialised(d, job) \in SentJob
    BY SerialisedTyped DEF ProcessInv
<1>3. TypeOK'
    BY <1>1, <1>2 DEF TypeOK, Label, inputVars, s3Vars
<1>4. ProcessInv'
    BY <1>1 DEF TypeOK, ProcessInv, HasCur, Own
<1> QED BY <1>3, <1>4

LEMMA PostEventsTyped ==
    ASSUME TypeOK, ProcessInv, NEW d \in Delivery, PostEvents(d)
    PROVE  TypeOK' /\ ProcessInv'
<1> USE DEF PostEvents, Goto, inputVars, s3Vars, localVars
<1>1. {mh[d][k] : k \in DOMAIN mh[d]} \ {NoStamp} \subseteq Stamp
    BY DEF TypeOK, IsEvents
<1>2. posted' \subseteq Stamp
    BY <1>1 DEF TypeOK
<1>3. TypeOK'
    BY <1>2 DEF TypeOK, Label
<1>4. ProcessInv'
    BY DEF TypeOK, ProcessInv, HasCur, Own
<1> QED BY <1>3, <1>4

\* The ends of a process, and what only Postfix does.
LEMMA EndsTyped ==
    ASSUME TypeOK, ProcessInv, NEW d \in Delivery,
           \/ TempFail(d) \/ ExitOk(d) \/ AlarmRings(d) \/ DeleteEventsFile(d)
           \/ StartupBounce(d) \/ Expire(d)
    PROVE  TypeOK' /\ ProcessInv'
<1>1. CASE TempFail(d)
    <2>1. faults' \in 0..MaxFaults
        BY <1>1, FaultTyped DEF TempFail
    <2> QED BY <1>1, <2>1, EndProcessTyped DEF TempFail, TypeOK
<1>2. CASE ExitOk(d)
    BY <1>2, EndProcessTyped DEF ExitOk, TypeOK
<1>3. CASE AlarmRings(d)
    <2>1. faults' \in 0..MaxFaults
        BY <1>3, FaultTyped DEF AlarmRings
    <2>2. CASE EndProcess(d)
        BY <1>3, <2>1, <2>2, EndProcessTyped DEF AlarmRings, TypeOK
    <2>3. CASE alarm' = [alarm EXCEPT ![d] = "spent"] /\ UNCHANGED <<pc, localVars>>
        BY <1>3, <2>1, <2>3
        DEF AlarmRings, TypeOK, ProcessInv, HasCur, Own, inputVars, s3Vars, localVars
    <2> QED BY <1>3, <2>2, <2>3 DEF AlarmRings
<1>4. CASE DeleteEventsFile(d)
    <2>1. fileExists' = FALSE \/ fileExists' = fileExists
        BY <1>4 DEF DeleteEventsFile
    <2>2. fileExists' \in BOOLEAN
        BY <2>1, Zenon DEF TypeOK
    <2>3. TypeOK'
        BY <1>4, <2>2 DEF DeleteEventsFile, Goto, TypeOK, Label, inputVars, s3Vars, localVars
    <2>4. ProcessInv'
        BY <1>4 DEF DeleteEventsFile, Goto, TypeOK, ProcessInv, HasCur, Own, localVars
    <2> QED BY <2>3, <2>4
<1>5. CASE StartupBounce(d)
    <2>1. faults' \in 0..MaxFaults
        BY <1>5, FaultTyped DEF StartupBounce
    <2> QED BY <1>5, <2>1 DEF StartupBounce, TypeOK, ProcessInv, HasCur, Own, inputVars,
                              s3Vars, localVars
<1>6. CASE Expire(d)
    BY <1>6 DEF Expire, TypeOK, ProcessInv, HasCur, Own, inputVars, s3Vars, localVars
<1> QED BY <1>1, <1>2, <1>3, <1>4, <1>5, <1>6

LEMMA StutterTyped ==
    ASSUME TypeOK, ProcessInv, UNCHANGED vars
    PROVE  TypeOK' /\ ProcessInv'
BY DEF vars, TypeOK, ProcessInv, HasCur, Own, inputVars, s3Vars, localVars

LEMMA VisitPartTyped ==
    ASSUME TypeOK, ProcessInv, NEW d \in Delivery, VisitPart(d)
    PROVE  TypeOK' /\ ProcessInv'
<1>1. PICK part \in todo[d] : \E first \in part.rcpts, uploaded \in BOOLEAN :
        Prepare(d, part, first, uploaded) \/ PolicyCrash(d, part, first, uploaded)
    BY DEF VisitPart
<1>2. PICK first \in part.rcpts, uploaded \in BOOLEAN :
        Prepare(d, part, first, uploaded) \/ PolicyCrash(d, part, first, uploaded)
    BY <1>1
<1>3. CASE Prepare(d, part, first, uploaded)
    BY <1>3, PrepareTyped
<1>4. CASE PolicyCrash(d, part, first, uploaded)
    <2>1. faults' \in 0..MaxFaults
        BY <1>4, FaultTyped DEF PolicyCrash, TypeOK
    <2> QED BY <1>4, <2>1, EndProcessTyped DEF PolicyCrash, TypeOK
<1> QED BY <1>2, <1>3, <1>4

LEMMA NextTyped == TypeOK /\ ProcessInv /\ [Next]_vars => TypeOK' /\ ProcessInv'
<1> SUFFICES ASSUME TypeOK, ProcessInv, [Next]_vars PROVE TypeOK' /\ ProcessInv'
    OBVIOUS
<1>1. ASSUME NEW d \in Delivery, Step(d) PROVE TypeOK' /\ ProcessInv'
    BY <1>1, InvokeTyped, SplitTyped, VisitPartTyped, UploadMessageTyped,
       UploadMetadataTyped, PublishTyped, PostEventsTyped, EndsTyped DEF Step
<1>2. ASSUME NEW d \in Delivery,
             TempFail(d) \/ AlarmRings(d) \/ StartupBounce(d) \/ Expire(d)
      PROVE  TypeOK' /\ ProcessInv'
    BY <1>2, EndsTyped
<1>3. CASE UNCHANGED vars
    BY <1>3, StutterTyped
<1> QED BY <1>1, <1>2, <1>3 DEF Next

\* Every variable of the producer keeps its type, whatever fails and whoever
\* runs at the same time.
THEOREM TypeCorrect == Spec => []TypeOK
<1>1. Spec => [](TypeOK /\ ProcessInv)
    BY InitTyped, NextTyped, PTL DEF Spec
<1> QED BY <1>1, PTL

-----------------------------------------------------------------------------
(***************************************************************************)
(* The documents of the jobs, and jobs sent once.                          *)
(***************************************************************************)

\* A step that sends nothing, stores no METADATA and starts no job: it may drop
\* what a process holds, and it may store a MESSAGE.
Quiet ==
    /\ UNCHANGED <<metadata, sqs, attempt>>
    /\ messages \subseteq messages'
    /\ \A d \in Delivery :
        /\ batch'[d] \subseteq batch[d]
        /\ todo'[d] \subseteq todo[d]
        /\ HasCur(d)' => HasCur(d) /\ cur'[d] = cur[d]
        /\ pc'[d] = "metadata" => pc[d] = "metadata" \/ cur[d].id.path \in messages'
        /\ pc'[d] = "split" => pc[d] = "split"

LEMMA QuietKeeps ==
    ASSUME TypeOK, ProcessInv, DocumentInv, FreshInv, Quiet
    PROVE  DocumentInv' /\ FreshInv'
<1>1. DocumentInv'
    <2>1. \A d \in Delivery : pc'[d] = "metadata" => cur'[d].id.path \in messages'
        BY DEF Quiet, DocumentInv, HasCur
    <2>2. \A d \in Delivery : \A job \in batch'[d] :
            job.id.path \in messages' /\ metadata'[job.id.path].attempt >= attempt'[d]
        BY DEF Quiet, DocumentInv
    <2>3. JobDocumentsStored'
        BY DEF Quiet, DocumentInv, JobDocumentsStored
    <2> QED BY <2>1, <2>2, <2>3 DEF DocumentInv, Quiet
<1>2. FreshInv'
    <2>1. NoJobSentTwice'
        BY DEF Quiet, FreshInv, NoJobSentTwice
    <2> QED BY <2>1 DEF Quiet, FreshInv, Unused, StampOf
<1> QED BY <1>1, <1>2

LEMMA QuietSteps ==
    ASSUME TypeOK, ProcessInv, NEW d \in Delivery,
           \/ \E part \in todo[d] : \E first \in part.rcpts, uploaded \in BOOLEAN :
                PolicyCrash(d, part, first, uploaded)
           \/ UploadMessage(d) \/ PostEvents(d) \/ DeleteEventsFile(d) \/ ExitOk(d)
           \/ TempFail(d) \/ AlarmRings(d) \/ StartupBounce(d) \/ Expire(d)
    PROVE  Quiet
<1> USE DEF TypeOK, Quiet, HasCur, s3Vars, localVars
<1>1. ASSUME EndProcess(d), UNCHANGED <<s3Vars, sqs, attempt>>
      PROVE  Quiet
    BY <1>1 DEF EndProcess, Goto
<1>2. ASSUME NEW part \in todo[d], NEW first \in part.rcpts, NEW uploaded \in BOOLEAN,
             PolicyCrash(d, part, first, uploaded)
      PROVE  Quiet
    BY <1>1, <1>2 DEF PolicyCrash
<1>3. CASE UploadMessage(d)
    BY <1>3 DEF UploadMessage, StoreMessage, Goto
<1>4. CASE PostEvents(d)
    BY <1>4 DEF PostEvents, Goto
<1>5. CASE DeleteEventsFile(d)
    BY <1>5 DEF DeleteEventsFile, Goto
<1>6. CASE ExitOk(d) \/ TempFail(d)
    BY <1>1, <1>6 DEF ExitOk, TempFail
<1>7. CASE AlarmRings(d)
    BY <1>1, <1>7 DEF AlarmRings
<1>8. CASE StartupBounce(d) \/ Expire(d)
    BY <1>8 DEF StartupBounce, Expire
<1> QED BY <1>2, <1>3, <1>4, <1>5, <1>6, <1>7, <1>8

\* A new attempt numbers its jobs higher than any job that was sent before.
LEMMA InvokeKeeps ==
    ASSUME IInv, NEW d \in Delivery, Invoke(d)
    PROVE  DocumentInv' /\ FreshInv'
<1> USE DEF IInv
<1>1. /\ attempt' = [attempt EXCEPT ![d] = @ + 1]
      /\ \E label \in {"exit", "split"} : pc' = [pc EXCEPT ![d] = label]
      /\ pc[d] = "idle" /\ batch[d] = {} /\ todo[d] = {}
      /\ UNCHANGED <<messages, metadata, sqs, todo, cur, batch>>
    BY DEF Invoke, Goto, ProcessInv, s3Vars
<1>2. \A e \in Delivery : attempt[e] \in Nat /\ attempt'[e] \in Nat /\ attempt[e] <= attempt'[e]
    BY <1>1, BoundAssumption DEF TypeOK
<1>3. \A s \in sqs :
        /\ s.id.path \in Path /\ s.id.path.domain \in Delivery /\ s.id.attempt \in Nat
        /\ metadata[s.id.path].attempt \in Nat
        /\ s.id.attempt <= attempt[s.id.path.domain]
    <2> TAKE s \in sqs
    <2>1. s.id \in Stamp
        BY DEF TypeOK, SentJob
    <2>2. s.id.path \in Path /\ s.id.attempt \in Nat
        BY <2>1 DEF Stamp
    <2>3. s.id.path.domain \in Delivery /\ metadata[s.id.path].attempt \in Nat
        BY <2>2 DEF TypeOK, Path
    <2>4. /\ metadata[s.id.path].attempt >= s.id.attempt
          /\ metadata[s.id.path].attempt <= attempt[s.id.path.domain]
        BY <2>2 DEF DocumentInv, JobDocumentsStored
    <2> QED BY <1>2, <2>2, <2>3, <2>4
<1>4. DocumentInv'
    <2>1. \A p \in Path : metadata'[p].attempt <= attempt'[p.domain]
        <3> TAKE p \in Path
        <3>1. p.domain \in Delivery /\ metadata[p].attempt \in Nat
            BY DEF TypeOK, Path
        <3>2. metadata[p].attempt <= attempt[p.domain]
            BY DEF DocumentInv
        <3> QED BY <1>1, <1>2, <3>1, <3>2
    <2>2. \A e \in Delivery :
            /\ pc'[e] = "metadata" => cur'[e].id.path \in messages'
            /\ \A job \in batch'[e] :
                job.id.path \in messages' /\ metadata'[job.id.path].attempt >= attempt'[e]
        BY <1>1 DEF TypeOK, DocumentInv
    <2> QED BY <1>1, <2>1, <2>2 DEF DocumentInv, JobDocumentsStored
<1>5. ASSUME NEW e \in Delivery, pc'[e] = "split", NEW s \in sqs', s.id.path.domain = e
      PROVE  s.id.attempt < attempt'[e]
    <2>1. CASE e = d
        BY <1>1, <1>2, <1>3, <1>5, <2>1 DEF TypeOK
    <2>2. CASE e # d
        BY <1>1, <1>5, <2>2 DEF TypeOK, FreshInv
    <2> QED BY <2>1, <2>2
<1>6. ASSUME NEW e \in Delivery
      PROVE  /\ HasCur(e)' => Unused(e, cur[e].id)'
             /\ \A part \in todo'[e] :
                 /\ Unused(e, StampOf(e, part.key))'
                 /\ HasCur(e)' => cur'[e].id # StampOf(e, part.key)'
                 /\ \A other \in todo'[e] : other.key = part.key => other = part
             /\ \A job \in batch'[e], other \in batch'[e] : other.id = job.id => other = job
    <2>1. CASE e = d
        BY <1>1, <2>1 DEF TypeOK, HasCur
    <2>2. CASE e # d
        BY <1>1, <2>2 DEF TypeOK, FreshInv, HasCur, Unused, StampOf
    <2> QED BY <2>1, <2>2
<1>7. NoJobSentTwice'
    BY <1>1 DEF FreshInv, NoJobSentTwice
<1> QED BY <1>4, <1>5, <1>6, <1>7 DEF FreshInv

\* Before it splits, the attempt has no job at all.
LEMMA SplitKeeps ==
    ASSUME IInv, NEW d \in Delivery, Split(d)
    PROVE  DocumentInv' /\ FreshInv'
<1> USE DEF IInv
<1>1. PICK parts \in Splits(d) :
        /\ todo' = [todo EXCEPT ![d] = parts]
        /\ pc[d] = "split" /\ pc' = [pc EXCEPT ![d] = "prepare"]
        /\ batch[d] = {}
        /\ UNCHANGED <<messages, metadata, sqs, attempt, cur, batch>>
    BY DEF Split, Goto, ProcessInv, s3Vars
<1>2. IsSplit(parts)
    BY SplitsAreSplits DEF TypeOK
<1>3. DocumentInv'
    BY <1>1 DEF TypeOK, DocumentInv, JobDocumentsStored
<1>4. ASSUME NEW part \in parts
      PROVE  Unused(d, StampOf(d, part.key))'
    <2>1. \A s \in sqs : s.id.path.domain = d => s.id.attempt < attempt[d]
        BY <1>1 DEF FreshInv
    <2>2. \A s \in sqs : s.id # StampOf(d, part.key)
        BY <2>1 DEF TypeOK, StampOf, PathOf, SentJob, Stamp
    <2> QED BY <1>1, <2>2 DEF Unused, StampOf
<1>5. ASSUME NEW e \in Delivery, NEW part \in todo'[e]
      PROVE  /\ Unused(e, StampOf(e, part.key))'
             /\ HasCur(e)' => cur'[e].id # StampOf(e, part.key)'
             /\ \A other \in todo'[e] : other.key = part.key => other = part
    <2>1. CASE e = d
        BY <1>1, <1>2, <1>4, <2>1 DEF TypeOK, HasCur, IsSplit
    <2>2. CASE e # d
        BY <1>1, <2>2 DEF TypeOK, FreshInv, HasCur, Unused, StampOf
    <2> QED BY <2>1, <2>2
<1>6. FreshInv'
    <2>1. NoJobSentTwice'
        BY <1>1 DEF FreshInv, NoJobSentTwice
    <2>2. \A e \in Delivery :
            /\ pc'[e] = "split" => pc[e] = "split"
            /\ HasCur(e)' => HasCur(e)
        BY <1>1 DEF TypeOK, HasCur
    <2> QED BY <1>1, <1>5, <2>1, <2>2 DEF FreshInv, Unused
<1> QED BY <1>3, <1>6

LEMMA PrepareKeeps ==
    ASSUME IInv, NEW d \in Delivery, NEW part \in todo[d], NEW first \in part.rcpts,
           NEW uploaded \in BOOLEAN, Prepare(d, part, first, uploaded)
    PROVE  DocumentInv' /\ FreshInv'
<1> USE DEF IInv
<1>1. PICK job :
        /\ job.id = StampOf(d, part.key)
        /\ pc[d] = "prepare" /\ pc' = [pc EXCEPT ![d] = "message"]
        /\ todo' = [todo EXCEPT ![d] = @ \ {part}]
        /\ cur' = [cur EXCEPT ![d] = job]
        /\ UNCHANGED <<messages, metadata, sqs, attempt, batch>>
    <2> DEFINE j == [id |-> StampOf(d, part.key), rcpts |-> part.rcpts,
                     ctx |-> MessageContext(d, first, uploaded)]
    <2>1. j.id = StampOf(d, part.key) /\ cur' = [cur EXCEPT ![d] = j]
        BY DEF Prepare, StampOf
    <2> HIDE DEF j
    <2> QED BY <2>1 DEF Prepare, Goto
<1>2. DocumentInv'
    BY <1>1 DEF TypeOK, DocumentInv, JobDocumentsStored
<1>3. ASSUME NEW e \in Delivery
      PROVE  /\ pc'[e] = "split" => pc[e] = "split"
             /\ HasCur(e)' => Unused(e, cur[e].id)'
    BY <1>1, <1>3 DEF TypeOK, FreshInv, HasCur, Unused
<1>4. ASSUME NEW e \in Delivery, NEW p \in todo'[e]
      PROVE  /\ Unused(e, StampOf(e, p.key))'
             /\ HasCur(e)' => cur'[e].id # StampOf(e, p.key)'
             /\ \A other \in todo'[e] : other.key = p.key => other = p
    <2>1. CASE e = d
        <3>1. p \in todo[d] /\ p # part
            BY <1>1, <2>1 DEF TypeOK
        <3>2. p.key # part.key
            BY <3>1 DEF FreshInv
        <3>3. StampOf(d, p.key) # StampOf(d, part.key)
            BY <3>2 DEF StampOf, PathOf
        <3> QED BY <1>1, <2>1, <3>1, <3>3 DEF TypeOK, FreshInv, Unused, StampOf
    <2>2. CASE e # d
        BY <1>1, <2>2 DEF TypeOK, FreshInv, HasCur, Unused, StampOf
    <2> QED BY <2>1, <2>2
<1>5. NoJobSentTwice'
    BY <1>1 DEF FreshInv, NoJobSentTwice
<1>6. FreshInv'
    BY <1>1, <1>3, <1>4, <1>5 DEF FreshInv
<1> QED BY <1>2, <1>6

\* METADATA is overwritten by the newest attempt only.
LEMMA UploadMetadataKeeps ==
    ASSUME IInv, NEW d \in Delivery, UploadMetadata(d)
    PROVE  DocumentInv' /\ FreshInv'
<1> USE DEF IInv
<1> DEFINE job == cur[d]
           path == job.id.path
           stored == [attempt |-> job.id.attempt, rcpts |-> job.rcpts]
<1>1. /\ pc[d] = "metadata"
      /\ metadata' = [metadata EXCEPT ![path] = stored]
      /\ batch' = [batch EXCEPT ![d] = @ \cup {job}]
      /\ \E label \in {"publish", "prepare"} : pc' = [pc EXCEPT ![d] = label]
      /\ UNCHANGED <<messages, sqs, attempt, todo>>
      /\ cur' = [cur EXCEPT ![d] = NoJob]
    BY DEF UploadMetadata, AfterUpload, Goto
<1>2. Own(d, job)
    BY <1>1 DEF ProcessInv, HasCur
<1>3. /\ path \in Path /\ path.domain = d /\ path \in messages
      /\ stored.attempt = attempt[d] /\ attempt[d] \in Nat
    BY <1>1, <1>2, BoundAssumption DEF Own, Job, Stamp, DocumentInv, TypeOK
<1>4. Unused(d, job.id)
    BY <1>1 DEF FreshInv, HasCur
<1> HIDE DEF job, path, stored
<1>5. \A p \in Path :
        /\ metadata[p].attempt \in Nat /\ attempt[p.domain] \in Nat
        /\ metadata[p].attempt <= metadata'[p].attempt
        /\ metadata'[p].attempt <= attempt[p.domain]
    <2> TAKE p \in Path
    <2>0. p.domain \in Delivery /\ metadata[p].attempt \in Nat
        BY DEF TypeOK, Path
    <2>1. attempt[p.domain] \in Nat /\ metadata[p].attempt <= attempt[p.domain]
        BY <2>0, BoundAssumption DEF TypeOK, DocumentInv
    <2>2. CASE p = path
        BY <1>1, <1>3, <2>0, <2>1, <2>2 DEF TypeOK
    <2>3. CASE p # path
        BY <1>1, <2>0, <2>1, <2>3 DEF TypeOK
    <2> QED BY <2>0, <2>1, <2>2, <2>3
<1>6. DocumentInv'
    <2>1. JobDocumentsStored'
        <3> SUFFICES ASSUME NEW s \in sqs
                     PROVE  /\ s.id.path \in messages
                            /\ metadata'[s.id.path].attempt >= s.id.attempt
            BY <1>1 DEF JobDocumentsStored
        <3>1. s.id.path \in Path /\ s.id.attempt \in Nat
            BY DEF TypeOK, SentJob, Stamp
        <3>2. s.id.path \in messages /\ metadata[s.id.path].attempt >= s.id.attempt
            BY DEF DocumentInv, JobDocumentsStored
        <3>3. metadata'[s.id.path].attempt \in Nat
            BY <1>1, <1>3, <3>1 DEF TypeOK, stored
        <3> QED BY <1>5, <3>1, <3>2, <3>3
    <2>2. ASSUME NEW e \in Delivery, NEW k \in batch'[e]
          PROVE  /\ k.id.path \in messages
                 /\ metadata'[k.id.path].attempt >= attempt[e]
        <3>1. CASE k \in batch[e]
            <4>1. k.id.path \in Path /\ attempt[e] \in Nat
                BY <3>1, BoundAssumption DEF TypeOK, Job, Stamp
            <4>2. k.id.path \in messages /\ metadata[k.id.path].attempt >= attempt[e]
                BY <3>1 DEF DocumentInv
            <4>3. metadata'[k.id.path].attempt \in Nat
                BY <1>1, <1>3, <4>1 DEF TypeOK, stored
            <4> QED BY <1>5, <4>1, <4>2, <4>3
        <3>2. CASE k = job /\ e = d
            BY <1>1, <1>3, <3>2 DEF TypeOK, path
        <3> QED BY <1>1, <2>2, <3>1, <3>2 DEF TypeOK
    <2>3. ASSUME NEW e \in Delivery, pc'[e] = "metadata"
          PROVE  cur'[e].id.path \in messages
        BY <1>1, <2>3 DEF TypeOK, DocumentInv
    <2> QED BY <1>1, <1>5, <2>1, <2>2, <2>3 DEF DocumentInv
<1>7. ASSUME NEW e \in Delivery
      PROVE  /\ pc'[e] = "split" => pc[e] = "split"
             /\ HasCur(e)' => Unused(e, cur[e].id)'
             /\ \A k \in batch'[e], other \in batch'[e] : other.id = k.id => other = k
             /\ \A k \in batch'[e], s \in sqs : s.id # k.id
    <2>1. CASE e = d
        BY <1>1, <1>4, <2>1 DEF TypeOK, FreshInv, HasCur, Unused, NoJobSentTwice
    <2>2. CASE e # d
        BY <1>1, <2>2 DEF TypeOK, FreshInv, HasCur, Unused, NoJobSentTwice
    <2> QED BY <2>1, <2>2
<1>8. ASSUME NEW e \in Delivery, NEW p \in todo[e]
      PROVE  /\ Unused(e, StampOf(e, p.key))'
             /\ HasCur(e)' => cur'[e].id # StampOf(e, p.key)'
    <2>1. CASE e = d
        <3>1. job.id # StampOf(d, p.key)
            BY <1>1, <2>1 DEF FreshInv, HasCur, job
        <3> QED BY <1>1, <2>1, <3>1 DEF TypeOK, FreshInv, HasCur, Unused, StampOf
    <2>2. CASE e # d
        BY <1>1, <2>2 DEF TypeOK, FreshInv, HasCur, Unused, StampOf
    <2> QED BY <2>1, <2>2
<1>9. FreshInv'
    BY <1>1, <1>7, <1>8 DEF FreshInv, NoJobSentTwice
<1> QED BY <1>6, <1>9

LEMMA PublishKeeps ==
    ASSUME IInv, NEW d \in Delivery, Publish(d)
    PROVE  DocumentInv' /\ FreshInv'
<1> USE DEF IInv
<1>1. PICK job \in batch[d] :
        /\ pc[d] = "publish"
        /\ sqs' = sqs \cup {Serialised(d, job)}
        /\ batch' = [batch EXCEPT ![d] = @ \ {job}]
        /\ \E label \in {"publish", "prepare", "post"} : pc' = [pc EXCEPT ![d] = label]
        /\ UNCHANGED <<messages, metadata, attempt, todo, cur>>
    BY DEF Publish, Send, Unsent, Goto, s3Vars
<1>2. PICK sent : sent = Serialised(d, job)
    OBVIOUS
<1>3. sent.id = job.id /\ sqs' = sqs \cup {sent}
    BY <1>1, <1>2, SerialisedTyped DEF ProcessInv
<1>4. /\ job.id.path.domain = d /\ job.id.attempt = attempt[d]
      /\ job.id.path \in messages /\ metadata[job.id.path].attempt >= attempt[d]
    BY <1>1 DEF ProcessInv, Own, DocumentInv
<1>5. DocumentInv'
    <2>1. JobDocumentsStored'
        BY <1>1, <1>3, <1>4 DEF DocumentInv, JobDocumentsStored
    <2> QED BY <1>1, <2>1 DEF TypeOK, DocumentInv
<1>6. ASSUME NEW e \in Delivery
      PROVE  /\ pc'[e] = "split" => pc[e] = "split"
             /\ pc'[e] = "split" => e # d
             /\ HasCur(e)' => HasCur(e)
             /\ HasCur(e) => e # d
    BY <1>1 DEF TypeOK, HasCur
<1>7. ASSUME NEW e \in Delivery, NEW k \in batch'[e], NEW s \in sqs'
      PROVE  s.id # k.id
    <2>1. CASE e = d
        BY <1>1, <1>3, <2>1 DEF TypeOK, FreshInv, NoJobSentTwice
    <2>2. CASE e # d
        <3>1. k \in batch[e] /\ k.id.path.domain = e
            BY <1>1, <2>2 DEF TypeOK, ProcessInv, Own
        <3> QED BY <1>3, <1>4, <2>2, <3>1 DEF FreshInv, NoJobSentTwice
    <2> QED BY <2>1, <2>2
<1>8. ASSUME NEW e \in Delivery, NEW p \in todo[e]
      PROVE  Unused(e, StampOf(e, p.key))'
    <2>1. Unused(e, StampOf(e, p.key))
        BY DEF FreshInv
    <2>2. sent.id # StampOf(e, p.key)
        BY <1>1, <1>3, <1>4, <2>1 DEF Unused, StampOf, PathOf
    <2> QED BY <1>1, <1>3, <2>1, <2>2 DEF TypeOK, Unused, StampOf
<1>9. ASSUME NEW e \in Delivery, HasCur(e)
      PROVE  Unused(e, cur[e].id)'
    <2>1. Unused(e, cur[e].id) /\ cur[e].id.path.domain = e
        BY <1>9 DEF FreshInv, ProcessInv, Own
    <2> QED BY <1>1, <1>3, <1>4, <1>6, <1>9, <2>1 DEF TypeOK, Unused
<1>10. ASSUME NEW e \in Delivery, pc'[e] = "split", NEW s \in sqs', s.id.path.domain = e
       PROVE  s.id.attempt < attempt[e]
    BY <1>3, <1>4, <1>6, <1>10 DEF FreshInv
<1>11. FreshInv'
    <2>1. \A e \in Delivery : \A p \in todo'[e] :
            HasCur(e)' => cur'[e].id # StampOf(e, p.key)'
        BY <1>1, <1>6 DEF FreshInv, StampOf
    <2>2. \A e \in Delivery : batch'[e] \subseteq batch[e]
        BY <1>1 DEF TypeOK
    <2>3. \A e \in Delivery : \A k \in batch'[e], other \in batch'[e] :
            other.id = k.id => other = k
        BY <2>2 DEF FreshInv
    <2>4. NoJobSentTwice'
        BY <1>7 DEF NoJobSentTwice
    <2>5. \A e \in Delivery : \A p \in todo'[e], other \in todo'[e] :
            other.key = p.key => other = p
        BY <1>1 DEF FreshInv
    <2> QED BY <1>1, <1>6, <1>8, <1>9, <1>10, <2>1, <2>3, <2>4, <2>5 DEF FreshInv
<1> QED BY <1>5, <1>11

\* Init satisfies the inductive invariant and every step keeps it.
LEMMA InductiveInvariant == Spec => []IInv
<1>1. Init => IInv
    <2> SUFFICES ASSUME Init PROVE IInv
        OBVIOUS
    <2>1. DocumentInv
        BY DEF Init, DocumentInv, JobDocumentsStored, NoMetadata, Path
    <2>2. FreshInv
        BY DEF Init, FreshInv, NoJobSentTwice, HasCur
    <2> QED BY <2>1, <2>2, InitTyped DEF IInv
<1>2. IInv /\ [Next]_vars => IInv'
    <2> SUFFICES ASSUME IInv, [Next]_vars PROVE IInv'
        OBVIOUS
    <2>1. TypeOK' /\ ProcessInv'
        BY NextTyped DEF IInv
    <2>2. ASSUME NEW d \in Delivery, VisitPart(d) PROVE DocumentInv' /\ FreshInv'
        <3>1. PICK part \in todo[d] : \E first \in part.rcpts, uploaded \in BOOLEAN :
                Prepare(d, part, first, uploaded) \/ PolicyCrash(d, part, first, uploaded)
            BY <2>2 DEF VisitPart
        <3>2. CASE \E first \in part.rcpts, uploaded \in BOOLEAN :
                    Prepare(d, part, first, uploaded)
            BY <3>2, PrepareKeeps
        <3>3. CASE \E first \in part.rcpts, uploaded \in BOOLEAN :
                    PolicyCrash(d, part, first, uploaded)
            BY <3>3, QuietSteps, QuietKeeps DEF IInv
        <3> QED BY <3>1, <3>2, <3>3
    <2>3. ASSUME NEW d \in Delivery, Step(d) PROVE DocumentInv' /\ FreshInv'
        <3>1. CASE UploadMessage(d) \/ PostEvents(d) \/ DeleteEventsFile(d) \/ ExitOk(d)
            BY <3>1, QuietSteps, QuietKeeps DEF IInv
        <3> QED BY <2>2, <2>3, <3>1, InvokeKeeps, SplitKeeps, UploadMetadataKeeps,
                   PublishKeeps DEF Step
    <2>4. ASSUME NEW d \in Delivery,
                 TempFail(d) \/ AlarmRings(d) \/ StartupBounce(d) \/ Expire(d)
          PROVE  DocumentInv' /\ FreshInv'
        BY <2>4, QuietSteps, QuietKeeps DEF IInv
    <2>5. CASE UNCHANGED vars
        <3>1. Quiet
            BY <2>5 DEF Quiet, HasCur, vars, s3Vars, localVars
        <3> QED BY <2>1, <3>1, QuietKeeps DEF IInv
    <2> QED BY <2>1, <2>3, <2>4, <2>5 DEF Next, IInv
<1> QED BY <1>1, <1>2, PTL DEF Spec

\* upload_documents comes before the job joins the batch and a retry overwrites
\* with its own: every job in the queue leads to documents at least as new as it.
THEOREM DocumentsOfJobs == Spec => []JobDocumentsStored
<1>1. IInv => JobDocumentsStored
    BY DEF IInv, DocumentInv
<1> QED BY <1>1, InductiveInvariant, PTL

\* The list of unsent jobs is emptied after each batch: an attempt sends the job
\* of a part once, however the parts fall into batches of SQS_BATCH_SIZE.
THEOREM JobsAreSentOnce == Spec => []NoJobSentTwice
<1>1. IInv => NoJobSentTwice
    BY DEF IInv, FreshInv
<1> QED BY <1>1, InductiveInvariant, PTL

-----------------------------------------------------------------------------
(***************************************************************************)
(* No mail is lost.                                                        *)
(***************************************************************************)

\* Under a user split one address of a user stands for the others.
StandsFor(d, q, r) ==
    \/ q = r
    \/ UserSplit /\ q \in rcptsOf[d] /\ OwnerOf[q] = OwnerOf[r]

\* The running attempt on d has q still to do, in work, in its batch, or sent.
Reached(d, q) ==
    \/ \E part \in todo[d] : q \in part.rcpts
    \/ HasCur(d) /\ q \in cur[d].rcpts
    \/ \E job \in batch[d] : q \in metadata[job.id.path].rcpts
    \/ \E s \in sqs : /\ s.id.path.domain = d /\ s.id.attempt = attempt[d]
                      /\ q \in metadata[s.id.path].rcpts

\* A job of d in the queue leads to q.
HandedBy(d, q) ==
    \E s \in sqs : s.id.path.domain = d /\ q \in metadata[s.id.path].rcpts

\* No accepted recipient drops out of an attempt, and what a finished attempt
\* handed over stays so.
Cover(d) ==
    /\ pc[d] # "idle" =>
        rcptsOf[d] \ rejected \subseteq accepted[d] /\ accepted[d] \subseteq rcptsOf[d]
    /\ pc[d] \notin {"idle", "split"} =>
        \A r \in accepted[d] : \E q \in Recipient : StandsFor(d, q, r) /\ Reached(d, q)
    /\ pc[d] \in {"post", "cleanup", "exit"} => todo[d] = {} /\ batch[d] = {}
    /\ status[d] = "sent" =>
        /\ pc[d] = "idle"
        /\ \A r \in rcptsOf[d] \ rejected :
            \E q \in Recipient : StandsFor(d, q, r) /\ HandedBy(d, q)

CoverInv == \A d \in Delivery : Cover(d)

\* What a step of d leaves to the other deliveries.
Only(d) ==
    /\ rejected' = rejected /\ sqs \subseteq sqs'
    /\ \A p \in Path : p.domain # d => metadata'[p] = metadata[p]
    /\ \A e \in Delivery \ {d} :
        /\ status'[e] = status[e] /\ pc'[e] = pc[e] /\ accepted'[e] = accepted[e]
        /\ todo'[e] = todo[e] /\ cur'[e] = cur[e] /\ batch'[e] = batch[e]
        /\ attempt'[e] = attempt[e]

LEMMA OthersCovered ==
    ASSUME IInv, CoverInv, NEW d \in Delivery, Only(d), NEW e \in Delivery, e # d
    PROVE  Cover(e)'
<1> USE DEF IInv
<1>1. Cover(e)
    BY DEF CoverInv
<1>2. /\ rejected' = rejected /\ status'[e] = status[e] /\ pc'[e] = pc[e]
      /\ accepted'[e] = accepted[e] /\ todo'[e] = todo[e] /\ cur'[e] = cur[e]
      /\ batch'[e] = batch[e] /\ attempt'[e] = attempt[e] /\ sqs \subseteq sqs'
    BY DEF Only
<1>3. \A s \in sqs : s.id.path.domain = e => metadata'[s.id.path] = metadata[s.id.path]
    BY DEF Only, TypeOK, SentJob, Stamp
<1>4. \A job \in batch[e] : metadata'[job.id.path] = metadata[job.id.path]
    BY DEF Only, ProcessInv, Own, Job, Stamp
<1>5. ASSUME NEW q, Reached(e, q) PROVE Reached(e, q)'
    BY <1>2, <1>3, <1>4, <1>5 DEF Reached, HasCur
<1>6. ASSUME NEW q, HandedBy(e, q) PROVE HandedBy(e, q)'
    BY <1>2, <1>3, <1>6 DEF HandedBy
<1> QED BY <1>1, <1>2, <1>5, <1>6 DEF Cover, StandsFor

\* The process of d ends without success, or was not running.
LEMMA EndCovered ==
    ASSUME IInv, CoverInv, NEW d \in Delivery, status[d] # "sent",
           \/ EndProcess(d) /\ UNCHANGED status
           \/ /\ pc[d] = "idle" /\ UNCHANGED <<pc, attempt, localVars>>
              /\ \E s \in {"bounced", "expired"} : status' = [status EXCEPT ![d] = s],
           UNCHANGED <<rejected, metadata, sqs, attempt>>
    PROVE  CoverInv'
<1> USE DEF IInv
<1>1. pc'[d] = "idle" /\ status'[d] # "sent"
    BY DEF EndProcess, Goto, TypeOK
<1>2. Cover(d)'
    BY <1>1 DEF Cover
<1>3. Only(d)
    BY DEF Only, EndProcess, Goto, TypeOK, localVars
<1> QED BY <1>2, <1>3, OthersCovered DEF CoverInv

LEMMA InvokeCovers ==
    ASSUME IInv, CoverInv, NEW d \in Delivery, Invoke(d)
    PROVE  CoverInv'
<1> USE DEF IInv
<1>1. PICK R \in {rcptsOf[d] \ rejected, rcptsOf[d]} :
        /\ pc[d] = "idle" /\ status[d] = "queued"
        /\ accepted' = [accepted EXCEPT ![d] = R]
        /\ pc' = [pc EXCEPT ![d] = IF R = {} THEN "exit" ELSE "split"]
        /\ attempt' = [attempt EXCEPT ![d] = @ + 1]
        /\ UNCHANGED <<rejected, status, metadata, sqs, todo, cur, batch>>
    BY DEF Invoke, Goto, inputVars, s3Vars
<1>2. todo[d] = {} /\ batch[d] = {}
    BY <1>1 DEF ProcessInv
<1>3. Cover(d)'
    BY <1>1, <1>2 DEF TypeOK, Cover
<1>4. Only(d)
    BY <1>1 DEF Only, TypeOK
<1> QED BY <1>3, <1>4, OthersCovered DEF CoverInv

\* Every way to split has a part for each accepted recipient or for its stand-in.
LEMMA SplitsCover ==
    ASSUME NEW d \in Delivery, accepted[d] \in SUBSET Recipient,
           accepted[d] \subseteq rcptsOf[d],
           NEW parts \in Splits(d), NEW r \in accepted[d]
    PROVE  \E q \in Recipient : StandsFor(d, q, r) /\ \E part \in parts : q \in part.rcpts
<1> SUFFICES \E q \in accepted[d] :
                StandsFor(d, q, r) /\ \E part \in parts : q \in part.rcpts
    OBVIOUS
<1>1. ASSUME NEW f, parts = GroupBy(f, accepted[d])
      PROVE  \E part \in parts : r \in part.rcpts
    <2>1. Part(f[r], {q \in accepted[d] : f[q] = f[r]}) \in parts
        BY <1>1 DEF GroupBy
    <2> QED BY <2>1 DEF Part
<1>2. CASE parts = OutboundParts(accepted[d])
    <2>1. Part(r, {r}) \in parts
        BY <1>2 DEF OutboundParts
    <2> QED BY <2>1 DEF Part, StandsFor
<1>3. CASE parts = BaseParts(accepted[d])
    <2>1. Part(BaseKey, accepted[d]) \in parts
        BY <1>3 DEF BaseParts
    <2> QED BY <2>1 DEF Part, StandsFor
<1>4. CASE parts = MsgHistoryParts(accepted[d]) \/ parts \in PolicyParts(accepted[d])
    BY <1>1, <1>4 DEF MsgHistoryParts, PolicyParts, StandsFor
<1>5. CASE UserSplit /\ parts \in UserParts(accepted[d])
    <2> DEFINE Owners == {OwnerOf[q] : q \in accepted[d]}
    <2>1. PICK f \in [Owners -> accepted[d]] :
            /\ parts = {Part(o, {f[o]}) : o \in Owners}
            /\ \A o \in Owners : OwnerOf[f[o]] = o
        BY <1>5 DEF UserParts
    <2>2. OwnerOf[r] \in Owners
        OBVIOUS
    <2> HIDE DEF Owners
    <2>3. f[OwnerOf[r]] \in accepted[d] /\ OwnerOf[f[OwnerOf[r]]] = OwnerOf[r]
        BY <2>1, <2>2
    <2>4. Part(OwnerOf[r], {f[OwnerOf[r]]}) \in parts
        BY <2>1, <2>2
    <2> QED BY <1>5, <2>3, <2>4 DEF Part, StandsFor
<1> QED BY <1>2, <1>3, <1>4, <1>5 DEF Splits, FallbackSplits

LEMMA SplitCovers ==
    ASSUME IInv, CoverInv, NEW d \in Delivery, Split(d)
    PROVE  CoverInv'
<1> USE DEF IInv
<1>1. PICK parts \in Splits(d) :
        /\ todo' = [todo EXCEPT ![d] = parts]
        /\ pc[d] = "split" /\ pc' = [pc EXCEPT ![d] = "prepare"]
        /\ UNCHANGED <<rejected, status, metadata, sqs, attempt, accepted, cur, batch>>
    BY DEF Split, Goto, inputVars, s3Vars
<1>2. /\ rcptsOf[d] \ rejected \subseteq accepted[d] /\ accepted[d] \subseteq rcptsOf[d]
      /\ status[d] # "sent"
    BY <1>1 DEF CoverInv, Cover
<1>3. accepted[d] \in SUBSET Recipient /\ todo'[d] = parts /\ pc'[d] = "prepare"
    BY <1>1 DEF TypeOK
<1>4. ASSUME NEW r \in accepted[d]
      PROVE  \E q \in Recipient : StandsFor(d, q, r) /\ Reached(d, q)'
    BY <1>2, <1>3, SplitsCover DEF Reached
<1>5. Cover(d)'
    BY <1>1, <1>2, <1>3, <1>4 DEF Cover, StandsFor
<1>6. Only(d)
    BY <1>1 DEF Only, TypeOK
<1> QED BY <1>5, <1>6, OthersCovered DEF CoverInv

\* A step inside the loop that keeps every recipient reached keeps the rest too.
LEMMA LoopCovers ==
    ASSUME IInv, CoverInv, NEW d \in Delivery, Only(d),
           pc[d] \notin {"idle", "split"}, pc'[d] \notin {"idle", "split"},
           UNCHANGED <<status, accepted>>,
           pc'[d] \in {"post", "cleanup", "exit"} => todo'[d] = {} /\ batch'[d] = {},
           \A q : Reached(d, q) => Reached(d, q)'
    PROVE  CoverInv'
<1>1. Cover(d) /\ rejected' = rejected
    BY DEF CoverInv, Only
<1>2. Cover(d)'
    BY <1>1 DEF Cover, StandsFor
<1> QED BY <1>2, OthersCovered DEF CoverInv

LEMMA PrepareCovers ==
    ASSUME IInv, CoverInv, NEW d \in Delivery, NEW part \in todo[d],
           NEW first \in part.rcpts, NEW uploaded \in BOOLEAN,
           Prepare(d, part, first, uploaded)
    PROVE  CoverInv'
<1> USE DEF IInv
<1>1. PICK job :
        /\ job.rcpts = part.rcpts
        /\ pc[d] = "prepare" /\ pc' = [pc EXCEPT ![d] = "message"]
        /\ todo' = [todo EXCEPT ![d] = @ \ {part}]
        /\ cur' = [cur EXCEPT ![d] = job]
        /\ UNCHANGED <<rejected, status, metadata, sqs, attempt, accepted, batch>>
    <2> DEFINE j == [id |-> StampOf(d, part.key), rcpts |-> part.rcpts,
                     ctx |-> MessageContext(d, first, uploaded)]
    <2>1. j.rcpts = part.rcpts /\ cur' = [cur EXCEPT ![d] = j]
        BY DEF Prepare, StampOf
    <2> HIDE DEF j
    <2> QED BY <2>1 DEF Prepare, Goto, inputVars
<1>2. /\ pc'[d] = "message" /\ todo'[d] = todo[d] \ {part} /\ cur'[d] = job
    BY <1>1 DEF TypeOK
<1>3. ASSUME NEW q, Reached(d, q) PROVE Reached(d, q)'
    BY <1>1, <1>2, <1>3 DEF Reached, HasCur
<1>4. Only(d)
    BY <1>1 DEF Only, TypeOK
<1> QED BY <1>1, <1>2, <1>3, <1>4, LoopCovers

LEMMA UploadMessageCovers ==
    ASSUME IInv, CoverInv, NEW d \in Delivery, UploadMessage(d)
    PROVE  CoverInv'
<1> USE DEF IInv
<1>1. /\ pc[d] = "message" /\ pc' = [pc EXCEPT ![d] = "metadata"]
      /\ UNCHANGED <<rejected, status, metadata, sqs, attempt, localVars>>
    BY DEF UploadMessage, Goto, inputVars
<1>2. pc'[d] = "metadata"
    BY <1>1 DEF TypeOK
<1>3. ASSUME NEW q, Reached(d, q) PROVE Reached(d, q)'
    BY <1>1, <1>2, <1>3 DEF Reached, HasCur, localVars
<1>4. Only(d)
    BY <1>1 DEF Only, TypeOK, localVars
<1> QED BY <1>1, <1>2, <1>3, <1>4, LoopCovers DEF localVars

\* The METADATA that is overwritten belongs to no other job of the attempt.
LEMMA UploadMetadataCovers ==
    ASSUME IInv, CoverInv, NEW d \in Delivery, UploadMetadata(d)
    PROVE  CoverInv'
<1> USE DEF IInv
<1> DEFINE job == cur[d]
           path == job.id.path
           stored == [attempt |-> job.id.attempt, rcpts |-> job.rcpts]
<1>1. /\ pc[d] = "metadata"
      /\ metadata' = [metadata EXCEPT ![path] = stored]
      /\ batch' = [batch EXCEPT ![d] = @ \cup {job}]
      /\ \E label \in {"publish", "prepare"} : pc' = [pc EXCEPT ![d] = label]
      /\ UNCHANGED <<rejected, status, accepted, sqs, attempt, todo>>
      /\ cur' = [cur EXCEPT ![d] = NoJob]
    BY DEF UploadMetadata, AfterUpload, Goto, inputVars
<1>2. Own(d, job) /\ Unused(d, job.id)
    BY <1>1 DEF ProcessInv, FreshInv, HasCur
<1>3. /\ job.id \in Stamp /\ path \in Path /\ path.domain = d /\ job.id.attempt = attempt[d]
      /\ job.id = [path |-> path, attempt |-> attempt[d]]
    BY <1>2 DEF Own, Job, Stamp
<1>4. stored.rcpts = job.rcpts
    OBVIOUS
<1> HIDE DEF job, path, stored
<1>5. metadata'[path].rcpts = job.rcpts
    BY <1>1, <1>3, <1>4 DEF TypeOK
<1>6. \A p \in Path : p # path => metadata'[p] = metadata[p]
    BY <1>1 DEF TypeOK
<1>7. pc'[d] \in {"publish", "prepare"} /\ batch'[d] = batch[d] \cup {job}
    BY <1>1 DEF TypeOK
<1>8. ASSUME NEW k, k.id \in Stamp, k.id.attempt = attempt[d], k.id # job.id
      PROVE  metadata'[k.id.path] = metadata[k.id.path]
    BY <1>3, <1>6, <1>8 DEF Stamp
<1>9. ASSUME NEW q, Reached(d, q) PROVE Reached(d, q)'
    <2>1. CASE HasCur(d) /\ q \in job.rcpts
        <3>1. job \in batch'[d] /\ q \in metadata'[job.id.path].rcpts
            BY <1>5, <1>7, <2>1 DEF path
        <3> QED BY <3>1 DEF Reached
    <2>2. ASSUME NEW k \in batch[d], q \in metadata[k.id.path].rcpts
          PROVE  Reached(d, q)'
        <3>1. metadata'[k.id.path] = metadata[k.id.path]
            BY <1>2, <1>8 DEF ProcessInv, Own, Job, Unused
        <3> QED BY <1>7, <2>2, <3>1 DEF Reached
    <2>3. ASSUME NEW s \in sqs, s.id.path.domain = d, s.id.attempt = attempt[d],
                 q \in metadata[s.id.path].rcpts
          PROVE  Reached(d, q)'
        <3>1. metadata'[s.id.path] = metadata[s.id.path]
            BY <1>2, <1>8, <2>3 DEF TypeOK, SentJob, Unused
        <3> QED BY <1>1, <2>3, <3>1 DEF Reached
    <2>4. CASE \E part \in todo[d] : q \in part.rcpts
        BY <1>1, <2>4 DEF Reached
    <2> QED BY <1>9, <2>1, <2>2, <2>3, <2>4 DEF Reached, job
<1>10. Only(d)
    BY <1>1, <1>3, <1>6 DEF Only, TypeOK
<1> QED BY <1>1, <1>7, <1>9, <1>10, LoopCovers

LEMMA PublishCovers ==
    ASSUME IInv, CoverInv, NEW d \in Delivery, Publish(d)
    PROVE  CoverInv'
<1> USE DEF IInv
<1>1. PICK job \in batch[d] :
        /\ pc[d] = "publish"
        /\ sqs' = sqs \cup {Serialised(d, job)}
        /\ batch' = [batch EXCEPT ![d] = @ \ {job}]
        /\ pc' = [pc EXCEPT ![d] = IF batch[d] # {job} THEN "publish"
                                   ELSE IF todo[d] # {} THEN "prepare" ELSE "post"]
        /\ UNCHANGED <<rejected, status, accepted, metadata, attempt, todo, cur>>
    BY DEF Publish, Send, Unsent, Goto, inputVars, s3Vars
<1>2. PICK sent : sent = Serialised(d, job)
    OBVIOUS
<1>3. /\ sent.id = job.id /\ sqs' = sqs \cup {sent}
      /\ job.id.path.domain = d /\ job.id.attempt = attempt[d]
    BY <1>1, <1>2, SerialisedTyped DEF ProcessInv, Own
<1>4. /\ batch'[d] = batch[d] \ {job}
      /\ pc'[d] \in {"publish", "prepare", "post"}
      /\ pc'[d] = "post" => batch[d] = {job} /\ todo[d] = {}
    BY <1>1 DEF TypeOK
<1>5. ASSUME NEW q, Reached(d, q) PROVE Reached(d, q)'
    BY <1>1, <1>3, <1>4, <1>5 DEF Reached, HasCur
<1>6. Only(d)
    BY <1>1, <1>3 DEF Only, TypeOK
<1> QED BY <1>1, <1>4, <1>5, <1>6, LoopCovers

\* After the loop everything is sent; exit status 0 turns it into a promise.
LEMMA ExitCovers ==
    ASSUME IInv, CoverInv, NEW d \in Delivery,
           PostEvents(d) \/ DeleteEventsFile(d) \/ ExitOk(d)
    PROVE  CoverInv'
<1> USE DEF IInv
<1>1. ASSUME pc[d] \in {"post", "cleanup"}, NEW label \in {"cleanup", "exit"},
             pc' = [pc EXCEPT ![d] = label],
             UNCHANGED <<rejected, status, metadata, sqs, attempt, localVars>>
      PROVE  CoverInv'
    <2>1. todo[d] = {} /\ batch[d] = {}
        BY <1>1 DEF CoverInv, Cover
    <2>2. pc'[d] \in {"cleanup", "exit"}
        BY <1>1 DEF TypeOK
    <2>3. ASSUME NEW q, Reached(d, q) PROVE Reached(d, q)'
        BY <1>1, <2>2, <2>3 DEF Reached, HasCur, localVars
    <2>4. Only(d)
        BY <1>1 DEF Only, TypeOK, localVars
    <2> QED BY <1>1, <2>1, <2>2, <2>3, <2>4, LoopCovers DEF localVars
<1>2. CASE PostEvents(d)
    BY <1>1, <1>2 DEF PostEvents, Goto, inputVars, s3Vars
<1>3. CASE DeleteEventsFile(d)
    BY <1>1, <1>3 DEF DeleteEventsFile, Goto, inputVars, s3Vars
<1>4. CASE ExitOk(d)
    <2>1. /\ pc[d] = "exit" /\ todo[d] = {} /\ batch[d] = {}
          /\ rcptsOf[d] \ rejected \subseteq accepted[d]
          /\ \A r \in accepted[d] : \E q \in Recipient : StandsFor(d, q, r) /\ Reached(d, q)
        BY <1>4 DEF ExitOk, CoverInv, Cover
    <2>2. \A q : Reached(d, q) => HandedBy(d, q)
        BY <2>1 DEF Reached, HandedBy, HasCur
    <2>3. pc'[d] = "idle" /\ UNCHANGED <<rejected, metadata, sqs, attempt>>
        BY <1>4 DEF ExitOk, EndProcess, Goto, TypeOK, inputVars, s3Vars
    <2>4. Cover(d)'
        BY <2>1, <2>2, <2>3 DEF Cover, StandsFor, HandedBy
    <2>5. Only(d)
        BY <1>4, <2>3 DEF ExitOk, EndProcess, Goto, Only, TypeOK
    <2> QED BY <2>4, <2>5, OthersCovered DEF CoverInv
<1> QED BY <1>2, <1>3, <1>4

LEMMA NextCovers == IInv /\ CoverInv /\ [Next]_vars => CoverInv'
<1> SUFFICES ASSUME IInv, CoverInv, [Next]_vars PROVE CoverInv'
    OBVIOUS
<1> USE DEF IInv
<1>1. ASSUME NEW d \in Delivery, pc[d] # "idle", EndProcess(d),
             UNCHANGED <<status, rejected, metadata, sqs, attempt>>
      PROVE  CoverInv'
    <2>1. status[d] # "sent"
        BY <1>1 DEF CoverInv, Cover
    <2> QED BY <1>1, <2>1, EndCovered
<1>2. ASSUME NEW d \in Delivery, NEW part \in todo[d], NEW first \in part.rcpts,
             NEW uploaded \in BOOLEAN, PolicyCrash(d, part, first, uploaded)
      PROVE  CoverInv'
    BY <1>1, <1>2 DEF PolicyCrash, inputVars, s3Vars
<1>3. ASSUME NEW d \in Delivery, VisitPart(d) PROVE CoverInv'
    BY <1>2, <1>3, PrepareCovers DEF VisitPart
<1>4. ASSUME NEW d \in Delivery, Step(d) PROVE CoverInv'
    BY <1>3, <1>4, InvokeCovers, SplitCovers, UploadMessageCovers, UploadMetadataCovers,
       PublishCovers, ExitCovers DEF Step
<1>5. ASSUME NEW d \in Delivery, TempFail(d) PROVE CoverInv'
    BY <1>1, <1>5 DEF TempFail, inputVars, s3Vars
<1>6. ASSUME NEW d \in Delivery, AlarmRings(d) PROVE CoverInv'
    <2>1. CASE EndProcess(d)
        BY <1>1, <1>6, <2>1 DEF AlarmRings, inputVars, s3Vars
    <2>2. CASE UNCHANGED <<pc, localVars>>
        BY <1>6, <2>2 DEF AlarmRings, CoverInv, Cover, StandsFor, Reached, HandedBy, HasCur,
                          inputVars, s3Vars, localVars
    <2> QED BY <1>6, <2>1, <2>2 DEF AlarmRings
<1>7. ASSUME NEW d \in Delivery, StartupBounce(d) \/ Expire(d) PROVE CoverInv'
    BY <1>7, EndCovered DEF StartupBounce, Expire, inputVars, s3Vars
<1>8. CASE UNCHANGED vars
    BY <1>8 DEF CoverInv, Cover, StandsFor, Reached, HandedBy, HasCur, vars, inputVars,
                s3Vars, localVars
<1> QED BY <1>4, <1>5, <1>6, <1>7, <1>8 DEF Next

LEMMA Covered == Spec => [](IInv /\ CoverInv)
<1>1. Init => CoverInv
    BY DEF Init, CoverInv, Cover
<1> QED BY <1>1, InductiveInvariant, NextCovers, PTL DEF Spec

\* Who is reached by a job of d is handed over, for the documents are there.
LEMMA HandedByIsHanded ==
    ASSUME IInv, NEW d \in Delivery, NEW q \in Recipient, HandedBy(d, q)
    PROVE  q \in Handed
BY DEF IInv, DocumentInv, JobDocumentsStored, HandedBy, Handed

\* No mail is lost, for every queue file, split, order of concurrent processes,
\* and whatever fails: after exit status 0 every recipient that the jilter did
\* not reject is served by a job in the queue.
THEOREM NoMailIsLost == Spec => []SentMailIsHandedOver
<1>1. IInv /\ CoverInv => SentMailIsHandedOver
    <2> SUFFICES ASSUME IInv, CoverInv, NEW d \in Delivery, status[d] = "sent",
                        NEW r \in rcptsOf[d] \ rejected
                 PROVE  Served(d, r)
        BY DEF SentMailIsHandedOver
    <2>1. PICK q \in Recipient : StandsFor(d, q, r) /\ HandedBy(d, q)
        BY DEF CoverInv, Cover
    <2>2. q \in Handed
        BY <2>1, HandedByIsHanded
    <2> QED BY <2>1, <2>2 DEF StandsFor, StandIns, Served
<1> QED BY <1>1, Covered, PTL

\* Where no mail is split by user, no recipient stands for another: each one is
\* handed over itself.
THEOREM EveryRecipientIsHandedOver ==
    ASSUME UserSplit = FALSE
    PROVE  Spec => []SentToEveryRecipient
<1>1. IInv /\ CoverInv => SentToEveryRecipient
    <2> SUFFICES ASSUME IInv, CoverInv, NEW d \in Delivery, status[d] = "sent",
                        NEW r \in rcptsOf[d] \ rejected
                 PROVE  r \in Handed
        BY DEF SentToEveryRecipient
    <2> QED BY HandedByIsHanded DEF CoverInv, Cover, StandsFor
<1> QED BY <1>1, Covered, PTL
=============================================================================
