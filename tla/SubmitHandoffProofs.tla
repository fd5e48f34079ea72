------------------------ MODULE SubmitHandoffProofs ------------------------
(***************************************************************************)
(* What a hand-over carries and how it ends: theorems about the events,    *)
(* contexts and retries of SubmitProducer, and that it implements          *)
(* SubmitHandoff.  IInv, CoverInv and the lemmas about them are those of   *)
(* SubmitProducerProofs.                                                   *)
(***************************************************************************)
EXTENDS SubmitProducerProofs, FiniteSetTheorems

-----------------------------------------------------------------------------
(***************************************************************************)
(* The invariant, one delivery at a time.                                  *)
(***************************************************************************)

\* Only a queued delivery is worked on, and nothing names a recipient of another.
Addressed(d) ==
    /\ pc[d] # "idle" => status[d] = "queued"
    /\ \A part \in todo[d] : part.rcpts \subseteq rcptsOf[d]
    /\ HasCur(d) => cur[d].rcpts \subseteq rcptsOf[d]
    /\ \A p \in Path : p.domain = d => metadata[p].rcpts \subseteq rcptsOf[d]

NoOrphan(d) == Orphans(jilter) \cap rcptsOf[d] = {}

\* Without an orphan each attempt but the running one was ended by a failure,
\* and a process that knows a policy has read the whole context file.
Budgeted(d) ==
    /\ NoOrphan(d) /\ status[d] = "queued" =>
        attempt[d] <= (IF pc[d] = "idle" THEN faults ELSE faults + 1)
    /\ NoOrphan(d) /\ MaxFaults < MaxAttempts => status[d] # "expired"
    /\ policy[d] # {} => policy[d] = jilter.policy /\ DOMAIN mh[d] = jilter.events

\* Some job of the running attempt on d, or a sent one, has this stamp.
HasJob(d, stamp) ==
    \/ HasCur(d) /\ cur[d].id = stamp
    \/ \E job \in batch[d] : job.id = stamp
    \/ \E s \in sqs : s.id = stamp

\* The events are stamped with the ids of jobs.
Stamped(d) == \A k \in DOMAIN mh[d] : mh[d][k] = NoStamp \/ HasJob(d, mh[d][k])

\* The jobs of the running attempt that are not sent yet.
InHand(d, job) == job \in batch[d] \/ (HasCur(d) /\ job = cur[d])

\* The mail_info object of a job is its own.
OwnObject(job) == job.ctx = InS3 => mailInfo[job.id.path].path = job.id.path

\* The event a job refers to is stamped with its id and no part still to do will
\* stamp it again: for inbound mail a part stamps the events of its recipients,
\* and the parts are disjoint.
InContext(d) ==
    /\ \A part \in todo[d], other \in todo[d] :
        part.rcpts \cap other.rcpts # {} => other = part
    /\ \A job : InHand(d, job) =>
        /\ OwnObject(job)
        /\ MailInfoIsBig => job.ctx \notin DOMAIN mh[d]
        /\ Direction = "INBOUND" /\ job.ctx \in DOMAIN mh[d] =>
            /\ mh[d][job.ctx] = job.id
            /\ \A part \in todo[d] : job.ctx \notin part.rcpts

\* The same of the jobs that were sent.
SentInContext ==
    \A s \in sqs :
        /\ OwnObject(s)
        /\ MailInfoIsBig => s.ctx # "inline"
        /\ Direction = "INBOUND" /\ s.ctx = "inline" => s.info = s.id

Carried(d) == Addressed(d) /\ Budgeted(d) /\ Stamped(d) /\ InContext(d)

CarryInv == (\A d \in Delivery : Carried(d)) /\ SentInContext /\ PostedEventHasJob

\* What a step of d leaves to the other deliveries.
Apart(d) ==
    /\ Only(d) /\ jilter' = jilter /\ faults <= faults'
    /\ \A p \in Path : p.domain # d => mailInfo'[p] = mailInfo[p]
    /\ \A e \in Delivery \ {d} : mh'[e] = mh[e] /\ policy'[e] = policy[e]

LEMMA OthersCarried ==
    ASSUME IInv, IInv', CarryInv, NEW d \in Delivery, Apart(d), NEW e \in Delivery, e # d
    PROVE  Carried(e)'
<1> USE DEF IInv
<1>1. Carried(e)
    BY DEF CarryInv
<1>2. /\ status'[e] = status[e] /\ pc'[e] = pc[e] /\ todo'[e] = todo[e] /\ cur'[e] = cur[e]
      /\ batch'[e] = batch[e] /\ attempt'[e] = attempt[e] /\ mh'[e] = mh[e]
      /\ policy'[e] = policy[e] /\ sqs \subseteq sqs' /\ jilter' = jilter
    BY DEF Apart, Only
<1>3. Addressed(e)'
    BY <1>1, <1>2 DEF Carried, Addressed, Apart, Only, HasCur
<1>4. Budgeted(e)'
    <2>1. faults \in Nat /\ faults' \in Nat /\ faults <= faults' /\ attempt[e] \in Nat
        BY DEF TypeOK, Apart
    <2> QED BY <1>1, <1>2, <2>1 DEF Carried, Budgeted, NoOrphan, Orphans
<1>5. Stamped(e)'
    BY <1>1, <1>2 DEF Carried, Stamped, HasJob, HasCur
<1>6. InContext(e)'
    <2>1. \A job : InHand(e, job)' <=> InHand(e, job)
        BY <1>2 DEF InHand, HasCur
    <2>2. ASSUME NEW job, InHand(e, job)
          PROVE  mailInfo'[job.id.path] = mailInfo[job.id.path]
        <3>1. Own(e, job)
            BY <2>2 DEF InHand, ProcessInv
        <3> QED BY <3>1 DEF Own, Job, Stamp, Apart
    <2> QED BY <1>1, <1>2, <2>1, <2>2 DEF Carried, InContext, OwnObject
<1> QED BY <1>3, <1>4, <1>5, <1>6 DEF Carried

\* No job is sent and no event is posted: what was sent stays in context.
LEMMA SentStays ==
    ASSUME CarryInv, UNCHANGED <<mailInfo, sqs, posted>>
    PROVE  SentInContext' /\ PostedEventHasJob'
BY DEF CarryInv, SentInContext, OwnObject, PostedEventHasJob

-----------------------------------------------------------------------------
(***************************************************************************)
(* One lemma for each kind of step.                                        *)
(***************************************************************************)

\* The process of d moves on inside an attempt and keeps all it holds.
LEMMA MovesOn ==
    ASSUME IInv, IInv', CarryInv, NEW d \in Delivery,
           NEW label \in Label \ {"idle"}, pc' = [pc EXCEPT ![d] = label], pc[d] # "idle",
           HasCur(d)' <=> HasCur(d), faults <= faults',
           UNCHANGED <<status, rejected, jilter, metadata, mailInfo, sqs, attempt, localVars>>
    PROVE  \A e \in Delivery : Carried(e)'
<1> USE DEF IInv
<1>1. pc'[d] # "idle" /\ Carried(d)
    BY DEF TypeOK, CarryInv
<1>2. Addressed(d)'
    BY <1>1 DEF Carried, Addressed, HasCur, localVars
<1>3. Budgeted(d)'
    <2>1. faults \in Nat /\ faults' \in Nat /\ attempt[d] \in Nat
        BY DEF TypeOK
    <2> QED BY <1>1, <2>1 DEF Carried, Budgeted, NoOrphan, Orphans, localVars
<1>4. Stamped(d)'
    BY <1>1 DEF Carried, Stamped, HasJob, localVars
<1>5. InContext(d)'
    BY <1>1 DEF Carried, InContext, InHand, OwnObject, localVars
<1>6. Apart(d)
    BY DEF Apart, Only, TypeOK, localVars
<1> QED BY <1>2, <1>3, <1>4, <1>5, <1>6, OthersCarried DEF Carried

\* The process of d ends: after a failure, because its recipient is an orphan, or
\* because Postfix forgets the delivery.
LEMMA EndCarries ==
    ASSUME IInv, IInv', CarryInv, NEW d \in Delivery, pc[d] # "idle", EndProcess(d),
           \/ UNCHANGED status /\ (Fault \/ (~NoOrphan(d) /\ UNCHANGED faults))
           \/ status' = [status EXCEPT ![d] = "sent"] /\ UNCHANGED faults,
           UNCHANGED <<rejected, jilter, metadata, mailInfo, sqs, posted, attempt>>
    PROVE  CarryInv'
<1> USE DEF IInv
<1>1. /\ pc'[d] = "idle" /\ todo'[d] = {} /\ batch'[d] = {} /\ policy'[d] = {}
      /\ mh'[d] = NoEvents /\ Carried(d) /\ status[d] = "queued"
    BY DEF EndProcess, Goto, TypeOK, CarryInv, Carried, Addressed
<1>2. Addressed(d)'
    BY <1>1 DEF Carried, Addressed, HasCur
<1>3. Budgeted(d)'
    <2>1. faults \in Nat /\ attempt[d] \in Nat
        BY DEF TypeOK
    <2>2. NoOrphan(d)' <=> NoOrphan(d)
        BY DEF NoOrphan, Orphans
    <2>3. NoOrphan(d) /\ status'[d] = "queued" => attempt'[d] <= faults'
        <3>1. NoOrphan(d) => attempt[d] <= faults + 1
            BY <1>1 DEF Carried, Budgeted
        <3>2. NoOrphan(d) /\ status'[d] = "queued" => faults' = faults + 1
            BY DEF Fault, TypeOK
        <3> QED BY <2>1, <3>1, <3>2
    <2>4. status'[d] # "expired"
        BY <1>1 DEF TypeOK
    <2> QED BY <1>1, <2>2, <2>3, <2>4 DEF Budgeted
<1>4. Stamped(d)'
    BY <1>1 DEF Stamped, NoEvents
<1>5. InContext(d)'
    BY <1>1 DEF InContext, InHand, HasCur
<1>6. Apart(d)
    <2>1. faults <= faults'
        BY DEF Fault, TypeOK
    <2> QED BY <2>1 DEF Apart, Only, EndProcess, Goto, TypeOK
<1> QED BY <1>2, <1>3, <1>4, <1>5, <1>6, OthersCarried, SentStays DEF Carried, CarryInv

\* A delivery that is not worked on is given back by Postfix.
LEMMA GivenBackCarries ==
    ASSUME IInv, IInv', CarryInv, NEW d \in Delivery, StartupBounce(d) \/ Expire(d)
    PROVE  CarryInv'
<1> USE DEF IInv
<1>1. /\ pc[d] = "idle" /\ status[d] = "queued" /\ Carried(d)
      /\ UNCHANGED <<rejected, jilter, metadata, mailInfo, sqs, posted, pc, attempt, localVars>>
    BY DEF StartupBounce, Expire, inputVars, s3Vars, CarryInv
<1>2. faults \in Nat /\ faults' \in Nat /\ faults <= faults' /\ attempt[d] \in Nat
    BY DEF StartupBounce, Expire, Fault, TypeOK
<1>3. Budgeted(d)'
    <2>1. CASE StartupBounce(d)
        BY <1>1, <2>1 DEF StartupBounce, TypeOK, Carried, Budgeted, NoOrphan, Orphans, localVars
    <2>2. CASE Expire(d)
        <3>1. status'[d] = "expired" /\ attempt[d] = MaxAttempts
            BY <2>2 DEF Expire, TypeOK
        <3>2. NoOrphan(d) => MaxAttempts <= MaxFaults
            <4>1. NoOrphan(d) => attempt[d] <= faults
                BY <1>1 DEF Carried, Budgeted
            <4> QED BY <3>1, <4>1, BoundAssumption DEF TypeOK
        <3>3. NoOrphan(d)' <=> NoOrphan(d)
            BY <1>1 DEF NoOrphan, Orphans
        <3>4. ~(NoOrphan(d) /\ MaxFaults < MaxAttempts)
            BY <3>2, BoundAssumption
        <3> QED BY <1>1, <3>1, <3>3, <3>4 DEF Carried, Budgeted, localVars
    <2> QED BY <2>1, <2>2
<1>4. Addressed(d)' /\ Stamped(d)' /\ InContext(d)'
    BY <1>1 DEF Carried, Addressed, Stamped, HasJob, InContext, InHand, OwnObject, HasCur,
                localVars
<1>5. Apart(d)
    BY <1>1, <1>2 DEF Apart, Only, StartupBounce, Expire, TypeOK, localVars
<1> QED BY <1>1, <1>3, <1>4, <1>5, OthersCarried, SentStays DEF Carried, CarryInv

LEMMA InvokeCarries ==
    ASSUME IInv, IInv', CarryInv, NEW d \in Delivery, Invoke(d)
    PROVE  CarryInv'
<1> USE DEF IInv
<1>1. PICK label \in {"exit", "split"}, readable \in BOOLEAN :
        /\ pc[d] = "idle" /\ status[d] = "queued"
        /\ pc' = [pc EXCEPT ![d] = label]
        /\ attempt' = [attempt EXCEPT ![d] = @ + 1]
        /\ mh' = [mh EXCEPT ![d] =
                    [k \in (IF readable THEN jilter.events ELSE {}) |-> NoStamp]]
        /\ policy' = [policy EXCEPT ![d] = IF readable THEN jilter.policy ELSE {}]
        /\ UNCHANGED <<status, rejected, jilter, metadata, mailInfo, sqs, posted, faults,
                       todo, cur, batch>>
    <2>1. PICK readable \in {FALSE, fileExists} :
            /\ mh' = [mh EXCEPT ![d] =
                        [k \in (IF readable THEN jilter.events ELSE {}) |-> NoStamp]]
            /\ policy' = [policy EXCEPT ![d] = IF readable THEN jilter.policy ELSE {}]
        BY DEF Invoke
    <2>2. \E label \in {"exit", "split"} : pc' = [pc EXCEPT ![d] = label]
        BY DEF Invoke, Goto
    <2>3. readable \in BOOLEAN
        BY <2>1 DEF TypeOK
    <2>4. /\ pc[d] = "idle" /\ status[d] = "queued"
          /\ attempt' = [attempt EXCEPT ![d] = @ + 1]
          /\ UNCHANGED <<status, rejected, jilter, metadata, mailInfo, sqs, posted, faults,
                         todo, cur, batch>>
        BY DEF Invoke, inputVars, s3Vars
    <2> QED BY <2>1, <2>2, <2>3, <2>4
<1>2. /\ pc'[d] \in {"exit", "split"} /\ attempt'[d] = attempt[d] + 1
      /\ mh'[d] = [k \in (IF readable THEN jilter.events ELSE {}) |-> NoStamp]
      /\ policy'[d] = IF readable THEN jilter.policy ELSE {}
      /\ todo'[d] = {} /\ batch'[d] = {} /\ Carried(d)
    BY <1>1 DEF TypeOK, ProcessInv, CarryInv
<1>3. Addressed(d)'
    BY <1>1, <1>2 DEF Carried, Addressed, HasCur
<1>4. Budgeted(d)'
    <2>1. faults \in Nat /\ attempt[d] \in Nat
        BY DEF TypeOK
    <2>2. NoOrphan(d)' <=> NoOrphan(d)
        BY <1>1 DEF NoOrphan, Orphans
    <2>3. NoOrphan(d) => attempt'[d] <= faults + 1
        <3>1. NoOrphan(d) => attempt[d] <= faults
            BY <1>1, <1>2 DEF Carried, Budgeted
        <3> QED BY <1>2, <2>1, <3>1
    <2>4. policy'[d] # {} => policy'[d] = jilter'.policy /\ DOMAIN mh'[d] = jilter'.events
        BY <1>1, <1>2
    <2> QED BY <1>1, <1>2, <2>2, <2>3, <2>4 DEF Budgeted
<1>5. Stamped(d)'
    BY <1>2 DEF Stamped
<1>6. InContext(d)'
    BY <1>2 DEF InContext, InHand, HasCur
<1>7. Apart(d)
    <2>1. \A e \in Delivery \ {d} : mh'[e] = mh[e]
        BY <1>1 DEF TypeOK
    <2>2. \A e \in Delivery \ {d} : policy'[e] = policy[e]
        BY <1>1 DEF TypeOK
    <2>3. faults <= faults'
        BY <1>1 DEF TypeOK
    <2>4. \A e \in Delivery \ {d} : accepted'[e] = accepted[e]
        BY DEF Invoke, TypeOK
    <2>5. Only(d)
        BY <1>1, <2>4 DEF Only, TypeOK
    <2> QED BY <1>1, <2>1, <2>2, <2>3, <2>5 DEF Apart
<1> QED BY <1>1, <1>3, <1>4, <1>5, <1>6, <1>7, OthersCarried, SentStays DEF Carried, CarryInv

\* The parts of a split are disjoint sets of accepted recipients.
LEMMA SplitsDivide ==
    ASSUME NEW d \in Delivery, accepted[d] \in SUBSET Recipient, NEW parts \in Splits(d),
           NEW part \in parts, NEW other \in parts
    PROVE  /\ part.rcpts \subseteq accepted[d]
           /\ part.rcpts \cap other.rcpts # {} => other = part
<1>1. ASSUME NEW f, parts = GroupBy(f, accepted[d])
      PROVE  /\ part.rcpts \subseteq accepted[d]
             /\ part.rcpts \cap other.rcpts # {} => other = part
    <2>1. PICK k : part = Part(k, {r \in accepted[d] : f[r] = k})
        BY <1>1 DEF GroupBy
    <2>2. PICK j : other = Part(j, {r \in accepted[d] : f[r] = j})
        BY <1>1 DEF GroupBy
    <2>3. /\ part.rcpts = {r \in accepted[d] : f[r] = k}
          /\ other.rcpts = {r \in accepted[d] : f[r] = j}
        BY <2>1, <2>2 DEF Part
    <2>4. part.rcpts \cap other.rcpts # {} => j = k
        BY <2>3
    <2> QED BY <2>1, <2>2, <2>3, <2>4
<1>2. CASE parts = OutboundParts(accepted[d]) \/ parts = BaseParts(accepted[d])
    <2>1. CASE parts = OutboundParts(accepted[d])
        <3>1. PICK r \in accepted[d], q \in accepted[d] :
                part = Part(r, {r}) /\ other = Part(q, {q})
            BY <2>1 DEF OutboundParts
        <3>2. part.rcpts = {r} /\ other.rcpts = {q}
            BY <3>1 DEF Part
        <3> QED BY <3>1, <3>2
    <2>2. CASE parts = BaseParts(accepted[d])
        BY <2>2 DEF BaseParts, Part
    <2> QED BY <1>2, <2>1, <2>2
<1>3. CASE parts = MsgHistoryParts(accepted[d]) \/ parts \in PolicyParts(accepted[d])
    BY <1>1, <1>3 DEF MsgHistoryParts, PolicyParts
<1>4. CASE parts \in UserParts(accepted[d])
    <2> DEFINE Owners == {OwnerOf[q] : q \in accepted[d]}
    <2>1. PICK f \in [Owners -> accepted[d]] :
            /\ parts = {Part(o, {f[o]}) : o \in Owners}
            /\ \A o \in Owners : OwnerOf[f[o]] = o
        BY <1>4 DEF UserParts
    <2> HIDE DEF Owners
    <2>2. PICK o \in Owners, u \in Owners : part = Part(o, {f[o]}) /\ other = Part(u, {f[u]})
        BY <2>1
    <2>3. part.rcpts = {f[o]} /\ other.rcpts = {f[u]} /\ f[o] \in accepted[d]
        BY <2>1, <2>2 DEF Part
    <2>4. f[o] = f[u] => o = u
        BY <2>1
    <2> QED BY <2>2, <2>3, <2>4
<1> QED BY <1>2, <1>3, <1>4 DEF Splits, FallbackSplits

LEMMA SplitCarries ==
    ASSUME IInv, IInv', CoverInv, CarryInv, NEW d \in Delivery, Split(d)
    PROVE  CarryInv'
<1> USE DEF IInv
<1>1. PICK parts \in Splits(d) :
        /\ todo' = [todo EXCEPT ![d] = parts]
        /\ pc[d] = "split" /\ pc' = [pc EXCEPT ![d] = "prepare"]
        /\ UNCHANGED <<status, rejected, jilter, metadata, mailInfo, sqs, posted, faults,
                       attempt, accepted, mh, policy, cur, batch>>
    BY DEF Split, Goto, inputVars, s3Vars
<1>2. /\ pc'[d] = "prepare" /\ todo'[d] = parts /\ batch'[d] = {} /\ Carried(d)
      /\ accepted[d] \in SUBSET Recipient /\ accepted[d] \subseteq rcptsOf[d]
    BY <1>1 DEF TypeOK, ProcessInv, CarryInv, CoverInv, Cover
<1>3. Addressed(d)'
    BY <1>1, <1>2, SplitsDivide DEF Carried, Addressed, HasCur
<1>4. Budgeted(d)'
    BY <1>1, <1>2 DEF Carried, Budgeted, NoOrphan, Orphans
<1>5. Stamped(d)'
    BY <1>1, <1>2 DEF Carried, Stamped, HasJob, HasCur
<1>6. InContext(d)'
    BY <1>2, SplitsDivide DEF InContext, InHand, HasCur
<1>7. Apart(d)
    BY <1>1 DEF Apart, Only, TypeOK
<1> QED BY <1>1, <1>3, <1>4, <1>5, <1>6, <1>7, OthersCarried, SentStays DEF Carried, CarryInv

-----------------------------------------------------------------------------
\* Prepare stamps the events of the part with the id of the new job, and what the
\* job takes along is one of these events or its copy in S3.
LEMMA PrepareCarries ==
    ASSUME IInv, IInv', CarryInv, NEW d \in Delivery, NEW part \in todo[d],
           NEW first \in part.rcpts, NEW uploaded \in BOOLEAN,
           Prepare(d, part, first, uploaded)
    PROVE  CarryInv'
<1> USE DEF IInv
<1>0. PICK id, ctx, events :
        /\ id = StampOf(d, part.key)
        /\ ctx = MessageContext(d, first, uploaded)
        /\ events = StampEvents(mh[d], part, id)
    OBVIOUS
<1>1. PICK job :
        /\ job.id = id /\ job.rcpts = part.rcpts /\ job.ctx = ctx
        /\ pc[d] = "prepare" /\ pc' = [pc EXCEPT ![d] = "message"]
        /\ mh' = [mh EXCEPT ![d] = events]
        /\ todo' = [todo EXCEPT ![d] = @ \ {part}]
        /\ cur' = [cur EXCEPT ![d] = job]
        /\ UNCHANGED <<status, rejected, jilter, metadata, sqs, posted, attempt,
                       accepted, policy, batch>>
    <2> DEFINE j == [id |-> id, rcpts |-> part.rcpts, ctx |-> ctx]
    <2>1. j.id = id /\ j.rcpts = part.rcpts /\ j.ctx = ctx
        OBVIOUS
    <2>2. cur' = [cur EXCEPT ![d] = j]
        BY <1>0 DEF Prepare, StampOf
    <2> HIDE DEF j
    <2>3. mh' = [mh EXCEPT ![d] = events]
        BY <1>0 DEF Prepare, StampOf
    <2> QED BY <2>1, <2>2, <2>3 DEF Prepare, StampOf, Goto, inputVars
<1>2. mailInfo' = IF ctx = InS3
                  THEN [mailInfo EXCEPT ![id.path] = events[ContextKey(first)]]
                  ELSE mailInfo
    <2>1. ctx # InS3 => mailInfo' = mailInfo
        BY <1>0 DEF Prepare
    <2>2. ctx = InS3 => ~(MailInfoIsBig /\ HasContext(d, first) /\ ~uploaded)
        BY <1>0 DEF MessageContext, NoContext, InS3
    <2>3. ctx = InS3 =>
            mailInfo' = [mailInfo EXCEPT ![id.path] = events[ContextKey(first)]]
        BY <1>0, <2>2 DEF Prepare, StampOf
    <2> QED BY <2>1, <2>3
<1>3. /\ id \in Stamp /\ id.path \in Path /\ id.path.domain = d
      /\ part.rcpts \in SUBSET Recipient
    BY <1>0, PreparedJobTyped DEF StampOf, PathOf, Stamp
<1>4. /\ DOMAIN events = DOMAIN mh[d]
      /\ \A k \in DOMAIN mh[d] :
            events[k] = IF k \in StampedKeys(part) THEN id ELSE mh[d][k]
    BY <1>0 DEF StampEvents
<1>5. ContextKey(first) \in StampedKeys(part)
    BY DirectionAssumption DEF ContextKey, StampedKeys
<1>6. ctx = InS3 => ContextKey(first) \in DOMAIN mh[d] /\ events[ContextKey(first)] = id
    <2>1. ctx = InS3 => ContextKey(first) \in DOMAIN mh[d]
        BY <1>0 DEF MessageContext, HasContext, NoContext, InS3
    <2> QED BY <2>1, <1>4, <1>5
<1>7. ctx \in DOMAIN mh[d] => ~MailInfoIsBig /\ ctx = ContextKey(first)
    <2>1. DOMAIN mh[d] \subseteq EventKey
        BY DEF TypeOK, IsEvents
    <2>2. NoContext \notin EventKey /\ InS3 \notin EventKey
        BY SentinelAssumption
    <2> QED BY <1>0, <2>1, <2>2, FlagAssumption DEF MessageContext
<1>8. faults \in Nat /\ faults' \in Nat /\ faults <= faults' /\ attempt[d] \in Nat
    BY DEF Prepare, Fault, TypeOK
<1>9. /\ pc'[d] = "message" /\ todo'[d] = todo[d] \ {part} /\ cur'[d] = job
      /\ mh'[d] = events /\ Carried(d)
    BY <1>1 DEF TypeOK, CarryInv
<1>10. Addressed(d)'
    BY <1>1, <1>9 DEF Carried, Addressed, HasCur
<1>11. Budgeted(d)'
    BY <1>1, <1>4, <1>8, <1>9 DEF Carried, Budgeted, NoOrphan, Orphans
<1>12. Stamped(d)'
    <2>1. ~HasCur(d) /\ HasCur(d)'
        BY <1>1, <1>9 DEF HasCur
    <2>2. ASSUME NEW k \in DOMAIN mh[d]
          PROVE  events[k] = NoStamp \/ HasJob(d, events[k])'
        BY <1>1, <1>4, <1>9, <2>1 DEF Carried, Stamped, HasJob
    <2> QED BY <1>4, <1>9, <2>2 DEF Stamped
<1>13. \A p \in Path : mailInfo[p].path = p => mailInfo'[p].path = p
    <2>1. ctx = InS3 => events[ContextKey(first)].path = id.path
        BY <1>6
    <2> QED BY <1>2, <1>3, <2>1 DEF TypeOK
<1>14. ASSUME NEW k, k.id \in Stamp, OwnObject(k) PROVE OwnObject(k)'
    BY <1>13, <1>14 DEF OwnObject, Stamp
<1>15. InContext(d)'
    <2>1. \A p \in todo'[d], other \in todo'[d] :
            p.rcpts \cap other.rcpts # {} => other = p
        BY <1>9 DEF Carried, InContext
    <2>2. ASSUME NEW k \in batch[d]
          PROVE  /\ OwnObject(k)'
                 /\ MailInfoIsBig => k.ctx \notin DOMAIN events
                 /\ Direction = "INBOUND" /\ k.ctx \in DOMAIN events =>
                        /\ events[k.ctx] = k.id
                        /\ \A p \in todo'[d] : k.ctx \notin p.rcpts
        <3>1. InHand(d, k) /\ k.id \in Stamp
            BY DEF InHand, ProcessInv, Own, Job
        <3>2. OwnObject(k)'
            BY <1>9, <1>14, <3>1 DEF Carried, InContext
        <3>3. MailInfoIsBig => k.ctx \notin DOMAIN events
            BY <1>4, <1>9, <3>1 DEF Carried, InContext
        <3>4. Direction = "INBOUND" /\ k.ctx \in DOMAIN mh[d] =>
                mh[d][k.ctx] = k.id /\ \A p \in todo[d] : k.ctx \notin p.rcpts
            BY <1>9, <3>1 DEF Carried, InContext
        <3> QED BY <1>4, <1>9, <3>2, <3>3, <3>4 DEF StampedKeys
    <2>3. OwnObject(job)'
        <3>1. ctx = InS3 => mailInfo'[id.path] = id
            BY <1>2, <1>3, <1>6 DEF TypeOK
        <3> QED BY <1>1, <3>1 DEF OwnObject
    <2>4. MailInfoIsBig => job.ctx \notin DOMAIN events
        BY <1>1, <1>4, <1>7
    <2>5. Direction = "INBOUND" /\ job.ctx \in DOMAIN events =>
            events[job.ctx] = job.id /\ \A p \in todo'[d] : job.ctx \notin p.rcpts
        <3>1. Direction = "INBOUND" => ContextKey(first) = first
            BY DEF ContextKey
        <3>2. \A p \in todo'[d] : first \notin p.rcpts
            BY <1>9 DEF Carried, InContext
        <3> QED BY <1>1, <1>4, <1>5, <1>7, <3>1, <3>2
    <2>6. \A k : InHand(d, k)' => k \in batch[d] \/ k = job
        BY <1>1, <1>9 DEF InHand
    <2> QED BY <1>9, <2>1, <2>2, <2>3, <2>4, <2>5, <2>6 DEF InContext
<1>16. SentInContext'
    <2>1. \A s \in sqs : s.id \in Stamp
        BY DEF TypeOK, SentJob
    <2> QED BY <1>1, <1>14, <2>1 DEF CarryInv, SentInContext
<1>17. PostedEventHasJob'
    BY <1>1 DEF CarryInv, PostedEventHasJob
<1>18. Apart(d)
    <2>1. \A e \in Delivery \ {d} : mh'[e] = mh[e]
        BY <1>1 DEF TypeOK
    <2>2. \A p \in Path : p.domain # d => mailInfo'[p] = mailInfo[p]
        BY <1>2, <1>3 DEF TypeOK
    <2>3. Only(d)
        BY <1>1 DEF Only, TypeOK
    <2> QED BY <1>1, <1>8, <2>1, <2>2, <2>3 DEF Apart
<1> QED BY <1>10, <1>11, <1>12, <1>15, <1>16, <1>17, <1>18, OthersCarried DEF Carried, CarryInv

LEMMA UploadMetadataCarries ==
    ASSUME IInv, IInv', CarryInv, NEW d \in Delivery, UploadMetadata(d)
    PROVE  CarryInv'
<1> USE DEF IInv
<1> DEFINE job == cur[d]
           path == job.id.path
           stored == [attempt |-> job.id.attempt, rcpts |-> job.rcpts]
<1>1. /\ pc[d] = "metadata"
      /\ metadata' = [metadata EXCEPT ![path] = stored]
      /\ batch' = [batch EXCEPT ![d] = @ \cup {job}]
      /\ \E label \in {"publish", "prepare"} : pc' = [pc EXCEPT ![d] = label]
      /\ cur' = [cur EXCEPT ![d] = NoJob]
      /\ UNCHANGED <<status, rejected, jilter, mailInfo, sqs, posted, faults, attempt,
                     accepted, mh, policy, todo>>
    BY DEF UploadMetadata, AfterUpload, Goto, inputVars
<1>2. path \in Path /\ path.domain = d
    BY <1>1 DEF ProcessInv, HasCur, Own, Job, Stamp
<1>3. stored.rcpts = job.rcpts /\ HasCur(d)
    BY <1>1 DEF HasCur
<1> HIDE DEF path, stored, job
<1>4. /\ pc'[d] \in {"publish", "prepare"} /\ batch'[d] = batch[d] \cup {job} /\ Carried(d)
    BY <1>1 DEF TypeOK, CarryInv
<1>5. Addressed(d)'
    <2>1. \A p \in Path : metadata'[p].rcpts = IF p = path THEN job.rcpts
                                                           ELSE metadata[p].rcpts
        BY <1>1, <1>2, <1>3 DEF TypeOK
    <2> QED BY <1>1, <1>3, <1>4, <2>1 DEF Carried, Addressed, HasCur, job
<1>6. Budgeted(d)'
    BY <1>1, <1>4 DEF Carried, Budgeted, NoOrphan, Orphans
<1>7. Stamped(d)'
    <2>1. \A stamp : HasJob(d, stamp) => HasJob(d, stamp)'
        BY <1>1, <1>4 DEF HasJob, job
    <2> QED BY <1>1, <1>4, <2>1 DEF Carried, Stamped
<1>8. InContext(d)'
    <2>1. \A k : InHand(d, k)' => InHand(d, k)
        BY <1>3, <1>4 DEF InHand, HasCur, job
    <2> QED BY <1>1, <1>4, <2>1 DEF Carried, InContext, OwnObject
<1>9. Apart(d)
    <2>1. faults <= faults'
        BY <1>1 DEF TypeOK
    <2> QED BY <1>1, <1>2, <2>1 DEF Apart, Only, TypeOK
<1> QED BY <1>1, <1>5, <1>6, <1>7, <1>8, <1>9, OthersCarried, SentStays DEF Carried, CarryInv

\* A job is serialised when it is sent: by then its event has not changed again.
LEMMA PublishCarries ==
    ASSUME IInv, IInv', CarryInv, NEW d \in Delivery, Publish(d)
    PROVE  CarryInv'
<1> USE DEF IInv
<1>1. PICK job \in batch[d], label \in {"publish", "prepare", "post"} :
        /\ pc[d] = "publish"
        /\ sqs' = sqs \cup {Serialised(d, job)}
        /\ batch' = [batch EXCEPT ![d] = @ \ {job}]
        /\ pc' = [pc EXCEPT ![d] = label]
        /\ UNCHANGED <<status, rejected, jilter, metadata, mailInfo, posted, faults, attempt,
                       accepted, mh, policy, todo, cur>>
    BY DEF Publish, Send, Unsent, Goto, inputVars, s3Vars
<1>2. PICK sent : sent = Serialised(d, job)
    OBVIOUS
<1>3. /\ sent.id = job.id
      /\ sent.ctx = IF job.ctx \in DOMAIN mh[d] THEN "inline" ELSE job.ctx
      /\ job.ctx \in DOMAIN mh[d] => sent.info = mh[d][job.ctx]
      /\ sqs' = sqs \cup {sent}
    BY <1>1, <1>2 DEF Serialised
<1>4. /\ Carried(d) /\ InHand(d, job) /\ batch'[d] = batch[d] \ {job}
      /\ pc'[d] \in {"publish", "prepare", "post"} /\ job.id.path \in Path
      /\ job.ctx \in DOMAIN mh[d] \cup {NoContext, InS3}
    BY <1>1 DEF CarryInv, InHand, TypeOK, ProcessInv, Own, Job, Stamp
<1>5. Addressed(d)'
    BY <1>1, <1>4 DEF Carried, Addressed, HasCur
<1>6. Budgeted(d)'
    BY <1>1, <1>4 DEF Carried, Budgeted, NoOrphan, Orphans
<1>7. Stamped(d)'
    <2>1. \A stamp : HasJob(d, stamp) => HasJob(d, stamp)'
        BY <1>1, <1>3, <1>4 DEF HasJob, HasCur
    <2> QED BY <1>1, <1>4, <2>1 DEF Carried, Stamped
<1>8. InContext(d)'
    <2>1. \A k : InHand(d, k)' => InHand(d, k)
        BY <1>1, <1>4 DEF InHand, HasCur
    <2> QED BY <1>1, <1>4, <2>1 DEF Carried, InContext, OwnObject
<1>9. SentInContext'
    <2>1. /\ OwnObject(job)
          /\ MailInfoIsBig => job.ctx \notin DOMAIN mh[d]
          /\ Direction = "INBOUND" /\ job.ctx \in DOMAIN mh[d] => mh[d][job.ctx] = job.id
        BY <1>4 DEF Carried, InContext
    <2>2. /\ OwnObject(sent)
          /\ MailInfoIsBig => sent.ctx # "inline"
          /\ Direction = "INBOUND" /\ sent.ctx = "inline" => sent.info = sent.id
        BY <1>3, <1>4, <2>1 DEF OwnObject, NoContext, InS3
    <2> QED BY <1>1, <1>3, <2>2 DEF CarryInv, SentInContext, OwnObject
<1>10. PostedEventHasJob'
    BY <1>1, <1>3 DEF CarryInv, PostedEventHasJob
<1>11. Apart(d)
    <2>1. faults <= faults'
        BY <1>1 DEF TypeOK
    <2> QED BY <1>1, <1>3, <2>1 DEF Apart, Only, TypeOK
<1> QED BY <1>5, <1>6, <1>7, <1>8, <1>9, <1>10, <1>11, OthersCarried DEF Carried, CarryInv

\* The events are posted when every job of the attempt is sent.
LEMMA PostCarries ==
    ASSUME IInv, IInv', CoverInv, CarryInv, NEW d \in Delivery, PostEvents(d)
    PROVE  CarryInv'
<1> USE DEF IInv
<1>1. PICK label \in {"exit", "cleanup"} :
        /\ pc[d] = "post" /\ pc' = [pc EXCEPT ![d] = label]
        /\ posted' \subseteq posted \cup ({mh[d][k] : k \in DOMAIN mh[d]} \ {NoStamp})
        /\ UNCHANGED <<status, rejected, jilter, metadata, mailInfo, sqs, faults, attempt,
                       localVars>>
    BY DEF PostEvents, Goto, inputVars, s3Vars
<1>2. pc'[d] = label /\ batch[d] = {} /\ ~HasCur(d) /\ Carried(d)
    BY <1>1 DEF TypeOK, CoverInv, Cover, CarryInv, HasCur
<1>3. \A e \in Delivery : Carried(e)'
    <2>1. HasCur(d)' <=> HasCur(d)
        BY <1>1, <1>2 DEF HasCur
    <2>2. faults <= faults'
        BY <1>1 DEF TypeOK
    <2> QED BY <1>1, <2>1, <2>2, MovesOn DEF Label
<1>4. PostedEventHasJob'
    <2>1. \A k \in DOMAIN mh[d] : mh[d][k] # NoStamp => \E s \in sqs : s.id = mh[d][k]
        BY <1>2 DEF Carried, Stamped, HasJob
    <2> QED BY <1>1, <2>1 DEF CarryInv, PostedEventHasJob
<1>5. SentInContext'
    BY <1>1 DEF CarryInv, SentInContext, OwnObject
<1> QED BY <1>3, <1>4, <1>5 DEF CarryInv

LEMMA NextCarries == IInv /\ IInv' /\ CoverInv /\ CarryInv /\ [Next]_vars => CarryInv'
<1> SUFFICES ASSUME IInv, IInv', CoverInv, CarryInv, [Next]_vars PROVE CarryInv'
    OBVIOUS
<1> USE DEF IInv
<1>1. ASSUME NEW d \in Delivery, UploadMessage(d) \/ DeleteEventsFile(d) PROVE CarryInv'
    <2>1. PICK label \in {"metadata", "exit"} :
            /\ label = "metadata" <=> HasCur(d)
            /\ pc[d] # "idle" /\ pc' = [pc EXCEPT ![d] = label]
            /\ UNCHANGED <<status, rejected, jilter, metadata, mailInfo, sqs, posted,
                           faults, attempt, localVars>>
        BY <1>1 DEF UploadMessage, DeleteEventsFile, Goto, HasCur, inputVars, s3Vars
    <2>2. HasCur(d)' <=> HasCur(d)
        BY <2>1 DEF HasCur, TypeOK
    <2>3. faults <= faults'
        BY <2>1 DEF TypeOK
    <2> QED BY <2>1, <2>2, <2>3, MovesOn, SentStays DEF CarryInv, Label
<1>2. ASSUME NEW d \in Delivery, NEW part \in todo[d], NEW first \in part.rcpts,
             NEW uploaded \in BOOLEAN, PolicyCrash(d, part, first, uploaded)
      PROVE  CarryInv'
    <2>1. /\ pc[d] = "prepare" /\ EndProcess(d)
          /\ IF MailInfoIsBig /\ HasContext(d, first) THEN Fault ELSE UNCHANGED faults
          /\ UNCHANGED <<status, rejected, jilter, metadata, mailInfo, sqs, posted, attempt>>
        BY <1>2 DEF PolicyCrash, inputVars, s3Vars
    <2>2. ASSUME ~(MailInfoIsBig /\ HasContext(d, first)) PROVE ~NoOrphan(d)
        <3>1. /\ first \in policy[d] /\ MessageContext(d, first, uploaded) = NoContext
              /\ first \in rcptsOf[d]
            BY <1>2 DEF PolicyCrash, PolicyNeedsContext, CarryInv, Carried, Addressed
        <3>2. ContextKey(first) \notin DOMAIN mh[d]
            <4>1. ASSUME HasContext(d, first), ~MailInfoIsBig
                  PROVE  MessageContext(d, first, uploaded) = ContextKey(first)
                BY <4>1 DEF MessageContext
            <4>2. DOMAIN mh[d] \subseteq EventKey /\ NoContext \notin EventKey
                BY SentinelAssumption DEF TypeOK, IsEvents
            <4> QED BY <2>2, <3>1, <4>1, <4>2, FlagAssumption DEF HasContext
        <3>3. policy[d] = jilter.policy /\ DOMAIN mh[d] = jilter.events
            BY <3>1 DEF CarryInv, Carried, Budgeted
        <3> QED BY <3>1, <3>2, <3>3 DEF NoOrphan, Orphans, ContextKey
    <2> QED BY <2>1, <2>2, EndCarries
<1>3. ASSUME NEW d \in Delivery, VisitPart(d) PROVE CarryInv'
    BY <1>2, <1>3, PrepareCarries DEF VisitPart
<1>4. ASSUME NEW d \in Delivery, ExitOk(d) PROVE CarryInv'
    BY <1>4, EndCarries DEF ExitOk, inputVars, s3Vars
<1>5. ASSUME NEW d \in Delivery, Step(d) PROVE CarryInv'
    BY <1>1, <1>3, <1>4, <1>5, InvokeCarries, SplitCarries, UploadMetadataCarries,
       PublishCarries, PostCarries DEF Step
<1>6. ASSUME NEW d \in Delivery, TempFail(d) PROVE CarryInv'
    BY <1>6, EndCarries DEF TempFail, inputVars, s3Vars
<1>7. ASSUME NEW d \in Delivery, AlarmRings(d) PROVE CarryInv'
    <2>1. CASE EndProcess(d)
        BY <1>7, <2>1, EndCarries DEF AlarmRings, inputVars, s3Vars
    <2>2. CASE pc[d] = "split" /\ UNCHANGED <<pc, localVars>>
        <3>1. pc' = [pc EXCEPT ![d] = "split"] /\ (HasCur(d)' <=> HasCur(d))
            BY <2>2 DEF TypeOK, HasCur
        <3>2. faults <= faults'
            BY <1>7 DEF AlarmRings, Fault, TypeOK
        <3> QED BY <1>7, <2>2, <3>1, <3>2, MovesOn, SentStays
                DEF AlarmRings, CarryInv, Label, inputVars, s3Vars
    <2> QED BY <1>7, <2>1, <2>2 DEF AlarmRings
<1>8. CASE UNCHANGED vars
    BY <1>8 DEF CarryInv, Carried, Addressed, Budgeted, NoOrphan, Orphans, Stamped, HasJob,
                InContext, InHand, OwnObject, SentInContext, PostedEventHasJob, HasCur,
                vars, inputVars, s3Vars, localVars
<1> QED BY <1>5, <1>6, <1>7, <1>8, GivenBackCarries DEF Next

LEMMA Carries == Spec => [](IInv /\ CoverInv /\ CarryInv)
<1>1. Init /\ IInv => CarryInv
    <2> SUFFICES ASSUME Init, IInv PROVE CarryInv
        OBVIOUS
    <2>1. ASSUME NEW d \in Delivery PROVE Carried(d)
        BY <2>1 DEF Init, Carried, Addressed, Budgeted, Stamped, InContext, InHand, HasCur,
                    NoEvents, NoMetadata
    <2> QED BY <2>1 DEF Init, CarryInv, SentInContext, PostedEventHasJob
<1> QED BY <1>1, Covered, NextCarries, PTL DEF Spec

-----------------------------------------------------------------------------
(***************************************************************************)
(* The theorems.                                                           *)
(***************************************************************************)

\* The message history never names mail that no job delivers, whatever fails
\* between the stamping of an event in the loop and its post after the loop.
THEOREM EventsNameJobs == Spec => []PostedEventHasJob
<1>1. CarryInv => PostedEventHasJob
    BY DEF CarryInv
<1> QED BY <1>1, Carries, PTL

\* For inbound mail the dicts that the jobs of a batch share with the events are
\* never changed again before they are serialised: the context in a job is its own.
THEOREM InboundContextsAreOwn ==
    ASSUME Direction = "INBOUND"
    PROVE  Spec => []InlineContextNamesItsJob
<1>1. CarryInv => InlineContextNamesItsJob
    BY DEF CarryInv, SentInContext, InlineContextNamesItsJob
<1> QED BY <1>1, Carries, PTL

\* Wherever a job's context is, it names the path of the job, but for one case:
\* a context sent within a job of an outbound mail, whose parts share one event.
THEOREM ContextsAreOwn ==
    ASSUME Direction = "INBOUND" \/ MailInfoIsBig
    PROVE  Spec => []ContextNamesItsJob
<1>1. IInv /\ CarryInv => ContextNamesItsJob
    BY DEF IInv, TypeOK, SentJob, CarryInv, SentInContext, OwnObject, ContextNamesItsJob,
           ContextStamp, InS3
<1> QED BY <1>1, Carries, PTL

\* With fewer failures than attempts, only a recipient with a policy and no accepted
\* event can use up the queue lifetime of a mail.
THEOREM OnlyOrphansExpire ==
    ASSUME MaxFaults < MaxAttempts
    PROVE  Spec => []OnlyOrphanPolicyExpires
<1>1. CarryInv => OnlyOrphanPolicyExpires
    BY DEF CarryInv, Carried, Budgeted, NoOrphan, OnlyOrphanPolicyExpires
<1> QED BY <1>1, Carries, PTL

\* The context file is deleted only by the last process that needs it: its guard is
\* about the envelope of the whole queue file and not about one delivery.
THEOREM DeletionIsSafe == Spec => DeletesOnlyUnneededFile
<1>1. IInv /\ [Next]_vars =>
        [fileExists /\ ~fileExists' =>
            \A d \in Delivery : status[d] = "queued" => pc[d] = "cleanup"]_vars
    <2> SUFFICES ASSUME IInv, [Next]_vars, fileExists, ~fileExists', NEW d \in Delivery
                 PROVE  pc[d] = "cleanup"
        OBVIOUS
    <2>1. PICK e \in Delivery : DeleteEventsFile(e)
        <3>1. ~UNCHANGED fileExists
            OBVIOUS
        <3>2. ~UNCHANGED vars
            BY <3>1 DEF vars
        <3>3. PICK e \in Delivery :
                Step(e) \/ TempFail(e) \/ AlarmRings(e) \/ StartupBounce(e) \/ Expire(e)
            BY <3>2 DEF Next
        <3>4. ~VisitPart(e)
            <4>1. \A part, first, uploaded : ~Prepare(e, part, first, uploaded)
                BY <3>1, Zenon DEF Prepare
            <4>2. \A part, first, uploaded : ~PolicyCrash(e, part, first, uploaded)
                BY <3>1, Zenon DEF PolicyCrash
            <4> QED BY <4>1, <4>2, Zenon DEF VisitPart
        <3>5. ~(TempFail(e) \/ AlarmRings(e) \/ StartupBounce(e) \/ Expire(e))
            BY <3>1, Zenon DEF TempFail, AlarmRings, StartupBounce, Expire
        <3>6. ~(\/ Invoke(e) \/ Split(e) \/ UploadMessage(e) \/ UploadMetadata(e)
                \/ Publish(e) \/ PostEvents(e) \/ ExitOk(e))
            BY <3>1, Zenon DEF Invoke, Split, UploadMessage, UploadMetadata, Publish,
                               PostEvents, ExitOk
        <3> QED BY <3>3, <3>4, <3>5, <3>6 DEF Step
    <2>2. pc[e] = "cleanup" /\ Cardinality(Recipient) = 1
        BY <2>1 DEF DeleteEventsFile, EnvRecipientListIsSingle
    <2>3. PICK r : Recipient = {r}
        BY <2>2, FiniteAssumption, FS_Singleton
    <2>4. rcptsOf[d] = {r} /\ rcptsOf[e] = {r}
        BY <2>3, DeliveryAssumption
    <2>5. d = e
        BY <2>4, DeliveryAssumption
    <2> QED BY <2>2, <2>5
<1> QED BY <1>1, InductiveInvariant, PTL DEF Spec, DeletesOnlyUnneededFile

\* Whatever a step does to the jobs and documents of d, who is handed of the other
\* deliveries stays so.
LEMMA StepReworks ==
    ASSUME IInv, IInv', CarryInv, CarryInv', NEW d \in Delivery, Only(d),
           \A s \in sqs' \ sqs : s.id.path.domain = d,
           status[d] = "queued", UNCHANGED status
    PROVE  Handoff!Rework(d)
<1> USE DEF IInv
<1>1. ASSUME NEW r \in Recipient, r \notin rcptsOf[d], r \in Handed' PROVE r \in Handed
    <2>1. PICK s \in sqs' : r \in metadata'[s.id.path].rcpts
        BY <1>1 DEF Handed
    <2>2. s.id.path \in Path /\ s.id.path.domain \in Delivery
        BY DEF TypeOK, SentJob, Stamp, Path
    <2>3. s.id.path.domain # d
        BY <1>1, <2>1, <2>2 DEF CarryInv, Carried, Addressed
    <2>4. s \in sqs /\ r \in metadata[s.id.path].rcpts
        BY <2>1, <2>2, <2>3 DEF Only
    <2> QED BY <2>4 DEF Handed, DocumentInv, JobDocumentsStored
<1>2. ASSUME NEW r \in Recipient, r \notin rcptsOf[d], r \in Handed PROVE r \in Handed'
    <2>1. PICK s \in sqs : r \in metadata[s.id.path].rcpts
        BY <1>2 DEF Handed
    <2>2. s.id.path \in Path /\ s.id.path.domain \in Delivery
        BY DEF TypeOK, SentJob, Stamp, Path
    <2>3. s.id.path.domain # d
        BY <1>2, <2>1, <2>2 DEF CarryInv, Carried, Addressed
    <2>4. s \in sqs' /\ r \in metadata'[s.id.path].rcpts
        BY <2>1, <2>2, <2>3 DEF Only
    <2> QED BY <2>4 DEF Handed, DocumentInv, JobDocumentsStored
<1>3. Handed \subseteq Recipient /\ Handed' \subseteq Recipient
    BY DEF Handed
<1>4. Recipient = Handoff!Recipients
    BY DeliveryAssumption DEF Handoff!Recipients
<1>5. Handed' \ rcptsOf[d] = Handed \ rcptsOf[d]
    BY <1>1, <1>2, <1>3
<1>6. UNCHANGED rejected
    BY DEF Only
<1> QED BY <1>3, <1>4, <1>5, <1>6 DEF Handoff!Rework

\* The producer implements the hand-over, split by user or not: an exit status 0 is a
\* Release, a bounce or an expiry a GiveBack, and every other step a Rework or a stutter.
THEOREM ProducerImplementsHandoff == Spec => ImplementsHandoff
<1> DEFINE AllInv == IInv /\ CoverInv /\ CarryInv
<1>1. Init => Handoff!Init
    <2> SUFFICES ASSUME Init PROVE Handoff!Init
        OBVIOUS
    <2>1. rejected \subseteq Recipient /\ Handed = {}
        BY JilterAssumption DEF Init, Handed
    <2> QED BY <2>1, DeliveryAssumption DEF Init, Handoff!Init, Handoff!Recipients
<1>2. AllInv /\ AllInv' /\ [Next]_vars => [Handoff!Next]_(Handoff!vars)
    <2> SUFFICES ASSUME AllInv, AllInv', [Next]_vars
                 PROVE  [Handoff!Next]_(Handoff!vars)
        OBVIOUS
    <2> USE DEF IInv
    <2>1. CASE UNCHANGED <<status, rejected, messages, metadata, sqs>>
        BY <2>1 DEF Handoff!vars, Handed
    <2>2. ASSUME NEW d \in Delivery, pc[d] # "idle", UNCHANGED status, Only(d),
                 \A s \in sqs' \ sqs : s.id.path.domain = d
          PROVE  Handoff!Next
        <3>1. status[d] = "queued"
            BY <2>2 DEF CarryInv, Carried, Addressed
        <3> QED BY <2>2, <3>1, StepReworks DEF Handoff!Next
    <2>3. ASSUME NEW d \in Delivery, UploadMessage(d) PROVE Handoff!Next
        BY <2>2, <2>3 DEF UploadMessage, Goto, Only, TypeOK, inputVars, localVars
    <2>4. ASSUME NEW d \in Delivery, UploadMetadata(d) PROVE Handoff!Next
        <3>1. cur[d].id.path \in Path /\ cur[d].id.path.domain = d
            BY <2>4 DEF UploadMetadata, ProcessInv, HasCur, Own, Job, Stamp
        <3>2. Only(d)
            BY <2>4, <3>1 DEF UploadMetadata, Goto, Only, TypeOK, inputVars
        <3> QED BY <2>2, <2>4, <3>2 DEF UploadMetadata
    <2>5. ASSUME NEW d \in Delivery, Publish(d) PROVE Handoff!Next
        <3>1. PICK job \in batch[d] : sqs' = sqs \cup {Serialised(d, job)}
            BY <2>5 DEF Publish, Send
        <3>2. Serialised(d, job).id.path.domain = d
            BY SerialisedTyped DEF ProcessInv, Own
        <3>3. Only(d)
            BY <2>5, <3>1 DEF Publish, Goto, Only, TypeOK, inputVars, s3Vars
        <3> QED BY <2>2, <2>5, <3>1, <3>2, <3>3 DEF Publish
    <2>6. ASSUME NEW d \in Delivery, ExitOk(d) PROVE Handoff!Next
        <3>1. /\ status[d] = "queued" /\ status' = [status EXCEPT ![d] = "sent"]
              /\ UNCHANGED <<rejected, messages, metadata, sqs>>
            BY <2>6 DEF ExitOk, inputVars, s3Vars, CarryInv, Carried, Addressed
        <3>2. status'[d] = "sent"
            BY <3>1 DEF TypeOK
        <3>3. ASSUME NEW r \in Handoff!Required(d) PROVE Handoff!Served(d, r)
            <4>1. r \in rcptsOf[d] \ rejected
                BY DEF Handoff!Required
            <4>2. PICK q \in Recipient : StandsFor(d, q, r) /\ HandedBy(d, q)'
                BY <3>1, <3>2, <4>1 DEF CoverInv, Cover, StandsFor
            <4>3. q \in Handed
                <5>1. HandedBy(d, q)
                    BY <3>1, <4>2 DEF HandedBy
                <5> QED BY <5>1, HandedByIsHanded
            <4>4. q \in StandIns(d, r)
                BY <4>1, <4>2 DEF StandsFor, StandIns
            <4> QED BY <4>1, <4>3, <4>4 DEF Handoff!Served
        <3>4. UNCHANGED Handed
            BY <3>1 DEF Handed
        <3>5. Handoff!Release(d)
            BY <3>1, <3>3, <3>4 DEF Handoff!Release
        <3> QED BY <3>5 DEF Handoff!Next
    <2>7. ASSUME NEW d \in Delivery, StartupBounce(d) \/ Expire(d) PROVE Handoff!Next
        <3>1. /\ status[d] = "queued"
              /\ \E s \in {"bounced", "expired"} : status' = [status EXCEPT ![d] = s]
              /\ UNCHANGED <<rejected, messages, metadata, sqs>>
            BY <2>7 DEF StartupBounce, Expire, inputVars, s3Vars
        <3>2. UNCHANGED Handed
            BY <3>1 DEF Handed
        <3> QED BY <3>1, <3>2 DEF Handoff!GiveBack, Handoff!Next
    <2>8. ASSUME NEW d \in Delivery,
                 \/ Invoke(d) \/ Split(d) \/ PostEvents(d) \/ DeleteEventsFile(d)
                 \/ TempFail(d) \/ AlarmRings(d)
          PROVE  UNCHANGED <<status, rejected, messages, metadata, sqs>>
        BY <2>8 DEF Invoke, Split, PostEvents, DeleteEventsFile, TempFail, AlarmRings,
                    inputVars, s3Vars
    <2>9. ASSUME NEW d \in Delivery, VisitPart(d)
          PROVE  UNCHANGED <<status, rejected, messages, metadata, sqs>>
        BY <2>9 DEF VisitPart, Prepare, PolicyCrash, inputVars, s3Vars
    <2>10. CASE UNCHANGED vars
        BY <2>1, <2>10 DEF vars, inputVars, s3Vars
    <2> QED BY <2>1, <2>3, <2>4, <2>5, <2>6, <2>7, <2>8, <2>9, <2>10 DEF Next, Step
<1>3. Spec => []AllInv
    BY Carries
<1> HIDE DEF AllInv
<1> QED BY <1>1, <1>2, <1>3, PTL DEF Spec, ImplementsHandoff, Handoff!Spec

\* What is handed over of a delivery that Postfix has forgotten never moves again,
\* neither by a retry of another delivery nor by a process that still runs.
HandedStays ==
    [][\A d \in Delivery :
        status[d] = "sent" => Handed' \cap rcptsOf[d] = Handed \cap rcptsOf[d]]_vars

\* It follows from the abstract specification: only a queued delivery is reworked, and
\* no recipient belongs to two deliveries.
THEOREM ReleasedMailStays == Spec => HandedStays
<1>1. [Handoff!Next]_(Handoff!vars) =>
        \A d \in Delivery : status[d] = "sent" => Handed' \cap rcptsOf[d] = Handed \cap rcptsOf[d]
    <2> SUFFICES ASSUME [Handoff!Next]_(Handoff!vars), NEW d \in Delivery, status[d] = "sent"
                 PROVE  Handed' \cap rcptsOf[d] = Handed \cap rcptsOf[d]
        OBVIOUS
    <2>1. ASSUME NEW e \in Delivery, Handoff!Rework(e)
          PROVE  Handed' \cap rcptsOf[d] = Handed \cap rcptsOf[d]
        <3>1. rcptsOf[d] \cap rcptsOf[e] = {}
            BY <2>1, DeliveryAssumption DEF Handoff!Rework
        <3>2. Handed' \ rcptsOf[e] = Handed \ rcptsOf[e]
            BY <2>1 DEF Handoff!Rework
        <3> QED BY <3>1, <3>2
    <2>2. ASSUME NEW e \in Delivery, Handoff!Release(e) \/ Handoff!GiveBack(e)
          PROVE  Handed' = Handed
        BY <2>2 DEF Handoff!Release, Handoff!GiveBack
    <2> QED BY <2>1, <2>2 DEF Handoff!Next, Handoff!vars
<1> QED BY <1>1, ProducerImplementsHandoff, PTL
        DEF ImplementsHandoff, Handoff!Spec, HandedStays
=============================================================================
