--------------------------- MODULE SubmitWorkProofs ---------------------------
(***************************************************************************)
(* Theorems about one run of the submit producer's script: its loop over   *)
(* the parts and the batches always has something to do, keeps within the  *)
(* batch size of SQS, and comes to its end.                                *)
(***************************************************************************)
EXTENDS SubmitProducerProofs, FiniteSetTheorems

-----------------------------------------------------------------------------
(***************************************************************************)
(* What is stated.                                                         *)
(***************************************************************************)

\* No place of the script waits for something that does not come: the loop has a part
\* with a recipient to visit, a batch that is sent has a job, and a split exists.
NeverStuck ==
    \A d \in Delivery :
        /\ pc[d] = "split" => Splits(d) # {}
        /\ pc[d] = "prepare" => todo[d] # {}
        /\ pc[d] = "publish" => batch[d] # {}
        /\ \A part \in todo[d] : part.rcpts # {}

\* sqs_message_json_queue never holds more than SQS_BATCH_SIZE jobs, so that
\* send_message_batch, which takes no more, takes them all.
BatchesFit == \A d \in Delivery : Cardinality(batch[d]) <= SqsBatchSize

\* The steps of a run of the script, whatever ends it.
Runs(d) == (Step(d) /\ ~Invoke(d)) \/ TempFail(d) \/ AlarmRings(d)

Weight(label) ==
    CASE label = "message" -> 6
      [] label = "metadata" -> 5
      [] label \in {"prepare", "publish", "post"} -> 3
      [] label = "cleanup" -> 2
      [] label = "exit" -> 1
      [] OTHER -> 0

\* A part costs four steps at most; before the split there may be one for each recipient.
Left(d) ==
    IF pc[d] = "split"
    THEN 4 * Cardinality(Recipient) + 4 + (IF alarm[d] = "armed" THEN 1 ELSE 0)
    ELSE 4 * Cardinality(todo[d]) + Cardinality(batch[d]) + Weight(pc[d])

\* Each step of a run takes some of the work away, the alarm that the script survives
\* included, and no other delivery adds to it.
LeftShrinks ==
    [][\A d \in Delivery :
        /\ Runs(d) => Left(d)' < Left(d)
        /\ ~Runs(d) /\ ~Invoke(d) => Left(d)' = Left(d)]_vars

\* The work left is a number, and no more than what an attempt at all recipients takes.
LeftIsBounded == \A d \in Delivery : Left(d) \in 0..(4 * Cardinality(Recipient) + 5)

-----------------------------------------------------------------------------
(***************************************************************************)
(* The parts.                                                              *)
(***************************************************************************)
LEMMA FewImages ==
    ASSUME NEW R \in SUBSET Recipient, NEW T, NEW g,
           \A r \in R : g[r] \in T, \A x \in T : \E r \in R : g[r] = x
    PROVE  /\ IsFiniteSet(T) /\ Cardinality(T) \in Nat
           /\ Cardinality(T) <= Cardinality(Recipient)
<1>1. IsFiniteSet(R) /\ Cardinality(R) <= Cardinality(Recipient)
    BY FiniteAssumption, FS_Subset
<1>2. PICK f : f = [r \in R |-> g[r]]
    OBVIOUS
<1>3. f \in Surjection(R, T)
    BY <1>2 DEF Surjection
<1>4. IsFiniteSet(T) /\ Cardinality(T) <= Cardinality(R)
    BY <1>1, <1>3, FS_Surjection
<1>5. Cardinality(T) \in Nat /\ Cardinality(R) \in Nat /\ Cardinality(Recipient) \in Nat
    BY <1>1, <1>4, FiniteAssumption, FS_CardinalityType
<1> QED BY <1>1, <1>4, <1>5

\* However the mail is split, there is a recipient in every part and there are no more
\* parts than recipients.
LEMMA FewParts ==
    ASSUME NEW d \in Delivery, accepted[d] \in SUBSET Recipient, accepted[d] # {},
           NEW parts \in Splits(d)
    PROVE  /\ \A part \in parts : part.rcpts # {}
           /\ parts # {}
           /\ IsFiniteSet(parts) /\ Cardinality(parts) \in Nat
           /\ Cardinality(parts) <= Cardinality(Recipient)
<1> DEFINE R == accepted[d]
<1>1. PICK g : /\ \A r \in R : g[r] \in parts
               /\ \A part \in parts : part.rcpts # {} /\ \E r \in R : g[r] = part
    <2>1. ASSUME NEW f, parts = GroupBy(f, R)
          PROVE  \E g : /\ \A r \in R : g[r] \in parts
                        /\ \A part \in parts : part.rcpts # {} /\ \E r \in R : g[r] = part
        <3>1. PICK g : g = [r \in R |-> Part(f[r], {q \in R : f[q] = f[r]})]
            OBVIOUS
        <3>2. \A r \in R : g[r] \in parts
            BY <2>1, <3>1 DEF GroupBy
        <3>3. ASSUME NEW part \in parts PROVE part.rcpts # {} /\ \E r \in R : g[r] = part
            <4>1. PICK r \in R : part = Part(f[r], {q \in R : f[q] = f[r]})
                <5>1. PICK k \in {f[r] : r \in R} : part = Part(k, {q \in R : f[q] = k})
                    BY <2>1 DEF GroupBy
                <5>2. PICK r \in R : k = f[r]
                    OBVIOUS
                <5> QED BY <5>1, <5>2
            <4>2. r \in part.rcpts
                BY <4>1 DEF Part
            <4> QED BY <3>1, <4>1, <4>2
        <3> QED BY <3>2, <3>3
    <2>2. CASE parts = OutboundParts(R)
        <3>1. PICK g : g = [r \in R |-> Part(r, {r})]
            OBVIOUS
        <3>2. \A r \in R : g[r] \in parts
            BY <2>2, <3>1 DEF OutboundParts
        <3>3. ASSUME NEW part \in parts PROVE part.rcpts # {} /\ \E r \in R : g[r] = part
            <4>1. PICK r \in R : part = Part(r, {r})
                BY <2>2 DEF OutboundParts
            <4>2. part.rcpts = {r}
                BY <4>1 DEF Part
            <4> QED BY <3>1, <4>1, <4>2
        <3> QED BY <3>2, <3>3
    <2>3. CASE parts = BaseParts(R)
        <3>1. PICK g : g = [r \in R |-> Part(BaseKey, R)]
            OBVIOUS
        <3> QED BY <2>3, <3>1 DEF BaseParts, Part
    <2>4. CASE parts = MsgHistoryParts(R) \/ parts \in PolicyParts(R)
        BY <2>1, <2>4 DEF MsgHistoryParts, PolicyParts
    <2>5. CASE parts \in UserParts(R)
        <3> DEFINE Owners == {OwnerOf[r] : r \in R}
        <3>1. PICK f \in [Owners -> R] : parts = {Part(o, {f[o]}) : o \in Owners}
            BY <2>5 DEF UserParts
        <3> HIDE DEF R
        <3>2. PICK g : g = [r \in R |-> Part(OwnerOf[r], {f[OwnerOf[r]]})]
            OBVIOUS
        <3>3. \A r \in R : g[r] \in parts
            BY <3>1, <3>2
        <3>4. ASSUME NEW part \in parts PROVE part.rcpts # {} /\ \E r \in R : g[r] = part
            <4>1. PICK o \in Owners : part = Part(o, {f[o]})
                BY <3>1
            <4>2. PICK r \in R : o = OwnerOf[r]
                OBVIOUS
            <4>3. part.rcpts = {f[o]}
                BY <4>1 DEF Part
            <4> QED BY <3>2, <4>1, <4>2, <4>3
        <3> QED BY <3>3, <3>4
    <2> QED BY <2>2, <2>3, <2>4, <2>5 DEF Splits, FallbackSplits
<1>2. PICK r \in R : TRUE
    OBVIOUS
<1>3. parts # {}
    BY <1>1, <1>2
<1>4. \A part \in parts : \E q \in R : g[q] = part
    BY <1>1
<1> HIDE DEF R
<1>5. R \in SUBSET Recipient
    BY DEF R
<1> QED BY <1>1, <1>3, <1>4, <1>5, FewImages

LEMMA SplitsExist == ASSUME NEW d \in Delivery PROVE Splits(d) # {}
BY DEF Splits, FallbackSplits

-----------------------------------------------------------------------------
(***************************************************************************)
(* The steps of a run.                                                     *)
(***************************************************************************)

\* What a run of the script has to do, and what its batch has room for.
Loop(d) ==
    /\ pc[d] = "split" => accepted[d] # {}
    /\ pc[d] = "prepare" => todo[d] # {}
    /\ pc[d] = "publish" => batch[d] # {}
    /\ \A part \in todo[d] : part.rcpts # {}
    /\ IsFiniteSet(todo[d]) /\ Cardinality(todo[d]) \in Nat
    /\ IsFiniteSet(batch[d]) /\ Cardinality(batch[d]) \in Nat
    /\ Cardinality(batch[d]) <= SqsBatchSize
    /\ pc[d] \in {"prepare", "message", "metadata"} => Cardinality(batch[d]) < SqsBatchSize
    /\ Left(d) \in 0..(4 * Cardinality(Recipient) + 5)

LoopInv == \A d \in Delivery : Loop(d)

\* The process of d is gone.
Ended(d) == pc[d] # "idle" /\ pc'[d] = "idle" /\ todo'[d] = {} /\ batch'[d] = {}

\* The bare except catches the exit of the signal handler.
Survived(d) ==
    /\ pc[d] = "split" /\ alarm[d] = "armed"
    /\ pc'[d] = "split" /\ alarm'[d] = "spent"
    /\ todo'[d] = todo[d] /\ batch'[d] = batch[d] /\ accepted'[d] = accepted[d]

Divided(d) ==
    /\ pc[d] = "split" /\ pc'[d] = "prepare"
    /\ todo'[d] \in Splits(d) /\ batch'[d] = batch[d]

Prepared(d) ==
    /\ pc[d] = "prepare" /\ pc'[d] = "message"
    /\ batch'[d] = batch[d]
    /\ \E part \in todo[d] : todo'[d] = todo[d] \ {part}

Collected(d) ==
    /\ pc[d] = "metadata" /\ pc'[d] = AfterUpload(d, batch'[d])
    /\ todo'[d] = todo[d]
    /\ \E job : job \notin batch[d] /\ batch'[d] = batch[d] \cup {job}

Sent(d) ==
    /\ pc[d] = "publish" /\ todo'[d] = todo[d]
    /\ \E job \in batch[d] :
        /\ batch'[d] = batch[d] \ {job}
        /\ pc'[d] = IF batch[d] # {job} THEN "publish"
                    ELSE IF todo[d] # {} THEN "prepare" ELSE "post"

Passed(d) ==
    /\ todo'[d] = todo[d] /\ batch'[d] = batch[d]
    /\ \/ pc[d] = "message" /\ pc'[d] = "metadata"
       \/ pc[d] = "post" /\ pc'[d] \in {"cleanup", "exit"}
       \/ pc[d] = "cleanup" /\ pc'[d] = "exit"

LEMMA RunMoves ==
    ASSUME IInv, NEW d \in Delivery, Runs(d)
    PROVE  \/ Ended(d) \/ Survived(d) \/ Divided(d) \/ Prepared(d) \/ Collected(d)
           \/ Sent(d) \/ Passed(d)
<1> USE DEF IInv, TypeOK, Goto, localVars, s3Vars
<1>1. CASE Split(d)
    BY <1>1 DEF Split, Divided
<1>2. CASE VisitPart(d)
    <2>1. PICK part \in todo[d] : \E first \in part.rcpts, uploaded \in BOOLEAN :
            Prepare(d, part, first, uploaded) \/ PolicyCrash(d, part, first, uploaded)
        BY <1>2 DEF VisitPart
    <2>2. ASSUME NEW first, NEW uploaded, Prepare(d, part, first, uploaded) PROVE Prepared(d)
        <3>1. /\ pc[d] = "prepare" /\ pc' = [pc EXCEPT ![d] = "message"]
              /\ todo' = [todo EXCEPT ![d] = @ \ {part}] /\ batch' = batch
            BY <2>2 DEF Prepare
        <3> QED BY <3>1 DEF Prepared
    <2>3. ASSUME NEW first, NEW uploaded, PolicyCrash(d, part, first, uploaded) PROVE Ended(d)
        <3>1. pc[d] = "prepare" /\ EndProcess(d)
            BY <2>3 DEF PolicyCrash
        <3> QED BY <3>1 DEF EndProcess, Ended
    <2> QED BY <2>1, <2>2, <2>3
<1>3. CASE UploadMessage(d)
    BY <1>3 DEF UploadMessage, Passed
<1>4. CASE UploadMetadata(d)
    <2>1. /\ pc[d] = "metadata" /\ pc' = [pc EXCEPT ![d] = AfterUpload(d, batch'[d])]
          /\ todo' = todo
          /\ batch' = [batch EXCEPT ![d] = @ \cup {cur[d]}]
        BY <1>4 DEF UploadMetadata
    <2>2. cur[d] \notin batch[d]
        BY <2>1 DEF FreshInv, HasCur, Unused
    <2> QED BY <2>1, <2>2 DEF Collected
<1>5. CASE Publish(d)
    BY <1>5 DEF Publish, Unsent, Sent
<1>6. CASE PostEvents(d) \/ DeleteEventsFile(d)
    BY <1>6 DEF PostEvents, DeleteEventsFile, Passed
<1>7. CASE ExitOk(d) \/ TempFail(d)
    <2>1. pc[d] # "idle" /\ EndProcess(d)
        BY <1>7 DEF ExitOk, TempFail
    <2> QED BY <2>1 DEF EndProcess, Ended
<1>8. CASE AlarmRings(d)
    <2>1. \/ pc[d] # "idle" /\ EndProcess(d)
          \/ /\ pc[d] = "split" /\ alarm[d] = "armed"
             /\ alarm' = [alarm EXCEPT ![d] = "spent"]
             /\ UNCHANGED <<pc, todo, batch, accepted>>
        BY <1>8 DEF AlarmRings
    <2> QED BY <2>1 DEF EndProcess, Ended, Survived
<1> QED BY <1>1, <1>2, <1>3, <1>4, <1>5, <1>6, <1>7, <1>8 DEF Runs, Step

\* A run begins with nothing, and with a recipient if there is anything to split.
LEMMA InvokeMoves ==
    ASSUME IInv, NEW d \in Delivery, Invoke(d)
    PROVE  /\ todo'[d] = {} /\ batch'[d] = {}
           /\ \/ pc'[d] = "exit"
              \/ pc'[d] = "split" /\ accepted'[d] # {}
<1>1. todo' = todo /\ batch' = batch /\ pc[d] = "idle"
    BY DEF Invoke
<1>2. todo[d] = {} /\ batch[d] = {}
    BY <1>1 DEF IInv, ProcessInv
<1>3. PICK R : /\ accepted' = [accepted EXCEPT ![d] = R]
               /\ pc' = [pc EXCEPT ![d] = IF R = {} THEN "exit" ELSE "split"]
    BY DEF Invoke, Goto
<1>4. accepted'[d] = R /\ pc'[d] = IF R = {} THEN "exit" ELSE "split"
    BY <1>3 DEF IInv, TypeOK
<1> QED BY <1>1, <1>2, <1>4

\* What another delivery is at stays as it is.
Rests(d) ==
    /\ pc'[d] = pc[d] /\ alarm'[d] = alarm[d] /\ accepted'[d] = accepted[d]
    /\ todo'[d] = todo[d] /\ batch'[d] = batch[d]

LEMMA OthersRest ==
    ASSUME IInv, Next, NEW d \in Delivery, ~Runs(d), ~Invoke(d)
    PROVE  Rests(d)
<1> USE DEF IInv, TypeOK, Goto, localVars, Rests
<1>1. ASSUME NEW e \in Delivery, Runs(e) \/ Invoke(e) PROVE Rests(d)
    <2> e # d
        BY <1>1
    <2>1. ASSUME EndProcess(e) PROVE Rests(d)
        BY <2>1 DEF EndProcess
    <2>2. CASE Invoke(e) \/ Split(e)
        BY <2>2 DEF Invoke, Split
    <2>3. CASE VisitPart(e)
        BY <2>1, <2>3 DEF VisitPart, Prepare, PolicyCrash
    <2>4. CASE UploadMessage(e) \/ UploadMetadata(e)
        BY <2>4 DEF UploadMessage, UploadMetadata
    <2>5. CASE Publish(e) \/ PostEvents(e) \/ DeleteEventsFile(e)
        BY <2>5 DEF Publish, PostEvents, DeleteEventsFile
    <2>6. CASE ExitOk(e) \/ TempFail(e) \/ AlarmRings(e)
        BY <2>1, <2>6 DEF ExitOk, TempFail, AlarmRings
    <2> QED BY <1>1, <2>2, <2>3, <2>4, <2>5, <2>6 DEF Runs, Step
<1>2. ASSUME NEW e \in Delivery, StartupBounce(e) \/ Expire(e) PROVE Rests(d)
    BY <1>2 DEF StartupBounce, Expire
<1>3. CASE UNCHANGED vars
    BY <1>3 DEF vars
<1> QED BY <1>1, <1>2, <1>3 DEF Next, Runs

-----------------------------------------------------------------------------
(***************************************************************************)
(* The work left.                                                          *)
(***************************************************************************)
LEMMA Weights ==
    ASSUME NEW label
    PROVE  /\ label = "message" => Weight(label) = 6
           /\ label = "metadata" => Weight(label) = 5
           /\ label \in {"prepare", "publish", "post"} => Weight(label) = 3
           /\ label = "cleanup" => Weight(label) = 2
           /\ label = "exit" => Weight(label) = 1
           /\ label = "idle" => Weight(label) = 0
           /\ Weight(label) \in 0..6
BY DEF Weight

\* The parts and the batch after a step, and what that step leaves.
LEMMA LoopKept ==
    ASSUME NEW d \in Delivery, LoopInv,
           pc'[d] = "split" => accepted'[d] # {},
           pc'[d] = "prepare" => todo'[d] # {},
           pc'[d] = "publish" => batch'[d] # {},
           \A part \in todo'[d] : part.rcpts # {},
           IsFiniteSet(todo'[d]), IsFiniteSet(batch'[d]),
           Cardinality(batch'[d]) <= SqsBatchSize,
           pc'[d] \in {"prepare", "message", "metadata"} => Cardinality(batch'[d]) < SqsBatchSize,
           Left(d)' \in Nat, Left(d)' < Left(d)
    PROVE  Loop(d)' /\ Left(d)' < Left(d)
<1>1. Left(d) \in 0..(4 * Cardinality(Recipient) + 5)
    BY DEF LoopInv, Loop
<1>2. Cardinality(Recipient) \in Nat
    BY FiniteAssumption, FS_CardinalityType
<1>3. Left(d)' \in 0..(4 * Cardinality(Recipient) + 5)
    BY <1>1, <1>2
<1>4. Cardinality(todo'[d]) \in Nat /\ Cardinality(batch'[d]) \in Nat
    BY FS_CardinalityType
<1> QED BY <1>3, <1>4 DEF Loop

LEMMA RunWorks ==
    ASSUME IInv, LoopInv, NEW d \in Delivery, Runs(d)
    PROVE  Loop(d)' /\ Left(d)' < Left(d)
<1>1. PICK n \in Nat : n = Cardinality(Recipient)
    BY FiniteAssumption, FS_CardinalityType
<1>2. PICK t \in Nat, b \in Nat :
        /\ t = Cardinality(todo[d]) /\ b = Cardinality(batch[d]) /\ b <= SqsBatchSize
        /\ pc[d] \in {"prepare", "message", "metadata"} => b < SqsBatchSize
    BY DEF LoopInv, Loop
<1>3. IsFiniteSet(todo[d]) /\ IsFiniteSet(batch[d]) /\ \A part \in todo[d] : part.rcpts # {}
    BY DEF LoopInv, Loop
<1>4. pc[d] # "split" => Left(d) = 4 * t + b + Weight(pc[d])
    BY <1>2 DEF Left
<1>5. pc'[d] # "split" =>
        Left(d)' = 4 * Cardinality(todo'[d]) + Cardinality(batch'[d]) + Weight(pc'[d])
    BY DEF Left
<1>6. pc[d] = "split" => Left(d) = 4 * n + 4 \/ Left(d) = 4 * n + 5
    <2>1. CASE alarm[d] = "armed"
        BY <1>1, <2>1 DEF Left
    <2>2. CASE alarm[d] # "armed"
        BY <1>1, <2>2 DEF Left
    <2> QED BY <2>1, <2>2
<1>7. SqsBatchSize \in Nat \ {0}
    BY BoundAssumption
<1>8. CASE Ended(d)
    <2>1. Cardinality({}) = 0 /\ IsFiniteSet({})
        BY FS_EmptySet
    <2>2. Left(d)' = 0
        BY <1>5, <1>8, <2>1, Weights DEF Ended
    <2>3. Left(d) > 0
        <3>1. CASE pc[d] = "split"
            BY <1>6, <3>1
        <3>2. CASE pc[d] # "split"
            <4>1. Weight(pc[d]) \in 1..6
                <5>1. pc[d] \in {"prepare", "message", "metadata", "publish", "post", "cleanup",
                                 "exit"}
                    BY <1>8, <3>2 DEF Ended, IInv, TypeOK, Label
                <5> QED BY <5>1, Weights
            <4> QED BY <1>2, <1>4, <3>2, <4>1
        <3> QED BY <3>1, <3>2
    <2> QED BY <1>7, <1>8, <2>1, <2>2, <2>3, LoopKept DEF Ended
<1>9. CASE Survived(d)
    <2>1. Left(d)' = 4 * n + 4 /\ Left(d) = 4 * n + 5
        BY <1>1, <1>9 DEF Survived, Left
    <2>2. Left(d)' \in Nat /\ Left(d)' < Left(d)
        BY <2>1
    <2> QED BY <1>2, <1>3, <1>9, <2>2, LoopKept DEF Survived, LoopInv, Loop
<1>10. CASE Divided(d)
    <2>1. accepted[d] \in SUBSET Recipient /\ accepted[d] # {} /\ batch[d] = {}
        BY <1>10 DEF Divided, IInv, TypeOK, ProcessInv, LoopInv, Loop
    <2>2. /\ \A part \in todo'[d] : part.rcpts # {}
          /\ todo'[d] # {} /\ IsFiniteSet(todo'[d])
          /\ Cardinality(todo'[d]) \in Nat /\ Cardinality(todo'[d]) <= n
        BY <1>1, <1>10, <2>1, FewParts DEF Divided
    <2>3. Cardinality(batch'[d]) = 0 /\ IsFiniteSet(batch'[d])
        BY <1>10, <2>1, FS_EmptySet DEF Divided
    <2>4. Left(d)' = 4 * Cardinality(todo'[d]) + 0 + 3
        BY <1>5, <1>10, <2>3, Weights DEF Divided
    <2>5. Left(d)' \in Nat /\ Left(d)' < Left(d)
        BY <1>6, <1>10, <2>2, <2>4 DEF Divided
    <2> QED BY <1>7, <1>10, <2>2, <2>3, <2>5, LoopKept DEF Divided
<1>11. CASE Prepared(d)
    <2>1. PICK part \in todo[d] : todo'[d] = todo[d] \ {part}
        BY <1>11 DEF Prepared
    <2>2. IsFiniteSet(todo'[d]) /\ Cardinality(todo'[d]) = t - 1 /\ t > 0
        <3>1. t # 0
            BY <1>2, <1>3, <2>1, FS_EmptySet
        <3>2. Cardinality(todo[d] \ {part}) = Cardinality(todo[d]) - 1 /\ IsFiniteSet(todo[d] \ {part})
            BY <1>3, <2>1, FS_RemoveElement
        <3> QED BY <1>2, <2>1, <3>1, <3>2
    <2>3. Left(d) = 4 * t + b + 3
        BY <1>4, <1>11, Weights DEF Prepared
    <2>4. Left(d)' = 4 * (t - 1) + b + 6
        BY <1>2, <1>5, <1>11, <2>2, Weights DEF Prepared
    <2>5. Left(d)' \in Nat /\ Left(d)' < Left(d)
        BY <2>2, <2>3, <2>4
    <2>6. \A p \in todo'[d] : p.rcpts # {}
        BY <1>3, <2>1
    <2> QED BY <1>2, <1>3, <1>11, <2>2, <2>5, <2>6, LoopKept DEF Prepared
<1>12. CASE Collected(d)
    <2>1. PICK job : job \notin batch[d] /\ batch'[d] = batch[d] \cup {job}
        BY <1>12 DEF Collected
    <2>2. IsFiniteSet(batch'[d]) /\ Cardinality(batch'[d]) = b + 1 /\ batch'[d] # {}
        <3>1. /\ IsFiniteSet(batch[d] \cup {job})
              /\ Cardinality(batch[d] \cup {job}) = Cardinality(batch[d]) + 1
            BY <1>3, <2>1, FS_AddElement
        <3> QED BY <1>2, <2>1, <3>1
    <2>3. \/ pc'[d] = "publish"
          \/ pc'[d] = "prepare" /\ todo[d] # {} /\ b + 1 # SqsBatchSize
        BY <1>12, <2>2 DEF Collected, AfterUpload
    <2>4. Left(d) = 4 * t + b + 5
        BY <1>4, <1>12, Weights DEF Collected
    <2>5. Left(d)' = 4 * t + (b + 1) + 3
        BY <1>2, <1>5, <1>12, <2>2, <2>3, Weights DEF Collected
    <2>6. Left(d)' \in Nat /\ Left(d)' < Left(d)
        BY <2>4, <2>5
    <2>7. /\ b + 1 <= SqsBatchSize
          /\ pc'[d] \in {"prepare", "message", "metadata"} => b + 1 < SqsBatchSize
        BY <1>2, <1>7, <1>12, <2>3 DEF Collected
    <2> QED BY <1>3, <1>12, <2>2, <2>3, <2>6, <2>7, LoopKept DEF Collected
<1>13. CASE Sent(d)
    <2>1. PICK job \in batch[d] :
            /\ batch'[d] = batch[d] \ {job}
            /\ pc'[d] = IF batch[d] # {job} THEN "publish"
                        ELSE IF todo[d] # {} THEN "prepare" ELSE "post"
        BY <1>13 DEF Sent
    <2>2. IsFiniteSet(batch'[d]) /\ Cardinality(batch'[d]) = b - 1 /\ b > 0
        <3>1. b # 0
            BY <1>2, <1>3, <2>1, FS_EmptySet
        <3> QED BY <1>2, <1>3, <2>1, <3>1, FS_RemoveElement
    <2>3. pc'[d] \in {"publish", "prepare", "post"}
        BY <2>1
    <2>4. /\ pc'[d] = "publish" => batch'[d] # {}
          /\ pc'[d] = "prepare" => todo'[d] # {}
        BY <1>13, <2>1 DEF Sent
    <2>5. Left(d) = 4 * t + b + 3
        BY <1>4, <1>13, Weights DEF Sent
    <2>6. Left(d)' = 4 * t + (b - 1) + 3
        BY <1>2, <1>5, <1>13, <2>2, <2>3, Weights DEF Sent
    <2>7. Left(d)' \in Nat /\ Left(d)' < Left(d)
        BY <2>2, <2>5, <2>6
    <2>8. b - 1 < SqsBatchSize /\ b - 1 <= SqsBatchSize
        BY <1>2, <1>7, <2>2
    <2> QED BY <1>3, <1>13, <2>2, <2>3, <2>4, <2>7, <2>8, LoopKept DEF Sent
<1>14. CASE Passed(d)
    <2>1. /\ \/ pc[d] = "message" /\ pc'[d] = "metadata"
             \/ pc[d] = "post" /\ pc'[d] = "cleanup"
             \/ pc[d] = "post" /\ pc'[d] = "exit"
             \/ pc[d] = "cleanup" /\ pc'[d] = "exit"
          /\ todo'[d] = todo[d] /\ batch'[d] = batch[d]
        BY <1>14 DEF Passed
    <2>2. PICK u, w : u = pc[d] /\ w = pc'[d]
        OBVIOUS
    <2>3. Weight(u) \in Nat /\ Weight(w) \in Nat /\ Weight(w) < Weight(u)
        BY <2>1, <2>2, Weights
    <2>4. Left(d) = 4 * t + b + Weight(u) /\ Left(d)' = 4 * t + b + Weight(w)
        BY <1>2, <1>4, <1>5, <2>1, <2>2
    <2>5. Left(d)' \in Nat /\ Left(d)' < Left(d)
        BY <2>3, <2>4
    <2> QED BY <1>2, <1>3, <2>1, <2>5, LoopKept
<1> QED BY <1>8, <1>9, <1>10, <1>11, <1>12, <1>13, <1>14, RunMoves

LEMMA InvokeWorks ==
    ASSUME IInv, NEW d \in Delivery, Invoke(d)
    PROVE  Loop(d)'
<1>1. Cardinality(Recipient) \in Nat
    BY FiniteAssumption, FS_CardinalityType
<1>2. Cardinality({}) = 0 /\ IsFiniteSet({}) /\ SqsBatchSize \in Nat
    BY FS_EmptySet, BoundAssumption
<1>3. Left(d)' \in 0..(4 * Cardinality(Recipient) + 5)
    <2>1. CASE pc'[d] = "exit"
        <3>1. Weight(pc'[d]) = 1
            BY <2>1, Weights
        <3>2. Left(d)' = 4 * 0 + 0 + 1
            BY <1>2, <2>1, <3>1, InvokeMoves DEF Left
        <3> QED BY <1>1, <3>2
    <2>2. CASE pc'[d] = "split"
        <3>1. \/ Left(d)' = 4 * Cardinality(Recipient) + 4
              \/ Left(d)' = 4 * Cardinality(Recipient) + 5
            <4>1. CASE alarm'[d] = "armed"
                BY <1>1, <2>2, <4>1 DEF Left
            <4>2. CASE alarm'[d] # "armed"
                BY <1>1, <2>2, <4>2 DEF Left
            <4> QED BY <4>1, <4>2
        <3> QED BY <1>1, <3>1
    <2> QED BY <2>1, <2>2, InvokeMoves
<1>4. todo'[d] = {} /\ batch'[d] = {}
    BY InvokeMoves
<1>5. /\ pc'[d] = "split" => accepted'[d] # {}
      /\ pc'[d] \notin {"prepare", "publish", "message", "metadata"}
    BY InvokeMoves
<1> QED BY <1>2, <1>3, <1>4, <1>5 DEF Loop

LEMMA LoopStep == IInv /\ LoopInv /\ [Next]_vars => LoopInv'
<1> SUFFICES ASSUME IInv, LoopInv, [Next]_vars, NEW d \in Delivery PROVE Loop(d)'
    BY DEF LoopInv
<1>1. CASE Runs(d) \/ Invoke(d)
    BY <1>1, RunWorks, InvokeWorks
<1>2. CASE UNCHANGED vars \/ (Next /\ ~Runs(d) /\ ~Invoke(d))
    <2>1. Rests(d)
        BY <1>2, OthersRest DEF vars, localVars, Rests
    <2>2. Left(d)' = Left(d)
        BY <2>1 DEF Rests, Left
    <2> QED BY <2>1, <2>2 DEF LoopInv, Loop, Rests
<1> QED BY <1>1, <1>2

LEMMA LoopInit == Init => LoopInv
<1> SUFFICES ASSUME Init, NEW d \in Delivery PROVE Loop(d)
    BY DEF LoopInv
<1>1. pc[d] = "idle" /\ todo[d] = {} /\ batch[d] = {}
    BY DEF Init
<1>2. Cardinality({}) = 0 /\ IsFiniteSet({}) /\ SqsBatchSize \in Nat
    BY FS_EmptySet, BoundAssumption
<1>3. Weight(pc[d]) = 0
    BY <1>1, Weights
<1>4. Left(d) = 4 * 0 + 0 + 0
    BY <1>1, <1>2, <1>3 DEF Left
<1>5. Cardinality(Recipient) \in Nat
    BY FiniteAssumption, FS_CardinalityType
<1>6. Left(d) \in 0..(4 * Cardinality(Recipient) + 5)
    BY <1>4, <1>5
<1> QED BY <1>1, <1>2, <1>6 DEF Loop

LEMMA LoopHolds == Spec => [](IInv /\ LoopInv)
BY InductiveInvariant, LoopInit, LoopStep, PTL DEF Spec

-----------------------------------------------------------------------------
\* Wherever the script is, there is something for its next step to work on.
THEOREM ScriptIsNeverStuck == Spec => []NeverStuck
<1>1. LoopInv => NeverStuck
    BY SplitsExist DEF LoopInv, Loop, NeverStuck
<1> QED BY <1>1, LoopHolds, PTL

\* The list of jobs is sent as soon as it is full.
THEOREM BatchesStaySmall == Spec => []BatchesFit
<1>1. LoopInv => BatchesFit
    BY DEF LoopInv, Loop, BatchesFit
<1> QED BY <1>1, LoopHolds, PTL

\* A run of the script ends after four steps for each recipient and five more at most,
\* with an exit status: no failure, timeout or split sends it back to a part it has done.
THEOREM RunsComeToAnEnd == Spec => []LeftIsBounded /\ LeftShrinks
<1>1. IInv /\ LoopInv /\ Next =>
        \A d \in Delivery :
            /\ Runs(d) => Left(d)' < Left(d)
            /\ ~Runs(d) /\ ~Invoke(d) => Left(d)' = Left(d)
    <2> SUFFICES ASSUME IInv, LoopInv, Next, NEW d \in Delivery, ~Runs(d), ~Invoke(d)
                 PROVE  Left(d)' = Left(d)
        BY RunWorks
    <2>1. Rests(d)
        BY OthersRest
    <2> QED BY <2>1 DEF Rests, Left
<1>2. LoopInv => LeftIsBounded
    BY DEF LoopInv, Loop, LeftIsBounded
<1> QED BY <1>1, <1>2, LoopHolds, PTL DEF Spec, LeftShrinks
=============================================================================
