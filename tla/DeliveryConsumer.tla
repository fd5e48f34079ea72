-------------------------- MODULE DeliveryConsumer --------------------------
(***************************************************************************)
(* The delivery consumer, xgemail.sqs.message.consumer.py: threads that    *)
(* receive jobs from the delivery SQS queue, download the mail from S3,    *)
(* inject it into the local Postfix over SMTP and only then delete the job.*)
(*                                                                         *)
(* SQS is external and modelled from how the code uses it: a received      *)
(* message stays in the queue, invisible, until it is deleted with the     *)
(* receipt handle of a receive or its visibility timeout ends; after       *)
(* MaxReceives receives it goes to the dead-letter queue.                  *)
(***************************************************************************)
EXTENDS Naturals, FiniteSets

CONSTANTS
    Thread,              \* the threads running deliver_messages
    Msg,                 \* the jobs in the delivery queue
    MailKinds,           \* the assignments of kinds to jobs to start from
    MaxNumberOfMessages, \* SQS_MAX_NUMBER_OF_MESSAGES
    MaxReceives,         \* the maxReceiveCount of the queue
    MaxFaults,           \* bound: failures, late answers and crashes
    MaxCrashes           \* bound: how many of those kill the process

Kind == {"good",      \* documents stored and well formed
         "missing",   \* an object is not in S3, or has a wrong format
         "poison",    \* the job or its metadata makes an unguarded line raise
         "unsendable"}  \* raises once its mail info is written, or Postfix refuses it

NoJob == [msg |-> "", receipt |-> 0]
Held == [msg : Msg, receipt : 1..MaxReceives]

ASSUME KindAssumption == MailKinds \subseteq [Msg -> Kind]

ASSUME NoJobAssumption == "" \notin Msg

ASSUME ThreadAssumption == IsFiniteSet(Thread)

ASSUME LimitAssumption ==
    /\ MaxNumberOfMessages \in Nat \ {0} /\ MaxReceives \in Nat \ {0}
    /\ MaxFaults \in Nat /\ MaxCrashes \in Nat

VARIABLES
    \* SQS and S3
    kind,      \* kind[m]: what the job m and its documents are like
    place,     \* place[m]: "visible", "inflight", "deleted" or "dead"
    receives,  \* receives[m]: the last receive, whose receipt handle is current
    \* the local Postfix and the message history directory
    copies,    \* copies[m][n]: mails accepted from the n-th receive of m
    injected,  \* the jobs whose mail Postfix accepted
    mhFiles,   \* mail info files written, each under a fresh name
    \* the consumer process
    pc,        \* where each thread is
    batch,     \* the received messages it has not come to yet
    cur,       \* the message it works on
    tried,     \* tried[m]: some thread has come to m
    faults, crashes

sqsVars == <<kind, place, receives>>
mtaVars == <<copies, injected>>
vars == <<sqsVars, mtaVars, mhFiles, pc, batch, cur, tried, faults, crashes>>

-----------------------------------------------------------------------------
Init ==
    /\ kind \in MailKinds
    /\ place = [m \in Msg |-> "visible"]
    /\ receives = [m \in Msg |-> 0]
    /\ copies = [m \in Msg |-> [n \in 1..MaxReceives |-> 0]]
    /\ injected = {}
    /\ mhFiles = {}
    /\ pc = [t \in Thread |-> "receive"]
    /\ batch = [t \in Thread |-> {}]
    /\ cur = [t \in Thread |-> NoJob]
    /\ tried = [m \in Msg |-> FALSE]
    /\ faults = 0
    /\ crashes = 0

Goto(t, label) == pc' = [pc EXCEPT ![t] = label]

Fault == faults < MaxFaults /\ faults' = faults + 1

\* Faulty variants, named ...Fault, are the ways the code could plausibly be
\* wrong that the properties below must notice; nothing else uses them.

RetryFault(t) ==
    /\ Goto(t, IF cur[t] = NoJob THEN "receive" ELSE "inject")
    /\ UNCHANGED <<batch, cur>>

\* An exception reaches the handler around the whole loop body: the rest of the
\* received batch is forgotten and stays invisible until its timeout.
Abandon(t) ==
    /\ Goto(t, "receive")
    /\ batch' = [batch EXCEPT ![t] = {}]
    /\ cur' = [cur EXCEPT ![t] = NoJob]

\* continue: on to the next message of the batch.
Continue(t) ==
    /\ Goto(t, "next")
    /\ cur' = [cur EXCEPT ![t] = NoJob]
    /\ UNCHANGED batch

Receivable == {m \in Msg : place[m] = "visible" /\ receives[m] < MaxReceives}

\* receive_sqs_messages returned at least one message.
Receive(t) ==
    /\ pc[t] = "receive"
    /\ \E M \in SUBSET Receivable :
        /\ M # {} /\ Cardinality(M) <= MaxNumberOfMessages
        /\ place' = [m \in Msg |-> IF m \in M THEN "inflight" ELSE place[m]]
        /\ receives' = [m \in Msg |-> IF m \in M THEN receives[m] + 1 ELSE receives[m]]
        /\ batch' = [batch EXCEPT ![t] =
                       {[msg |-> m, receipt |-> receives[m] + 1] : m \in M}]
    /\ Goto(t, "next")
    /\ UNCHANGED <<kind, mtaVars, mhFiles, cur, tried, faults, crashes>>

EndOfBatch(t) ==
    /\ pc[t] = "next" /\ batch[t] = {}
    /\ Goto(t, "receive")
    /\ UNCHANGED <<sqsVars, mtaVars, mhFiles, batch, cur, tried, faults, crashes>>

\* The next message is parsed and its headers asked for; an answer that never
\* comes costs the headers only.
Take(t) ==
    /\ pc[t] = "next"
    /\ \E job \in batch[t] :
        /\ cur' = [cur EXCEPT ![t] = job]
        /\ batch' = [batch EXCEPT ![t] = @ \ {job}]
        /\ tried' = [tried EXCEPT ![job.msg] = TRUE]
    /\ Goto(t, "download")
    /\ UNCHANGED <<sqsVars, mtaVars, mhFiles, faults, crashes>>

\* json.loads of the body or parse_sqs_message raises.
TakePoison(t) ==
    /\ pc[t] = "next"
    /\ \E job \in batch[t] :
        /\ kind[job.msg] = "poison"
        /\ tried' = [tried EXCEPT ![job.msg] = TRUE]
    /\ Abandon(t)
    /\ UNCHANGED <<sqsVars, mtaVars, mhFiles, faults, crashes>>

\* MESSAGE and METADATA are read from S3.
Download(t) ==
    /\ pc[t] = "download" /\ kind[cur[t].msg] \in {"good", "unsendable"}
    /\ Goto(t, "mail info")
    /\ UNCHANGED <<sqsVars, mtaVars, mhFiles, batch, cur, tried, faults, crashes>>

KeepStuckFault(t) == UNCHANGED <<pc, batch, cur, place, mhFiles>>

KeepAbandonsFault(t) == Abandon(t) /\ UNCHANGED <<place, mhFiles>>

KeepWritesFault(t) == Continue(t) /\ mhFiles' = mhFiles \cup {cur[t]} /\ UNCHANGED place

KeepDeletesFault(t) ==
    /\ Continue(t)
    /\ place' = [place EXCEPT ![cur[t].msg] = "deleted"]
    /\ UNCHANGED mhFiles

\* ClientError or ValueError: the job is kept in SQS and the thread goes on.
KeepJob(t) == Continue(t) /\ UNCHANGED <<place, mhFiles>>

\* Any other exception abandons the batch, and so does metadata that json.loads or
\* the lines after it cannot take.
DownloadFails(t) ==
    /\ pc[t] = "download"
    /\ \/ kind[cur[t].msg] = "missing" /\ KeepJob(t) /\ UNCHANGED faults
       \/ Fault /\ KeepJob(t)
       \/ /\ (kind[cur[t].msg] = "poison" /\ UNCHANGED faults) \/ Fault
          /\ Abandon(t)
          /\ UNCHANGED <<place, mhFiles>>
    /\ UNCHANGED <<kind, receives, mtaVars, tried, crashes>>

FixedNameFault(job) == [job EXCEPT !.receipt = 0]

\* write_mh_mail_info names the file with a new UUID.
MailInfoFile(job) == job

\* write_mh_mail_info, when the mail has events to generate; a failure is logged.
WriteMailInfo(t) ==
    /\ pc[t] = "mail info"
    /\ mhFiles' \in {mhFiles, mhFiles \cup {MailInfoFile(cur[t])}}
    /\ Goto(t, "inject")
    /\ UNCHANGED <<sqsVars, mtaVars, batch, cur, tried, faults, crashes>>

\* Postfix answered 250 to DATA.  It may have refused some of the recipients:
\* inject_email makes no difference, and neither does this module.
Accept(job) ==
    /\ copies' = [copies EXCEPT ![job.msg][job.receipt] = @ + 1]
    /\ injected' = injected \cup {job.msg}

\* inject_email returns True.
Inject(t) ==
    /\ pc[t] = "inject" /\ kind[cur[t].msg] # "unsendable"
    /\ Accept(cur[t])
    /\ Goto(t, "delete")
    /\ UNCHANGED <<sqsVars, mhFiles, batch, cur, tried, faults, crashes>>

RefusedDeletedFault(t) == Goto(t, "delete") /\ UNCHANGED <<batch, cur>>

\* is_successfully_injected is False: the job is not deleted.
NotInjected(t) == Continue(t)

\* An SMTPException and a clean quit: inject_email returns False.
InjectRefused(t) ==
    /\ pc[t] = "inject"
    /\ Fault
    /\ NotInjected(t)
    /\ UNCHANGED <<sqsVars, mtaVars, mhFiles, tried, crashes>>

\* No connection, so that "server" is unbound in the finally clause, or a
\* connection that is gone when quit() is called: an exception leaves
\* inject_email, also when Postfix has the mail.
InjectRaises(t) ==
    /\ pc[t] = "inject"
    /\ Fault
    /\ UNCHANGED mtaVars \/ (kind[cur[t].msg] # "unsendable" /\ Accept(cur[t]))
    /\ Abandon(t)
    /\ UNCHANGED <<sqsVars, mhFiles, tried, crashes>>

\* A line between the mail info file and the injection raises at every receive of the
\* job, or smtplib does, or Postfix refuses the mail every time.
InjectNever(t) ==
    /\ pc[t] = "inject" /\ kind[cur[t].msg] = "unsendable"
    /\ NotInjected(t) \/ Abandon(t)
    /\ UNCHANGED <<sqsVars, mtaVars, mhFiles, tried, faults, crashes>>

\* What DeleteMessage does with a receipt handle: an old one may be ignored, and
\* a message that was moved to the dead-letter queue stays there.
DeleteWith(job) ==
    \/ /\ place[job.msg] # "dead"
       /\ place' = [place EXCEPT ![job.msg] = "deleted"]
    \/ /\ place[job.msg] = "dead" \/ receives[job.msg] # job.receipt
       /\ UNCHANGED place

Delete(t) ==
    /\ pc[t] = "delete"
    /\ DeleteWith(cur[t])
    /\ Continue(t)
    /\ UNCHANGED <<kind, receives, mtaVars, mhFiles, tried, faults, crashes>>

DeleteFails(t) ==
    /\ pc[t] = "delete"
    /\ Fault
    /\ Abandon(t)
    /\ UNCHANGED <<sqsVars, mtaVars, mhFiles, tried, crashes>>

\* Some thread still works, or will, on the current receive of m.
InHand(m) ==
    \E t \in Thread : [msg |-> m, receipt |-> receives[m]] \in batch[t] \cup {cur[t]}

\* The visibility timeout ends, in the middle of the work if that is slow.
VisibilityTimeout(m) ==
    /\ place[m] = "inflight"
    /\ IF InHand(m) THEN Fault ELSE UNCHANGED faults
    /\ place' = [place EXCEPT ![m] = "visible"]
    /\ UNCHANGED <<kind, receives, mtaVars, mhFiles, pc, batch, cur, tried, crashes>>

\* The redrive policy.
Redrive(m) ==
    /\ place[m] = "visible" /\ receives[m] = MaxReceives
    /\ place' = [place EXCEPT ![m] = "dead"]
    /\ UNCHANGED <<kind, receives, mtaVars, mhFiles, pc, batch, cur, tried, faults,
                   crashes>>

\* The process is killed and started again.
Crash ==
    /\ Fault
    /\ crashes < MaxCrashes /\ crashes' = crashes + 1
    /\ pc' = [t \in Thread |-> "receive"]
    /\ batch' = [t \in Thread |-> {}]
    /\ cur' = [t \in Thread |-> NoJob]
    /\ UNCHANGED <<sqsVars, mtaVars, mhFiles, tried>>

Work(t) ==
    \/ Receive(t) \/ EndOfBatch(t) \/ Take(t) \/ TakePoison(t)
    \/ Download(t) \/ DownloadFails(t) \/ WriteMailInfo(t)
    \/ Inject(t) \/ InjectRefused(t) \/ InjectRaises(t) \/ InjectNever(t)
    \/ Delete(t) \/ DeleteFails(t)

Timer(m) == VisibilityTimeout(m) \/ Redrive(m)

Settled ==
    /\ \A m \in Msg : place[m] \in {"deleted", "dead"}
    /\ \A t \in Thread : pc[t] = "receive"

Next ==
    \/ \E t \in Thread : Work(t)
    \/ \E m \in Msg : Timer(m)
    \/ Crash
    \/ Settled /\ UNCHANGED vars

Spec == Init /\ [][Next]_vars

\* Threads loop forever, every call they make returns or raises, and SQS keeps
\* its timers.
Fairness ==
    /\ \A t \in Thread : WF_vars(Work(t))
    /\ \A m \in Msg : WF_vars(Timer(m))

FairSpec == Spec /\ Fairness

-----------------------------------------------------------------------------
(***************************************************************************)
(* Properties.                                                             *)
(***************************************************************************)

\* Type invariant: every variable holds the kind of value the code gives it.
TypeOK ==
    /\ kind \in [Msg -> Kind]
    /\ place \in [Msg -> {"visible", "inflight", "deleted", "dead"}]
    /\ receives \in [Msg -> 0..MaxReceives]
    /\ copies \in [Msg -> [1..MaxReceives -> Nat]]
    /\ injected \subseteq Msg
    /\ mhFiles \subseteq Held
    /\ pc \in [Thread -> {"receive", "next", "download", "mail info", "inject", "delete"}]
    /\ batch \in [Thread -> SUBSET Held]
    /\ cur \in [Thread -> Held \cup {NoJob}]
    /\ tried \in [Msg -> BOOLEAN]
    /\ faults \in 0..MaxFaults /\ crashes \in 0..MaxCrashes

\* No mail is lost on the way into Postfix: a job is deleted only after Postfix
\* accepted its mail, whichever thread or receive deletes it.
DeletedWasInjected == \A m \in Msg : place[m] = "deleted" => m \in injected

\* One receive of a job injects its mail at most once, so duplicates come only
\* from a timeout, a failure or a crash after the injection.
OneCopyPerReceive ==
    \A m \in Msg : \A n \in 1..MaxReceives :
        /\ copies[m][n] <= 1
        /\ n > receives[m] => copies[m][n] = 0

\* Mail info files that no injected mail names and no thread will use, although their
\* mail can be injected: an unsendable job leaves one at every receive.
OrphanFiles ==
    {f \in mhFiles : /\ kind[f.msg] # "unsendable"
                     /\ copies[f.msg][f.receipt] = 0 /\ \A t \in Thread : cur[t] # f}

\* The files left behind by mail that can be injected are as few as the failures: one
\* for each failed injection, one for each thread in a crash.
OrphansAreFew ==
    Cardinality(OrphanFiles) + crashes <= faults + Cardinality(Thread) * crashes

\* The jobs that may make an exception reach the loop at every receive.
Disruptive == {m \in Msg : kind[m] \in {"poison", "unsendable"}}

\* A job goes to the dead-letter queue without any thread having come to it only
\* if another job of its batches kept raising exceptions.
UntriedDeadNeedsPoison ==
    (\E m \in Msg : place[m] = "dead" /\ ~tried[m]) => Disruptive # {}

\* "attempts to inject email into Postfix and returns True if successful, False
\* otherwise": the caller always goes on, to the deletion or to the next job.
InjectReturnsVerdict ==
    [][\A t \in Thread :
        pc[t] = "inject" /\ pc'[t] # "inject" => pc'[t] \in {"delete", "next"}]_vars

\* While no job keeps raising exceptions, every good mail reaches Postfix, as long as there
\* are fewer failures than receives.
GoodMailInjected ==
    Disruptive = {} =>
        \A m \in Msg : kind[m] = "good" => <>(m \in injected)

\* Every job leaves the queue in the end.
EverySettled == \A m \in Msg : <>[](place[m] \in {"deleted", "dead"})

\* The threads together implement an at-least-once transfer.
Transfer == INSTANCE MailTransfer WITH
    place <- [m \in Msg |-> CASE place[m] = "deleted" -> "done"
                              [] place[m] = "dead" -> "dead"
                              [] OTHER -> "queued"]
ImplementsTransfer == Transfer!Spec
=============================================================================
