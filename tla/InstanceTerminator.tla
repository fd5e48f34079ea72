-------------------------- MODULE InstanceTerminator --------------------------
(***************************************************************************)
(* instance-terminator.py: before a host is terminated, its Postfix queue  *)
(* is drained, or copied to EFS and purged; the exit status tells the SSM  *)
(* automation (termination_automation/ssm.tf) whether the volume may be    *)
(* deleted.  Postfix runs on until the script is nearly over, and mail     *)
(* moves between the queue directories that the script walks one after the *)
(* other.                                                                  *)
(*                                                                         *)
(* Postfix and the lifecycle hook are external and modelled from how the   *)
(* script and the automation use them.  Definitions named ...Fault are     *)
(* plausible mistakes in the code that show what the properties tell       *)
(* apart; nothing else refers to them.                                     *)
(***************************************************************************)
EXTENDS Naturals, FiniteSets, Sequences

CONSTANTS
    Mail,
    MaxBeats,    \* lifecycle heartbeats before the queue is backed up; 19 in the code
    Modulus,     \* exit statuses the shell tells apart; 256
    MaxFaults    \* bound: commands, calls and listings that fail, hooks that time out

ASSUME MailAssumption == IsFiniteSet(Mail)

ASSUME ModulusAssumption == Modulus \in Nat \ {0, 1}

ASSUME BoundAssumption == MaxBeats \in Nat /\ MaxFaults \in Nat

VARIABLES
    instance,   \* what postmulti -l shows: the instance of an MTA, or none
    disposable, \* DeleteOnTermination: EC2 deletes the volume with the host
    loc,        \* loc[m]: where the mail is
    consumer,   \* the SQS consumer; "none" on a submit host, whose mail comes by SMTP
    postfix,
    copied,     \* mail that was copied to EFS
    hook, volume,
    pc,
    dir,        \* the directory to be walked next
    count,      \* messages of the current walk
    last,       \* postfix_queue_count
    live, efs,  \* messages, efsmessages
    beats,
    status,     \* exit status
    faults,
    eluded      \* bookkeeping: mail that was not where it was looked for, or not seen there:
                \* it moved during the backup (if it was purged) or since the last count
                \* began, or it was in a directory that the count could not list

given == <<instance, disposable>>
mailVars == <<loc, eluded>>
hostVars == <<given, consumer, postfix, copied, hook, volume>>
countVars == <<dir, count, last, live, efs>>
vars == <<mailVars, hostVars, pc, countVars, beats, status, faults>>

PostfixInstances == {"mta", "none"}

Queues == {"maildrop", "incoming", "active", "deferred"}

ShortFault == <<"maildrop", "incoming", "active">>

Subdirs == <<"maildrop", "incoming", "active", "deferred">>

In(q) == {m \in Mail : loc[m] = q}
Queued == {m \in Mail : loc[m] \in Queues}

Init ==
    /\ instance \in PostfixInstances
    /\ disposable \in BOOLEAN
    /\ loc \in [Mail -> Queues \cup {"outside"}]
    /\ consumer \in {"none", "running"}
    /\ postfix = "running"
    /\ copied = {}
    /\ hook = "waiting" /\ volume = "kept"
    /\ pc = "branch"
    /\ dir = 1 /\ count = 0 /\ last = 0 /\ live = 0 /\ efs = 0
    /\ beats = 0
    /\ status = 0
    /\ faults = 0
    /\ eluded = {}

Fault == faults < MaxFaults /\ faults' = faults + 1

Script(label, next) == hook = "waiting" /\ pc = label /\ pc' = next

\* A command fails and run_cmd ends the script, with Postfix running.
Dies(label) ==
    /\ Script(label, "exited")
    /\ Fault
    /\ status' = 1
    /\ UNCHANGED <<mailVars, hostVars, countVars, beats>>

-----------------------------------------------------------------------------
\* Postfix and what feeds it.

Running == postfix = "running" /\ hook = "waiting"

Move(m, from, to) ==
    /\ Running /\ loc[m] = from
    /\ loc' = [loc EXCEPT ![m] = to]
    /\ eluded' = eluded \cup {m}
    /\ UNCHANGED <<hostVars, pc, countVars, beats, status, faults>>

Arrive(m) == consumer # "stopped" /\ \E q \in {"maildrop", "incoming"} : Move(m, "outside", q)

Manage(m) ==
    \/ Move(m, "maildrop", "incoming") \/ Move(m, "incoming", "active")
    \/ Move(m, "active", "deferred") \/ Move(m, "deferred", "active")
    \/ Move(m, "active", "delivered")

\* Mail that cannot be delivered is returned in a mail of its own.
Bounce(m, b) ==
    /\ Running /\ loc[m] = "active" /\ loc[b] = "outside"
    /\ loc' = [loc EXCEPT ![m] = "returned", ![b] = "incoming"]
    /\ eluded' = eluded \cup {m, b}
    /\ UNCHANGED <<hostVars, pc, countVars, beats, status, faults>>

-----------------------------------------------------------------------------
\* The script.

StopSqsConsumer == consumer' = IF consumer = "running" THEN "stopped" ELSE consumer

\* Monit is stopped, and the consumer if the instance is one of a delivery host: None,
\* for no line of postmulti -l that names an MTA, is not.
Start ==
    /\ Script("start", "count")
    /\ IF instance = "mta" THEN StopSqsConsumer ELSE UNCHANGED consumer
    /\ eluded' = {}
    /\ UNCHANGED <<given, loc, postfix, copied, hook, volume, countVars, beats, status, faults>>

\* os.walk tells nobody of a directory that it cannot list: it may see less than there
\* is, and of /storage/None nothing.
Sees(seen) ==
    \/ instance = "mta" /\ seen = In(Subdirs[dir]) /\ UNCHANGED faults
    \/ instance = "mta" /\ seen # In(Subdirs[dir]) /\ Fault
    \/ instance = "none" /\ seen = {} /\ UNCHANGED faults

\* check_postfix_queue walks one directory after the other.
CountDir(label) ==
    /\ Script(label, label) /\ dir <= Len(Subdirs)
    /\ \E seen \in SUBSET In(Subdirs[dir]) :
        /\ Sees(seen)
        /\ count' = count + Cardinality(seen)
        /\ eluded' = eluded \cup (In(Subdirs[dir]) \ seen)
    /\ dir' = dir + 1
    /\ UNCHANGED <<loc, hostVars, last, live, efs, beats, status>>

Counted(label, next) ==
    /\ Script(label, next) /\ dir > Len(Subdirs)
    /\ last' = count
    /\ dir' = 1 /\ count' = 0
    /\ UNCHANGED <<mailVars, hostVars, live, efs, beats, status, faults>>

\* The queue is empty: process_event returns.
Drained == count = 0 /\ Counted("count", "stop")

StillQueued == count # 0 /\ Counted("count", "drain")

ForeverFault == TRUE

HeartbeatsLeft == beats < MaxBeats

NextBeat == HeartbeatsLeft /\ beats' = IF beats < MaxBeats THEN beats + 1 ELSE beats

\* A recorded heartbeat starts the clock again: another look at the queue.
Heartbeat ==
    /\ Script("drain", "count") /\ NextBeat
    /\ eluded' = {}
    /\ UNCHANGED <<loc, hostVars, countVars, status, faults>>

\* A heartbeat that fails does not: the time is up, and the next one follows at once.
HeartbeatFails ==
    /\ Script("drain", "drain") /\ NextBeat
    /\ Fault
    /\ UNCHANGED <<mailVars, hostVars, countVars, status>>

\* backup_postfix_queue.
BeginBackup ==
    /\ Script("drain", "copy") /\ ~HeartbeatsLeft
    /\ eluded' = {}
    /\ UNCHANGED <<loc, hostVars, countVars, beats, status, faults>>

\* cp -rp into a new directory: what is counted there is what was copied, or less.
CopyDir ==
    /\ Script("copy", "walk") /\ dir <= Len(Subdirs)
    /\ copied' = copied \cup In(Subdirs[dir])
    /\ \E seen \in SUBSET In(Subdirs[dir]) : Sees(seen) /\ efs' = efs + Cardinality(seen)
    /\ UNCHANGED <<given, mailVars, consumer, postfix, hook, volume, dir, count, last, live,
                   beats, status>>

WalkDir ==
    /\ Script("walk", "copy")
    /\ \E seen \in SUBSET In(Subdirs[dir]) : Sees(seen) /\ live' = live + Cardinality(seen)
    /\ dir' = dir + 1
    /\ UNCHANGED <<mailVars, hostVars, count, last, efs, beats, status>>

AllWalked == dir > Len(Subdirs) /\ dir' = 1 /\ live' = 0 /\ efs' = 0

\* postsuper -d ALL does not touch maildrop.
Purge ==
    /\ Script("copy", "recount") /\ AllWalked
    /\ live = efs
    /\ loc' = [m \in Mail |-> IF loc[m] \in Queues \ {"maildrop"} THEN "purged" ELSE loc[m]]
    /\ eluded' = {m \in eluded : loc'[m] = "purged"}
    /\ UNCHANGED <<hostVars, count, last, beats, status, faults>>

\* "was not successfully copied": the count stays what it was.
Mismatch ==
    /\ Script("copy", "stop") /\ AllWalked
    /\ live # efs
    /\ UNCHANGED <<mailVars, hostVars, count, last, beats, status, faults>>

\* Nobody looks at the result of stopping the service.
StopPostfix ==
    /\ Script("stop", "exit")
    /\ (postfix' = "stopped" /\ UNCHANGED faults) \/ (Fault /\ UNCHANGED postfix)
    /\ UNCHANGED <<given, mailVars, consumer, copied, hook, volume, countVars, beats, status>>

SuccessFault(n) == 0

WideFault(n) == n

\* sys.exit(queue_count)
ExitStatus(n) == n % Modulus

Exit ==
    /\ Script("exit", "exited")
    /\ status' = ExitStatus(last)
    /\ UNCHANGED <<mailVars, hostVars, countVars, beats, faults>>

Terminator ==
    \/ Start \/ CountDir("count") \/ Drained \/ StillQueued
    \/ Heartbeat \/ HeartbeatFails \/ BeginBackup \/ CopyDir \/ WalkDir \/ Purge \/ Mismatch
    \/ CountDir("recount") \/ Counted("recount", "stop")
    \/ Dies("start") \/ Dies("drain") \/ Dies("copy")
    \/ StopPostfix \/ Exit

-----------------------------------------------------------------------------
\* The automation and the lifecycle hook.

\* A volume that goes with its host ends the automation, and so does an API that does
\* not answer; of a host that is gone already it only raises the alarm.
Branch ==
    /\ pc = "branch"
    /\ \/ (disposable \/ hook = "done") /\ pc' = "done" /\ UNCHANGED faults
       \/ ~disposable /\ hook = "waiting" /\ pc' = "start" /\ UNCHANGED faults
       \/ Fault /\ pc' = "done"
    /\ UNCHANGED <<mailVars, hostVars, countVars, beats, status>>

\* volumeEmpty and volumeNotEmpty let the hook continue; a failure is ignored.
CompleteLifecycleAction ==
    /\ pc = "exited"
    /\ pc' = IF status = 0 THEN "empty" ELSE "done"
    /\ (hook' = "done" /\ UNCHANGED faults) \/ (Fault /\ UNCHANGED hook)
    /\ UNCHANGED <<given, mailVars, consumer, postfix, copied, volume, countVars, beats, status>>

\* describeVolume waits two minutes for the volume to come free and deleteVolume follows
\* in any case: it fails while the host is there, and for a volume that was not found.
DeleteVolume ==
    /\ pc = "empty"
    /\ volume' \in (IF hook = "done" THEN {"deleted", "kept"} ELSE {"kept"})
    /\ pc' = "done"
    /\ UNCHANGED <<given, mailVars, consumer, postfix, copied, hook, countVars, beats, status,
                   faults>>

Automation == Branch \/ CompleteLifecycleAction \/ DeleteVolume

\* The hook times out, as it must when the automation did not complete it, and with the
\* host the script is gone: a failed command.
HookTimesOut ==
    /\ hook = "waiting"
    /\ IF pc = "done" THEN UNCHANGED faults ELSE Fault
    /\ hook' = "done"
    /\ volume' = IF disposable THEN "deleted" ELSE volume
    /\ IF pc \in {"branch", "exited", "empty", "done"} THEN UNCHANGED <<pc, status>>
       ELSE pc' = "exited" /\ status' = 1
    /\ UNCHANGED <<given, mailVars, consumer, postfix, copied, countVars, beats>>

Next ==
    \/ \E m \in Mail : Arrive(m) \/ Manage(m) \/ \E b \in Mail : Bounce(m, b)
    \/ Terminator \/ Automation \/ HookTimesOut

Spec == Init /\ [][Next]_vars

\* The script and the automation run; nothing is assumed of Postfix.
FairSpec == Spec /\ WF_vars(Terminator) /\ WF_vars(Automation)

-----------------------------------------------------------------------------
(***************************************************************************)
(* Properties.                                                             *)
(***************************************************************************)

\* Type invariant: every variable holds the kind of value the code gives it.
TypeOK ==
    /\ instance \in PostfixInstances /\ disposable \in BOOLEAN
    /\ loc \in [Mail -> Queues \cup {"outside", "delivered", "returned", "purged"}]
    /\ consumer \in {"none", "running", "stopped"}
    /\ postfix \in {"running", "stopped"}
    /\ copied \subseteq Mail
    /\ hook \in {"waiting", "done"} /\ volume \in {"kept", "deleted"}
    /\ pc \in {"branch", "start", "count", "drain", "copy", "walk", "recount", "stop", "exit",
               "exited", "empty", "done"}
    /\ dir \in 1..(Len(Subdirs) + 1)
    /\ count \in Nat /\ last \in Nat /\ live \in Nat /\ efs \in Nat
    /\ beats \in 0..MaxBeats
    /\ status \in 0..(Modulus - 1)
    /\ faults \in 0..MaxFaults
    /\ eluded \subseteq Mail

\* The comment "If all messages copied to EFS successfully then its safe to purge
\* the queue": it is, for mail that stays where it is during the backup.
PurgeLosesOnlyMoved == \A m \in In("purged") \ copied : m \in eluded

\* "Any failure will allow the volume to survive for manual recovery": where the script
\* finds the instance, a volume that it has deleted takes no mail with it, but for mail
\* that moved since the last count began, mail in a directory that the count could not
\* list, and a nonzero multiple of Modulus mails, which the shell sees as success.
DeleteLosesOnlyUncounted ==
    volume = "deleted" /\ ~disposable /\ instance = "mta" /\ ~(last # 0 /\ last % Modulus = 0) =>
        Queued \subseteq eluded

\* The termination comes to its end, however long the mail stays in the queue.
TerminationEnds == <>(pc = "done")
=============================================================================
