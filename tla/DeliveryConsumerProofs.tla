----------------------- MODULE DeliveryConsumerProofs -----------------------
(***************************************************************************)
(* Theorems about DeliveryConsumer, for every set of threads and jobs and  *)
(* every bound on receives, failures and crashes.                          *)
(***************************************************************************)
EXTENDS DeliveryConsumer, FiniteSetTheorems, TLAPS

\* Where a thread works on a message, and no longer looks for the next one.
Working == {"download", "mail info", "inject", "delete"}

\* A thread that works has a message; one that is about to delete it has seen
\* its mail accepted.
HeldInv ==
    \A t \in Thread :
        /\ pc[t] \in Working => cur[t] \in Held
        /\ pc[t] = "delete" => cur[t].msg \in injected

IInv == TypeOK /\ HeldInv /\ DeletedWasInjected

LEMMA InitInv == Init => IInv
<1> SUFFICES ASSUME Init PROVE IInv
    OBVIOUS
<1>1. TypeOK
    BY KindAssumption, LimitAssumption DEF Init, TypeOK
<1>2. HeldInv /\ DeletedWasInjected
    BY DEF Init, HeldInv, Working, DeletedWasInjected
<1> QED BY <1>1, <1>2 DEF IInv

\* Abandon and Continue drop the message the thread worked on.
LEMMA DropKeeps ==
    ASSUME TypeOK, HeldInv, NEW t \in Thread, Abandon(t) \/ Continue(t),
           injected \subseteq injected'
    PROVE  /\ HeldInv'
           /\ pc' \in [Thread -> {"receive", "next", "download", "mail info", "inject",
                                  "delete"}]
           /\ batch' \in [Thread -> SUBSET Held]
           /\ cur' \in [Thread -> Held \cup {NoJob}]
<1>1. /\ pc' \in [Thread -> {"receive", "next", "download", "mail info", "inject",
                             "delete"}]
      /\ batch' \in [Thread -> SUBSET Held]
      /\ cur' \in [Thread -> Held \cup {NoJob}]
    BY DEF TypeOK, Abandon, Continue, Goto
<1>2. /\ cur'[t] = NoJob /\ pc'[t] \in {"receive", "next"}
      /\ \A s \in Thread \ {t} : cur'[s] = cur[s] /\ pc'[s] = pc[s]
    BY DEF TypeOK, Abandon, Continue, Goto
<1>3. HeldInv'
    BY <1>2 DEF HeldInv, Working
<1> QED BY <1>1, <1>3

LEMMA FaultKeeps == TypeOK /\ Fault => faults' \in 0..MaxFaults
<1>1. TypeOK => faults \in 0..MaxFaults
    BY DEF TypeOK
<1> QED BY <1>1, LimitAssumption DEF Fault

LEMMA ReceiveKeeps ==
    ASSUME IInv, NEW t \in Thread, Receive(t)
    PROVE  IInv'
<1> USE DEF IInv
<1>1. PICK M \in SUBSET Receivable :
        /\ place' = [m \in Msg |-> IF m \in M THEN "inflight" ELSE place[m]]
        /\ receives' = [m \in Msg |-> IF m \in M THEN receives[m] + 1 ELSE receives[m]]
        /\ batch' = [batch EXCEPT ![t] =
                       {[msg |-> m, receipt |-> receives[m] + 1] : m \in M}]
        /\ pc' = [pc EXCEPT ![t] = "next"]
        /\ UNCHANGED <<kind, mtaVars, mhFiles, cur, tried, faults, crashes>>
    BY DEF Receive, Goto
<1>2. \A m \in M : m \in Msg /\ receives[m] + 1 \in 1..MaxReceives
    <2>1. \A m \in M : m \in Msg /\ receives[m] < MaxReceives
        BY DEF Receivable
    <2>2. \A m \in Msg : receives[m] \in 0..MaxReceives
        BY DEF TypeOK
    <2> QED BY <2>1, <2>2, LimitAssumption
<1>3. TypeOK'
    <2>1. receives' \in [Msg -> 0..MaxReceives]
        <3>1. \A m \in Msg : receives'[m] \in 0..MaxReceives
            <4>1. \A m \in Msg : receives[m] \in 0..MaxReceives
                BY DEF TypeOK
            <4> QED BY <1>1, <1>2, <4>1, LimitAssumption
        <3> QED BY <1>1, <3>1
    <2>2. {[msg |-> m, receipt |-> receives[m] + 1] : m \in M} \subseteq Held
        BY <1>2 DEF Held
    <2> QED BY <1>1, <2>1, <2>2 DEF TypeOK, mtaVars
<1>4. HeldInv'
    BY <1>1 DEF TypeOK, HeldInv, Working, mtaVars
<1>5. DeletedWasInjected'
    BY <1>1 DEF DeletedWasInjected, mtaVars
<1> QED BY <1>3, <1>4, <1>5

LEMMA TakeKeeps ==
    ASSUME IInv, NEW t \in Thread, EndOfBatch(t) \/ Take(t) \/ TakePoison(t)
    PROVE  IInv'
<1> USE DEF IInv
<1>1. CASE EndOfBatch(t)
    BY <1>1 DEF EndOfBatch, Goto, TypeOK, HeldInv, Working, DeletedWasInjected, sqsVars,
                mtaVars
<1>2. CASE Take(t)
    <2>1. PICK job \in batch[t] :
            /\ cur' = [cur EXCEPT ![t] = job]
            /\ batch' = [batch EXCEPT ![t] = @ \ {job}]
            /\ tried' = [tried EXCEPT ![job.msg] = TRUE]
            /\ pc' = [pc EXCEPT ![t] = "download"]
            /\ UNCHANGED <<sqsVars, mtaVars, mhFiles, faults, crashes>>
        BY <1>2 DEF Take, Goto
    <2>2. job \in Held
        BY DEF TypeOK
    <2>3. TypeOK'
        BY <2>1, <2>2 DEF TypeOK, sqsVars, mtaVars
    <2>4. HeldInv' /\ DeletedWasInjected'
        BY <2>1, <2>2 DEF TypeOK, HeldInv, Working, DeletedWasInjected, sqsVars, mtaVars
    <2> QED BY <2>3, <2>4
<1>3. CASE TakePoison(t)
    <2>1. Abandon(t) /\ UNCHANGED <<sqsVars, mtaVars, mhFiles, faults, crashes>>
        BY <1>3 DEF TakePoison
    <2>2. tried' \in [Msg -> BOOLEAN]
        BY <1>3 DEF TakePoison, TypeOK
    <2>3. DeletedWasInjected'
        BY <2>1 DEF DeletedWasInjected, sqsVars, mtaVars
    <2> QED BY <2>1, <2>2, <2>3, DropKeeps DEF TypeOK, sqsVars, mtaVars
<1> QED BY <1>1, <1>2, <1>3

LEMMA DownloadKeeps ==
    ASSUME IInv, NEW t \in Thread, Download(t) \/ DownloadFails(t) \/ WriteMailInfo(t)
    PROVE  IInv'
<1> USE DEF IInv
<1>1. CASE Download(t)
    BY <1>1 DEF Download, Goto, TypeOK, HeldInv, Working, DeletedWasInjected, sqsVars,
                mtaVars
<1>2. CASE DownloadFails(t)
    <2>1. /\ Abandon(t) \/ Continue(t)
          /\ UNCHANGED <<sqsVars, mtaVars, mhFiles, tried, crashes>>
        BY <1>2 DEF DownloadFails, KeepJob, sqsVars
    <2>2. faults' \in 0..MaxFaults
        BY <1>2, FaultKeeps DEF DownloadFails, TypeOK
    <2>3. DeletedWasInjected'
        BY <2>1 DEF DeletedWasInjected, sqsVars, mtaVars
    <2> QED BY <2>1, <2>2, <2>3, DropKeeps DEF TypeOK, sqsVars, mtaVars
<1>3. CASE WriteMailInfo(t)
    <2>1. cur[t] \in Held
        BY <1>3 DEF WriteMailInfo, HeldInv, Working
    <2>2. TypeOK'
        BY <1>3, <2>1 DEF WriteMailInfo, MailInfoFile, Goto, TypeOK, sqsVars, mtaVars
    <2>3. HeldInv' /\ DeletedWasInjected'
        BY <1>3 DEF WriteMailInfo, Goto, TypeOK, HeldInv, Working, DeletedWasInjected,
                    sqsVars, mtaVars
    <2> QED BY <2>2, <2>3
<1> QED BY <1>1, <1>2, <1>3

\* Postfix's answer 250 is all that Accept records.
LEMMA AcceptKeeps ==
    ASSUME TypeOK, NEW job \in Held, Accept(job)
    PROVE  /\ copies' \in [Msg -> [1..MaxReceives -> Nat]]
           /\ injected' = injected \cup {job.msg} /\ injected' \subseteq Msg
<1>1. /\ job.msg \in Msg /\ job.receipt \in 1..MaxReceives
      /\ copies \in [Msg -> [1..MaxReceives -> Nat]] /\ injected \subseteq Msg
    BY DEF TypeOK, Held
<1>2. [copies[job.msg] EXCEPT ![job.receipt] = @ + 1] \in [1..MaxReceives -> Nat]
    <2>1. copies[job.msg] \in [1..MaxReceives -> Nat]
        BY <1>1
    <2>2. copies[job.msg][job.receipt] \in Nat
        BY <1>1, <2>1, Zenon
    <2>3. copies[job.msg][job.receipt] + 1 \in Nat
        BY <2>2
    <2> QED BY <2>1, <2>3, Zenon
<1>3. copies' = [copies EXCEPT ![job.msg] =
                    [copies[job.msg] EXCEPT ![job.receipt] = @ + 1]]
    BY <1>1 DEF Accept
<1> QED BY <1>1, <1>2, <1>3 DEF Accept

LEMMA InjectKeeps ==
    ASSUME IInv, NEW t \in Thread, Inject(t) \/ InjectRefused(t) \/ InjectRaises(t) \/ InjectNever(t)
    PROVE  IInv'
<1> USE DEF IInv
<1>1. cur[t] \in Held
    BY DEF Inject, InjectRefused, InjectRaises, InjectNever, HeldInv, Working
<1>2. CASE Inject(t)
    <2>1. /\ copies' \in [Msg -> [1..MaxReceives -> Nat]]
          /\ injected' = injected \cup {cur[t].msg} /\ injected' \subseteq Msg
        BY <1>1, <1>2, AcceptKeeps DEF Inject
    <2>2. TypeOK'
        BY <1>2, <2>1 DEF Inject, Goto, TypeOK, sqsVars
    <2>3. HeldInv' /\ DeletedWasInjected'
        BY <1>1, <1>2, <2>1 DEF Inject, Goto, TypeOK, HeldInv, Working, DeletedWasInjected,
                                sqsVars
    <2> QED BY <2>2, <2>3
<1>3. CASE InjectRefused(t) \/ InjectRaises(t) \/ InjectNever(t)
    <2>1. /\ Abandon(t) \/ Continue(t)
          /\ UNCHANGED <<sqsVars, mhFiles, tried, crashes>>
          /\ Fault \/ faults' = faults
        BY <1>3 DEF InjectRefused, InjectRaises, InjectNever, NotInjected
    <2>2. /\ copies' \in [Msg -> [1..MaxReceives -> Nat]]
          /\ injected \subseteq injected' /\ injected' \subseteq Msg
        BY <1>1, <1>3, AcceptKeeps DEF InjectRefused, InjectRaises, InjectNever, TypeOK, mtaVars
    <2>3. DeletedWasInjected'
        BY <2>1, <2>2 DEF DeletedWasInjected, sqsVars
    <2> QED BY <2>1, <2>2, <2>3, DropKeeps, FaultKeeps DEF TypeOK, sqsVars
<1> QED BY <1>2, <1>3

\* The only step that deletes a job comes after the injection of its mail.
LEMMA DeleteKeeps ==
    ASSUME IInv, NEW t \in Thread, Delete(t) \/ DeleteFails(t)
    PROVE  IInv'
<1> USE DEF IInv
<1>1. cur[t] \in Held /\ cur[t].msg \in injected
    BY DEF Delete, DeleteFails, HeldInv, Working
<1>2. CASE Delete(t)
    <2>1. Continue(t) /\ UNCHANGED <<kind, receives, mtaVars, mhFiles, tried, faults, crashes>>
        BY <1>2 DEF Delete
    <2>2. place' \in {place, [place EXCEPT ![cur[t].msg] = "deleted"]}
        BY <1>2 DEF Delete, DeleteWith
    <2>3. place' \in [Msg -> {"visible", "inflight", "deleted", "dead"}]
        BY <2>2 DEF TypeOK
    <2>4. DeletedWasInjected'
        BY <1>1, <2>1, <2>2 DEF TypeOK, DeletedWasInjected, mtaVars
    <2> QED BY <2>1, <2>3, <2>4, DropKeeps DEF TypeOK, mtaVars
<1>3. CASE DeleteFails(t)
    <2>1. Abandon(t) /\ Fault /\ UNCHANGED <<sqsVars, mtaVars, mhFiles, tried, crashes>>
        BY <1>3 DEF DeleteFails
    <2>2. DeletedWasInjected'
        BY <2>1 DEF DeletedWasInjected, sqsVars, mtaVars
    <2> QED BY <2>1, <2>2, DropKeeps, FaultKeeps DEF TypeOK, sqsVars, mtaVars
<1> QED BY <1>2, <1>3

LEMMA TimerKeeps ==
    ASSUME IInv, NEW m \in Msg, Timer(m)
    PROVE  IInv'
<1> USE DEF IInv
<1>1. faults' \in 0..MaxFaults
    BY FaultKeeps DEF Timer, VisibilityTimeout, Redrive, TypeOK
<1>2. /\ place' \in {[place EXCEPT ![m] = "visible"], [place EXCEPT ![m] = "dead"]}
      /\ UNCHANGED <<kind, receives, mtaVars, mhFiles, pc, batch, cur, tried, crashes>>
    BY DEF Timer, VisibilityTimeout, Redrive
<1>3. TypeOK'
    BY <1>1, <1>2 DEF TypeOK, mtaVars
<1>4. HeldInv' /\ DeletedWasInjected'
    BY <1>2 DEF TypeOK, HeldInv, Working, DeletedWasInjected, mtaVars
<1> QED BY <1>3, <1>4

LEMMA CrashKeeps ==
    ASSUME IInv, Crash
    PROVE  IInv'
<1> USE DEF IInv
<1>1. faults' \in 0..MaxFaults /\ crashes' \in 0..MaxCrashes
    <2>1. crashes \in 0..MaxCrashes
        BY DEF TypeOK
    <2> QED BY <2>1, FaultKeeps, LimitAssumption DEF Crash
<1>2. TypeOK'
    BY <1>1 DEF Crash, TypeOK, sqsVars, mtaVars
<1>3. HeldInv' /\ DeletedWasInjected'
    BY DEF Crash, TypeOK, HeldInv, Working, DeletedWasInjected, sqsVars, mtaVars
<1> QED BY <1>2, <1>3

LEMMA Inductive == Spec => []IInv
<1>1. IInv /\ [Next]_vars => IInv'
    <2> SUFFICES ASSUME IInv, [Next]_vars PROVE IInv'
        OBVIOUS
    <2>1. ASSUME NEW t \in Thread, Work(t) PROVE IInv'
        BY <2>1, ReceiveKeeps, TakeKeeps, DownloadKeeps, InjectKeeps, DeleteKeeps DEF Work
    <2>2. CASE UNCHANGED vars
        BY <2>2 DEF IInv, TypeOK, HeldInv, DeletedWasInjected, vars, sqsVars, mtaVars
    <2> QED BY <2>1, <2>2, TimerKeeps, CrashKeeps DEF Next
<1> QED BY <1>1, InitInv, PTL DEF Spec

\* Every variable of the consumer keeps its type, whatever its threads do.
THEOREM ConsumerTypeCorrect == Spec => []TypeOK
<1>1. IInv => TypeOK
    BY DEF IInv
<1> QED BY <1>1, Inductive, PTL

\* No mail is lost: whichever thread or receive deletes a job, and whatever
\* raises, times out or crashes, Postfix accepted its mail before.
THEOREM DeletedMailWasInjected == Spec => []DeletedWasInjected
<1>1. IInv => DeletedWasInjected
    BY DEF IInv
<1> QED BY <1>1, Inductive, PTL

-----------------------------------------------------------------------------
(***************************************************************************)
(* The consumer implements MailTransfer.                                   *)
(***************************************************************************)

\* What has become of m, as MailTransfer sees it.
Fate(m) == CASE place[m] = "deleted" -> "done"
             [] place[m] = "dead" -> "dead"
             [] OTHER -> "queued"

Fates == [m \in Msg |-> Fate(m)]

LEMMA InitTransfers == Init => Transfer!Init
<1> SUFFICES ASSUME Init PROVE Fates = [m \in Msg |-> "queued"] /\ injected = {}
    BY DEF Transfer!Init, Fates, Fate
<1> QED BY DEF Init, Fates, Fate

\* A step that changes no fate injects one mail or none.
LEMMA SameFates ==
    ASSUME NEW m \in Msg, Fates' = Fates,
           injected' = injected \/ injected' = injected \cup {m}
    PROVE  [Transfer!Next]_(Transfer!vars)
BY DEF Transfer!Next, Transfer!Inject, Transfer!vars, Fates, Fate

LEMMA WorkTransfers ==
    ASSUME IInv, NEW t \in Thread, Work(t)
    PROVE  [Transfer!Next]_(Transfer!vars)
<1> USE DEF IInv
<1>1. CASE UNCHANGED <<place, injected>>
    BY <1>1 DEF Transfer!vars
<1>2. CASE Receive(t)
    <2>1. \A m \in Msg : place'[m] = place[m] \/ (place[m] = "visible" /\ place'[m] = "inflight")
        BY <1>2 DEF Receive, Receivable, TypeOK
    <2>2. Fates' = Fates
        BY <2>1 DEF Fates, Fate
    <2>3. injected' = injected
        BY <1>2 DEF Receive, mtaVars
    <2> QED BY <2>2, <2>3 DEF Transfer!vars, Fates, Fate
<1>3. CASE Inject(t) \/ InjectRaises(t)
    <2>1. cur[t].msg \in Msg
        BY <1>3 DEF Inject, InjectRaises, HeldInv, Working, Held
    <2>2. place' = place /\ (injected' = injected \/ injected' = injected \cup {cur[t].msg})
        BY <1>3 DEF Inject, InjectRaises, Accept, sqsVars, mtaVars
    <2>3. Fates' = Fates
        BY <2>2 DEF Fates, Fate
    <2> QED BY <2>1, <2>2, <2>3, SameFates
<1>4. CASE Delete(t)
    <2>1. PICK gone \in injected : gone = cur[t].msg /\ gone \in Msg
        BY <1>4 DEF Delete, HeldInv, Working, Held
    <2>2. injected' = injected
        BY <1>4 DEF Delete, mtaVars
    <2>3. \/ place' = place
          \/ /\ place[gone] \in {"visible", "inflight"}
             /\ place' = [place EXCEPT ![gone] = "deleted"]
        <3>1. \/ place' = place
              \/ place[gone] # "dead" /\ place' = [place EXCEPT ![gone] = "deleted"]
            BY <1>4, <2>1 DEF Delete, DeleteWith
        <3>2. /\ place[gone] \in {"visible", "inflight", "deleted", "dead"}
              /\ place = [place EXCEPT ![gone] = place[gone]]
            BY <2>1 DEF TypeOK
        <3> QED BY <3>1, <3>2
    <2>4. CASE place' = place
        BY <2>2, <2>4 DEF Transfer!vars
    <2>5. CASE /\ place[gone] \in {"visible", "inflight"}
               /\ place' = [place EXCEPT ![gone] = "deleted"]
        <3>1. Fates[gone] = "queued" /\ Fates' = [Fates EXCEPT ![gone] = "done"]
            BY <2>1, <2>5 DEF TypeOK, Fates, Fate
        <3>2. Transfer!Remove(gone)
            BY <2>2, <3>1 DEF Transfer!Remove, Fates, Fate
        <3> QED BY <2>1, <3>2 DEF Transfer!Next
    <2> QED BY <2>3, <2>4, <2>5
<1>5. UNCHANGED <<place, injected>> \/ Receive(t) \/ Inject(t) \/ InjectRaises(t) \/ Delete(t)
    BY DEF Work, EndOfBatch, Take, TakePoison, Download, DownloadFails, KeepJob,
           WriteMailInfo, InjectRefused, InjectNever, DeleteFails, sqsVars, mtaVars
<1> QED BY <1>1, <1>2, <1>3, <1>4, <1>5

LEMMA TimerTransfers ==
    ASSUME IInv, NEW m \in Msg, Timer(m)
    PROVE  [Transfer!Next]_(Transfer!vars)
<1> USE DEF IInv
<1>1. injected' = injected
    BY DEF Timer, VisibilityTimeout, Redrive, mtaVars
<1>2. CASE VisibilityTimeout(m)
    <2>1. place[m] = "inflight" /\ place' = [place EXCEPT ![m] = "visible"]
        BY <1>2 DEF VisibilityTimeout
    <2>2. Fates' = Fates
        BY <2>1 DEF TypeOK, Fates, Fate
    <2> QED BY <1>1, <2>2 DEF Transfer!vars, Fates, Fate
<1>3. CASE Redrive(m)
    <2>1. place[m] = "visible" /\ place' = [place EXCEPT ![m] = "dead"]
        BY <1>3 DEF Redrive
    <2>2. Fates[m] = "queued" /\ Fates' = [Fates EXCEPT ![m] = "dead"]
        BY <2>1 DEF TypeOK, Fates, Fate
    <2>3. Transfer!GiveUp(m)
        BY <1>1, <2>2 DEF Transfer!GiveUp, Fates, Fate
    <2> QED BY <2>3 DEF Transfer!Next
<1> QED BY <1>2, <1>3 DEF Timer

\* The threads, SQS and Postfix together do no more than MailTransfer allows.
THEOREM ConsumerImplementsTransfer == Spec => ImplementsTransfer
<1>1. IInv /\ [Next]_vars => [Transfer!Next]_(Transfer!vars)
    <2> SUFFICES ASSUME IInv, [Next]_vars PROVE [Transfer!Next]_(Transfer!vars)
        OBVIOUS
    <2>1. CASE UNCHANGED <<place, injected>>
        BY <2>1 DEF Transfer!vars
    <2>2. CASE Crash \/ UNCHANGED vars
        BY <2>1, <2>2 DEF Crash, vars, sqsVars, mtaVars
    <2> QED BY <2>2, WorkTransfers, TimerTransfers DEF Next
<1> QED BY <1>1, InitTransfers, Inductive, PTL DEF Spec, ImplementsTransfer, Transfer!Spec

-----------------------------------------------------------------------------
(***************************************************************************)
(* Who works on which receive: duplicates, dead letters and orphan files.  *)
(***************************************************************************)

Copies(job) == copies[job.msg][job.receipt]
Received(job) == job.receipt <= receives[job.msg]
Untouched(job) == Copies(job) = 0 /\ job \notin mhFiles
Unshared(t, job) == \A s \in Thread \ {t} : job \notin batch[s] /\ job # cur[s]

\* What waits in a batch waits in no other hand, and nothing was done for it.
BatchInv ==
    \A t \in Thread : \A job \in batch[t] :
        Received(job) /\ Untouched(job) /\ job # cur[t] /\ Unshared(t, job)

\* How far the work on a message is, its copies and its mail info file tell.
CurInv ==
    \A t \in Thread : cur[t] # NoJob =>
        /\ Received(cur[t]) /\ tried[cur[t].msg] /\ Unshared(t, cur[t])
        /\ Copies(cur[t]) = IF pc[t] = "delete" THEN 1 ELSE 0
        /\ pc[t] \in {"download", "mail info"} => cur[t] \notin mhFiles

IdleInv ==
    \A t \in Thread :
        /\ pc[t] \in {"receive", "next"} => cur[t] = NoJob
        /\ pc[t] = "receive" => batch[t] = {}

\* Nothing is known of a receive that is still to come.
ReceiveInv ==
    /\ \A job \in mhFiles : Received(job)
    /\ \A job \in Held : Copies(job) <= 1 /\ (~Received(job) => Copies(job) = 0)

JobInv == BatchInv /\ CurInv /\ IdleInv /\ ReceiveInv

LEMMA HeldTyped ==
    ASSUME TypeOK
    PROVE  /\ \A t \in Thread : batch[t] \subseteq Held /\ cur[t] \in Held \cup {NoJob}
           /\ mhFiles \subseteq Held /\ NoJob \notin Held
           /\ \A job \in Held :
                /\ job.msg \in Msg /\ job.receipt \in 1..MaxReceives
                /\ Copies(job) \in Nat /\ receives[job.msg] \in 0..MaxReceives
           /\ \A i, j \in Held : i.msg = j.msg /\ i.receipt = j.receipt => i = j
<1>1. NoJob \notin Held
    BY LimitAssumption DEF NoJob, Held
<1>2. \A t \in Thread : batch[t] \subseteq Held /\ cur[t] \in Held \cup {NoJob}
    BY DEF TypeOK
<1>3. ASSUME NEW job \in Held
      PROVE  /\ job.msg \in Msg /\ job.receipt \in 1..MaxReceives
             /\ Copies(job) \in Nat /\ receives[job.msg] \in 0..MaxReceives
    <2>1. job.msg \in Msg /\ job.receipt \in 1..MaxReceives
        BY DEF Held
    <2>2. copies \in [Msg -> [1..MaxReceives -> Nat]] /\ receives \in [Msg -> 0..MaxReceives]
        BY DEF TypeOK
    <2>3. copies[job.msg] \in [1..MaxReceives -> Nat]
        BY <2>1, <2>2
    <2>4. Copies(job) \in Nat
        BY <2>1, <2>3, Zenon DEF Copies
    <2> QED BY <2>1, <2>2, <2>4
<1>4. \A i, j \in Held : i.msg = j.msg /\ i.receipt = j.receipt => i = j
    BY DEF Held
<1> QED BY <1>1, <1>2, <1>3, <1>4 DEF TypeOK

\* Postfix's answer adds one copy to the receive it is about, and no other.
LEMMA AcceptCounts ==
    ASSUME TypeOK, NEW job \in Held, Accept(job)
    PROVE  \A j \in Held : Copies(j)' = IF j = job THEN Copies(j) + 1 ELSE Copies(j)
<1> TAKE j \in Held
<1>1. /\ job.msg \in Msg /\ job.receipt \in 1..MaxReceives
      /\ j.msg \in Msg /\ j.receipt \in 1..MaxReceives
      /\ copies \in [Msg -> [1..MaxReceives -> Nat]]
    BY DEF TypeOK, Held
<1>2. copies' = [copies EXCEPT ![job.msg] =
                    [copies[job.msg] EXCEPT ![job.receipt] = @ + 1]]
    BY <1>1 DEF Accept
<1>3. copies'[j.msg] = IF j.msg = job.msg
                       THEN [copies[job.msg] EXCEPT ![job.receipt] = @ + 1]
                       ELSE copies[j.msg]
    BY <1>1, <1>2
<1>4. copies[job.msg] \in [1..MaxReceives -> Nat]
    BY <1>1
<1>5. [copies[job.msg] EXCEPT ![job.receipt] = @ + 1][j.receipt] =
        IF j.receipt = job.receipt THEN copies[job.msg][job.receipt] + 1
                                   ELSE copies[job.msg][j.receipt]
    BY <1>1, <1>4, Zenon
<1>6. j = job <=> j.msg = job.msg /\ j.receipt = job.receipt
    BY HeldTyped
<1> QED BY <1>3, <1>5, <1>6 DEF Copies

LEMMA InitJobs == Init => JobInv
<1> SUFFICES ASSUME Init PROVE JobInv
    OBVIOUS
<1>1. BatchInv /\ CurInv /\ IdleInv
    BY DEF Init, BatchInv, CurInv, IdleInv
<1>2. \A job \in Held : Copies(job) = 0
    BY DEF Init, Held, Copies
<1> QED BY <1>1, <1>2 DEF Init, ReceiveInv, JobInv

\* Dropping messages leaves the rest in as few hands as before.
LEMMA DropJobs ==
    ASSUME IInv, JobInv, NEW t \in Thread, Abandon(t) \/ Continue(t),
           UNCHANGED <<receives, mhFiles>>,
           \A m \in Msg : tried[m] => tried'[m],
           \A j \in Held : j # cur[t] => Copies(j)' = Copies(j)
    PROVE  BatchInv' /\ CurInv' /\ IdleInv'
<1>1. /\ \A s \in Thread : batch'[s] \subseteq batch[s]
      /\ \A s \in Thread \ {t} : batch'[s] = batch[s] /\ cur'[s] = cur[s] /\ pc'[s] = pc[s]
      /\ cur'[t] = NoJob /\ pc'[t] \in {"receive", "next"}
      /\ pc'[t] = "receive" => batch'[t] = {}
    BY DEF IInv, TypeOK, Abandon, Continue, Goto
<1>2. \A s \in Thread : batch[s] \subseteq Held /\ cur[s] \in Held \cup {NoJob}
    BY HeldTyped DEF IInv
<1>3. BatchInv'
    <2> SUFFICES ASSUME NEW s \in Thread, NEW job \in batch'[s]
                 PROVE  /\ Received(job)' /\ Untouched(job)'
                        /\ job # cur'[s] /\ Unshared(s, job)'
        BY DEF BatchInv
    <2>1. job \in batch[s] /\ job \in Held /\ job # NoJob
        BY <1>1, <1>2, HeldTyped DEF IInv
    <2>2. job # cur[t]
        BY <2>1 DEF JobInv, BatchInv, Unshared
    <2>3. Received(job)' /\ Untouched(job)'
        BY <2>1, <2>2 DEF JobInv, BatchInv, Received, Untouched
    <2>4. job # cur'[s] /\ Unshared(s, job)'
        BY <1>1, <2>1 DEF JobInv, BatchInv, Unshared
    <2> QED BY <2>3, <2>4
<1>4. CurInv'
    <2> SUFFICES ASSUME NEW s \in Thread, cur'[s] # NoJob
                 PROVE  /\ Received(cur[s])' /\ tried'[cur'[s].msg] /\ Unshared(s, cur[s])'
                        /\ Copies(cur[s])' = IF pc'[s] = "delete" THEN 1 ELSE 0
                        /\ pc'[s] \in {"download", "mail info"} => cur'[s] \notin mhFiles'
        BY DEF CurInv
    <2>1. s # t /\ cur'[s] = cur[s] /\ pc'[s] = pc[s] /\ cur[s] \in Held
        BY <1>1, <1>2
    <2>2. cur[s] # cur[t] /\ cur[s].msg \in Msg
        BY <2>1, HeldTyped DEF JobInv, CurInv, Unshared, IInv
    <2>3. Copies(cur[s])' = Copies(cur[s])
        BY <2>1, <2>2 DEF Copies
    <2>4. Unshared(s, cur[s])'
        <3>1. Unshared(s, cur[s])
            BY <2>1 DEF JobInv, CurInv
        <3>2. cur'[t] # cur'[s]
            BY <1>1, <2>1
        <3>3. \A r \in Thread \ {t} : cur'[r] = cur[r] /\ batch'[r] = batch[r]
            BY <1>1
        <3>4. batch'[t] \subseteq batch[t]
            BY <1>1
        <3> QED BY <2>1, <3>1, <3>2, <3>3, <3>4 DEF Unshared
    <2> QED BY <2>1, <2>2, <2>3, <2>4 DEF JobInv, CurInv, Received
<1>5. IdleInv'
    BY <1>1 DEF JobInv, IdleInv
<1> QED BY <1>3, <1>4, <1>5

LEMMA ReceiveJobs ==
    ASSUME IInv, JobInv, NEW t \in Thread, Receive(t)
    PROVE  JobInv'
<1>1. PICK M \in SUBSET Receivable :
        /\ receives' = [m \in Msg |-> IF m \in M THEN receives[m] + 1 ELSE receives[m]]
        /\ batch' = [batch EXCEPT ![t] =
                       {[msg |-> m, receipt |-> receives[m] + 1] : m \in M}]
        /\ pc' = [pc EXCEPT ![t] = "next"]
        /\ UNCHANGED <<copies, mhFiles, cur, tried>>
    BY DEF Receive, Goto, mtaVars
<1>2. /\ pc \in [Thread -> {"receive", "next", "download", "mail info", "inject", "delete"}]
      /\ batch \in [Thread -> SUBSET Held] /\ M \subseteq Msg
      /\ \A m \in Msg : receives[m] \in Nat
    <2>1. \A m \in Msg : receives[m] \in 0..MaxReceives
        BY DEF IInv, TypeOK
    <2>2. \A m \in Msg : receives[m] \in Nat
        BY <2>1, LimitAssumption
    <2> QED BY <2>2 DEF IInv, TypeOK, Receivable
<1>3. /\ pc[t] = "receive" /\ pc'[t] = "next" /\ cur[t] = NoJob
      /\ \A s \in Thread \ {t} : pc'[s] = pc[s] /\ batch'[s] = batch[s]
      /\ batch'[t] = {[msg |-> m, receipt |-> receives[m] + 1] : m \in M}
    BY <1>1, <1>2 DEF Receive, JobInv, IdleInv
<1>4. IInv'
    BY ReceiveKeeps
<1>5. \A job \in Held : /\ Copies(job)' = Copies(job)
                        /\ Received(job) => Received(job)'
    <2> TAKE job \in Held
    <2>1. job.msg \in Msg /\ job.receipt \in 1..MaxReceives /\ job.receipt \in Nat
        BY LimitAssumption DEF Held
    <2>2. receives'[job.msg] \in {receives[job.msg], receives[job.msg] + 1}
        BY <1>1, <2>1
    <2>3. receives[job.msg] \in Nat
        BY <1>2, <2>1
    <2> QED BY <1>1, <2>1, <2>2, <2>3 DEF Copies, Received
<1>6. \A job \in batch'[t] : job \in Held /\ Received(job)' /\ ~Received(job)
    <2> TAKE job \in batch'[t]
    <2>1. PICK m \in M : job = [msg |-> m, receipt |-> receives[m] + 1]
        BY <1>3
    <2>2. /\ job.msg = m /\ job.receipt = receives[m] + 1 /\ receives'[m] = receives[m] + 1
          /\ receives[m] \in Nat
        BY <1>1, <1>2, <2>1
    <2>3. job \in Held
        BY <1>4, HeldTyped DEF IInv, TypeOK
    <2>4. Received(job)' /\ ~Received(job)
        BY <2>2 DEF Received
    <2> QED BY <2>3, <2>4
<1>7. \A s \in Thread : cur[s] # NoJob => cur[s] \in Held /\ Received(cur[s])
    BY HeldTyped DEF JobInv, CurInv, IInv
<1>8. \A s \in Thread : \A job \in batch[s] : job \in Held /\ Received(job)
    BY HeldTyped DEF JobInv, BatchInv, IInv
<1>9. BatchInv'
    <2> SUFFICES ASSUME NEW s \in Thread, NEW job \in batch'[s]
                 PROVE  /\ Received(job)' /\ Untouched(job)'
                        /\ job # cur'[s] /\ Unshared(s, job)'
        BY DEF BatchInv
    <2>1. CASE s = t
        <3>1. job \in Held /\ Received(job)' /\ ~Received(job) /\ job # NoJob
            BY <1>6, <2>1, HeldTyped DEF IInv
        <3>2. Untouched(job)'
            BY <1>1, <1>5, <3>1 DEF JobInv, ReceiveInv, Untouched
        <3>3. job # cur'[s] /\ Unshared(s, job)'
            BY <1>1, <1>3, <1>7, <1>8, <2>1, <3>1 DEF Unshared
        <3> QED BY <3>1, <3>2, <3>3
    <2>2. CASE s # t
        <3>1. job \in batch[s] /\ job \in Held /\ Received(job)
            BY <1>3, <1>8, <2>2
        <3>2. job # cur'[s] /\ Unshared(s, job)'
            BY <1>1, <1>3, <1>6, <3>1 DEF JobInv, BatchInv, Unshared
        <3> QED BY <1>1, <1>5, <3>1, <3>2 DEF JobInv, BatchInv, Untouched
    <2> QED BY <2>1, <2>2
<1>10. CurInv'
    <2> SUFFICES ASSUME NEW s \in Thread, cur[s] # NoJob
                 PROVE  /\ Received(cur[s])' /\ tried[cur[s].msg] /\ Unshared(s, cur[s])'
                        /\ Copies(cur[s])' = IF pc'[s] = "delete" THEN 1 ELSE 0
                        /\ pc'[s] \in {"download", "mail info"} => cur[s] \notin mhFiles
        BY <1>1 DEF CurInv
    <2>1. s # t /\ pc'[s] = pc[s] /\ cur[s] \in Held /\ Received(cur[s])
        BY <1>3, <1>7
    <2>2. Copies(cur[s])' = Copies(cur[s]) /\ Received(cur[s])'
        BY <1>1, <1>5, <2>1 DEF Copies, Received
    <2>3. Unshared(s, cur[s])'
        BY <1>1, <1>3, <1>6, <2>1 DEF JobInv, CurInv, Unshared
    <2> QED BY <2>1, <2>2, <2>3 DEF JobInv, CurInv
<1>11. IdleInv'
    BY <1>1, <1>3 DEF JobInv, IdleInv
<1>12. ReceiveInv'
    BY <1>1, <1>5, HeldTyped DEF JobInv, ReceiveInv, IInv
<1> QED BY <1>9, <1>10, <1>11, <1>12 DEF JobInv

LEMMA TakeJobs ==
    ASSUME IInv, JobInv, NEW t \in Thread, Take(t)
    PROVE  JobInv'
<1>1. PICK job \in batch[t] :
        /\ cur' = [cur EXCEPT ![t] = job]
        /\ batch' = [batch EXCEPT ![t] = @ \ {job}]
        /\ tried' = [tried EXCEPT ![job.msg] = TRUE]
        /\ pc' = [pc EXCEPT ![t] = "download"]
        /\ UNCHANGED <<copies, receives, mhFiles>>
    BY DEF Take, Goto, sqsVars, mtaVars
<1>2. /\ cur'[t] = job /\ batch'[t] = batch[t] \ {job} /\ pc'[t] = "download"
      /\ \A s \in Thread \ {t} : cur'[s] = cur[s] /\ batch'[s] = batch[s] /\ pc'[s] = pc[s]
      /\ job \in Held /\ job # NoJob
      /\ \A m \in Msg : tried[m] => tried'[m]
      /\ tried'[job.msg]
    BY <1>1, HeldTyped DEF IInv, TypeOK
<1>3. \A s \in Thread : cur[s] # NoJob => cur[s].msg \in Msg
    BY HeldTyped DEF IInv
<1>4. BatchInv'
    BY <1>1, <1>2 DEF JobInv, BatchInv, Received, Untouched, Copies, Unshared
<1>5. CurInv'
    <2> SUFFICES ASSUME NEW s \in Thread, cur'[s] # NoJob
                 PROVE  /\ Received(cur[s])' /\ tried'[cur'[s].msg] /\ Unshared(s, cur[s])'
                        /\ Copies(cur[s])' = IF pc'[s] = "delete" THEN 1 ELSE 0
                        /\ pc'[s] \in {"download", "mail info"} => cur'[s] \notin mhFiles'
        BY DEF CurInv
    <2>1. CASE s = t
        <3>1. Received(job) /\ Untouched(job) /\ Unshared(t, job)
            BY DEF JobInv, BatchInv
        <3>2. Unshared(t, cur[t])'
            BY <1>2, <3>1 DEF Unshared
        <3>3. Received(cur[t])' /\ Copies(cur[t])' = 0 /\ cur'[t] \notin mhFiles'
            BY <1>1, <1>2, <3>1 DEF Received, Untouched, Copies
        <3> QED BY <1>2, <2>1, <3>2, <3>3
    <2>2. CASE s # t
        <3>1. cur[s] # job /\ cur[s] # NoJob
            BY <1>1, <1>2, <2>2 DEF JobInv, BatchInv, Unshared
        <3>2. Unshared(s, cur[s])
            BY <3>1 DEF JobInv, CurInv
        <3>3. Unshared(s, cur[s])'
            BY <1>2, <2>2, <3>1, <3>2 DEF Unshared
        <3>4. Received(cur[s])' /\ Copies(cur[s])' = Copies(cur[s]) /\ tried'[cur'[s].msg]
            BY <1>1, <1>2, <1>3, <2>2, <3>1 DEF JobInv, CurInv, Received, Copies
        <3>5. /\ Copies(cur[s]) = IF pc[s] = "delete" THEN 1 ELSE 0
              /\ pc[s] \in {"download", "mail info"} => cur[s] \notin mhFiles
            BY <3>1 DEF JobInv, CurInv
        <3>6. cur'[s] = cur[s] /\ pc'[s] = pc[s] /\ mhFiles' = mhFiles
            BY <1>1, <1>2, <2>2
        <3> QED BY <3>3, <3>4, <3>5, <3>6
    <2> QED BY <2>1, <2>2
<1>6. IdleInv' /\ ReceiveInv'
    BY <1>1, <1>2 DEF JobInv, IdleInv, ReceiveInv, Received, Copies
<1> QED BY <1>4, <1>5, <1>6 DEF JobInv

\* A step that only moves on with a message.
LEMMA MoveJobs ==
    ASSUME IInv, JobInv, NEW t \in Thread,
           EndOfBatch(t) \/ Download(t) \/ WriteMailInfo(t)
    PROVE  JobInv'
<1>1. /\ UNCHANGED <<copies, receives, batch, cur, tried>>
      /\ mhFiles' = mhFiles \/ (pc[t] = "mail info" /\ mhFiles' = mhFiles \cup {cur[t]})
      /\ \A s \in Thread \ {t} : pc'[s] = pc[s]
      /\ \/ pc[t] = "next" /\ pc'[t] = "receive" /\ batch[t] = {}
         \/ pc[t] = "download" /\ pc'[t] = "mail info" /\ mhFiles' = mhFiles
         \/ pc[t] = "mail info" /\ pc'[t] = "inject"
    BY DEF EndOfBatch, Download, WriteMailInfo, MailInfoFile, Goto, sqsVars, mtaVars, IInv,
           TypeOK
<1>2. pc[t] \in {"download", "mail info"} => cur[t] # NoJob
    BY HeldTyped DEF IInv, HeldInv, Working
<1>3. BatchInv'
    BY <1>1 DEF JobInv, BatchInv, Received, Untouched, Copies, Unshared
<1>4. CurInv'
    BY <1>1 DEF JobInv, CurInv, Received, Copies, Unshared
<1>5. IdleInv' /\ ReceiveInv'
    BY <1>1, <1>2 DEF JobInv, IdleInv, CurInv, ReceiveInv, Received, Copies
<1> QED BY <1>3, <1>4, <1>5 DEF JobInv

LEMMA InjectJobs ==
    ASSUME IInv, JobInv, NEW t \in Thread, Inject(t)
    PROVE  JobInv'
<1>1. /\ UNCHANGED <<receives, batch, cur, tried, mhFiles>>
      /\ pc[t] = "inject" /\ pc'[t] = "delete"
      /\ \A s \in Thread \ {t} : pc'[s] = pc[s]
      /\ cur[t] \in Held /\ cur[t] # NoJob
    BY HeldTyped DEF Inject, Goto, sqsVars, IInv, TypeOK, HeldInv, Working
<1>2. \A j \in Held : Copies(j)' = IF j = cur[t] THEN Copies(j) + 1 ELSE Copies(j)
    BY <1>1, AcceptCounts DEF Inject, IInv
<1>3. Received(cur[t]) /\ Copies(cur[t]) = 0 /\ Unshared(t, cur[t])
    BY <1>1 DEF JobInv, CurInv
<1>4. /\ \A s \in Thread : batch[s] \subseteq Held
      /\ \A s \in Thread : cur[s] # NoJob => cur[s] \in Held
      /\ \A s \in Thread : cur[t] \notin batch[s]
    BY <1>1, <1>3, HeldTyped DEF IInv, JobInv, BatchInv, Unshared
<1>5. \A s \in Thread : cur[s] # NoJob =>
        Copies(cur[s])' = IF s = t THEN 1 ELSE Copies(cur[s])
    <2> TAKE s \in Thread
    <2> HAVE cur[s] # NoJob
    <2>1. Copies(cur[s])' = IF cur[s] = cur[t] THEN Copies(cur[s]) + 1 ELSE Copies(cur[s])
        BY <1>1, <1>2, <1>4 DEF Copies
    <2> QED BY <1>3, <2>1 DEF Unshared
<1>6. BatchInv'
    BY <1>1, <1>2, <1>4 DEF JobInv, BatchInv, Received, Untouched, Unshared
<1>7. CurInv'
    BY <1>1, <1>5 DEF JobInv, CurInv, Received, Unshared
<1>8. IdleInv'
    BY <1>1 DEF JobInv, IdleInv
<1>9. ReceiveInv'
    BY <1>1, <1>2, <1>3 DEF JobInv, ReceiveInv, Received
<1> QED BY <1>6, <1>7, <1>8, <1>9 DEF JobInv

LEMMA FailJobs ==
    ASSUME IInv, JobInv, NEW t \in Thread,
           \/ TakePoison(t) \/ DownloadFails(t) \/ InjectRefused(t) \/ InjectRaises(t) \/ InjectNever(t)
           \/ Delete(t) \/ DeleteFails(t)
    PROVE  JobInv'
<1>1. /\ Abandon(t) \/ Continue(t)
      /\ UNCHANGED <<receives, mhFiles>>
      /\ \A m \in Msg : tried[m] => tried'[m]
    BY DEF TakePoison, DownloadFails, KeepJob, InjectRefused, NotInjected, InjectRaises, InjectNever,
           Delete, DeleteFails, sqsVars, IInv, TypeOK
<1>2. \/ UNCHANGED copies
      \/ pc[t] = "inject" /\ cur[t] \in Held /\ Accept(cur[t])
    BY DEF TakePoison, DownloadFails, InjectRefused, InjectRaises, InjectNever, Delete, DeleteFails,
           mtaVars, IInv, HeldInv, Working
<1>3. CASE UNCHANGED copies
    BY <1>1, <1>3, DropJobs DEF JobInv, ReceiveInv, Received, Copies
<1>4. CASE pc[t] = "inject" /\ cur[t] \in Held /\ Accept(cur[t])
    <2>1. \A j \in Held : Copies(j)' = IF j = cur[t] THEN Copies(j) + 1 ELSE Copies(j)
        BY <1>4, AcceptCounts DEF IInv
    <2>2. Received(cur[t]) /\ Copies(cur[t]) = 0
        BY <1>4, HeldTyped DEF JobInv, CurInv, IInv
    <2>3. ReceiveInv'
        BY <1>1, <2>1, <2>2 DEF JobInv, ReceiveInv, Received
    <2> QED BY <1>1, <2>1, <2>3, DropJobs DEF JobInv
<1> QED BY <1>2, <1>3, <1>4

LEMMA OtherJobs ==
    ASSUME IInv, JobInv, Crash \/ (\E m \in Msg : Timer(m)) \/ UNCHANGED vars
    PROVE  JobInv'
<1>1. /\ UNCHANGED <<copies, receives, mhFiles, tried>>
      /\ \/ UNCHANGED <<pc, batch, cur>>
         \/ /\ pc' = [t \in Thread |-> "receive"]
            /\ batch' = [t \in Thread |-> {}]
            /\ cur' = [t \in Thread |-> NoJob]
    BY DEF Crash, Timer, VisibilityTimeout, Redrive, vars, sqsVars, mtaVars
<1>2. ReceiveInv'
    BY <1>1 DEF JobInv, ReceiveInv, Received, Copies
<1>3. CASE UNCHANGED <<pc, batch, cur>>
    <2>1. BatchInv' /\ IdleInv'
        BY <1>1, <1>3 DEF JobInv, BatchInv, IdleInv, Received, Untouched, Copies, Unshared
    <2>2. CurInv'
        BY <1>1, <1>3 DEF JobInv, CurInv, Received, Copies, Unshared
    <2> QED BY <1>2, <2>1, <2>2 DEF JobInv
<1>4. CASE /\ pc' = [t \in Thread |-> "receive"]
           /\ batch' = [t \in Thread |-> {}]
           /\ cur' = [t \in Thread |-> NoJob]
    <2>1. BatchInv' /\ CurInv' /\ IdleInv'
        BY <1>4 DEF BatchInv, CurInv, IdleInv
    <2> QED BY <1>2, <2>1 DEF JobInv
<1> QED BY <1>1, <1>3, <1>4

LEMMA Shared == Spec => [](IInv /\ JobInv)
<1>1. IInv /\ JobInv /\ [Next]_vars => JobInv'
    <2> SUFFICES ASSUME IInv, JobInv, [Next]_vars PROVE JobInv'
        OBVIOUS
    <2>1. ASSUME NEW t \in Thread, Work(t) PROVE JobInv'
        BY <2>1, ReceiveJobs, TakeJobs, MoveJobs, InjectJobs, FailJobs DEF Work
    <2> QED BY <2>1, OtherJobs DEF Next
<1> QED BY <1>1, InitJobs, Inductive, PTL DEF Spec

\* Duplicates come from second receives only: whatever threads overlap, a receipt
\* is in one hand, and its mail is injected at most once.
THEOREM OneCopyForEachReceive == Spec => []OneCopyPerReceive
<1>1. IInv /\ JobInv => OneCopyPerReceive
    <2> SUFFICES ASSUME IInv, JobInv, NEW m \in Msg, NEW n \in 1..MaxReceives
                 PROVE  /\ copies[m][n] <= 1
                        /\ n > receives[m] => copies[m][n] = 0
        BY DEF OneCopyPerReceive
    <2> DEFINE job == [msg |-> m, receipt |-> n]
    <2>1. job \in Held
        BY DEF Held
    <2>2. Copies(job) <= 1 /\ (~Received(job) => Copies(job) = 0)
        BY <2>1 DEF JobInv, ReceiveInv
    <2>3. receives[m] \in 0..MaxReceives /\ job.msg = m /\ job.receipt = n
        BY DEF IInv, TypeOK
    <2>4. Copies(job) = copies[m][n] /\ (Received(job) <=> n <= receives[m])
        BY <2>3 DEF Copies, Received
    <2>5. n > receives[m] => ~Received(job)
        BY <2>3, <2>4, LimitAssumption
    <2> QED BY <2>2, <2>4, <2>5
<1> QED BY <1>1, Shared, PTL

-----------------------------------------------------------------------------
\* A job nobody came to: every receive of it so far, but for one that is still in
\* somebody's batch, was wasted by a failure of its own.
Spent(m) == IF place[m] = "inflight" /\ InHand(m) THEN faults + 1 ELSE faults

UntriedInv ==
    \/ Disruptive # {}
    \/ \A m \in Msg : ~tried[m] => receives[m] <= Spent(m)

LEMMA Numbers ==
    ASSUME TypeOK
    PROVE  /\ faults \in Nat /\ crashes \in Nat
           /\ \A m \in Msg : receives[m] \in Nat /\ Spent(m) \in {faults, faults + 1}
<1>1. faults \in Nat /\ crashes \in Nat
    <2>1. faults \in 0..MaxFaults /\ crashes \in 0..MaxCrashes
        BY DEF TypeOK
    <2> QED BY <2>1, LimitAssumption
<1>2. \A m \in Msg : receives[m] \in 0..MaxReceives
    BY DEF TypeOK
<1>3. \A m \in Msg : receives[m] \in Nat
    BY <1>2, LimitAssumption
<1>4. \A m \in Msg : Spent(m) \in {faults, faults + 1}
    BY DEF Spent
<1> QED BY <1>1, <1>3, <1>4

\* A step that adds a failure may lose whatever was in hand.
LEMMA FaultUntried ==
    ASSUME TypeOK, TypeOK', UntriedInv, Fault, UNCHANGED <<kind, receives>>,
           \A m \in Msg : tried[m] => tried'[m]
    PROVE  UntriedInv'
<1>1. faults' = faults + 1
    BY DEF Fault
<1>2. \A m \in Msg : receives[m] <= Spent(m) => receives'[m] <= Spent(m)'
    <2> TAKE m \in Msg
    <2>1. /\ Spent(m) \in {faults, faults + 1} /\ receives[m] \in Nat /\ faults \in Nat
          /\ receives'[m] = receives[m]
        BY Numbers
    <2>2. Spent(m)' \in {faults', faults' + 1}
        BY DEF Spent
    <2> QED BY <1>1, <2>1, <2>2
<1> QED BY <1>2 DEF UntriedInv, Disruptive

\* Otherwise what is untried and in hand stays there.
LEMMA QuietUntried ==
    ASSUME TypeOK, TypeOK', UntriedInv, UNCHANGED kind,
           \A m \in Msg : tried[m] => tried'[m],
           faults' \in {faults, faults + 1},
           \A m \in Msg : ~tried'[m] =>
             /\ receives'[m] = receives[m]
             /\ place[m] = "inflight" /\ InHand(m) =>
                    faults' = faults + 1 \/ (place'[m] = "inflight" /\ InHand(m)')
    PROVE  UntriedInv'
<1>1. ASSUME NEW m \in Msg, ~tried'[m], receives[m] <= Spent(m)
      PROVE  receives'[m] <= Spent(m)'
    <2>1. receives'[m] = receives[m] /\ receives[m] \in Nat /\ faults \in Nat
        BY <1>1, Numbers
    <2>2. Spent(m)' \in {faults', faults' + 1}
        BY DEF Spent
    <2>3. CASE place[m] = "inflight" /\ InHand(m)
        <3>1. Spent(m) = faults + 1
            BY <2>3 DEF Spent
        <3>2. CASE faults' = faults + 1
            BY <1>1, <2>1, <2>2, <3>1, <3>2
        <3>3. CASE place'[m] = "inflight" /\ InHand(m)'
            <4>1. Spent(m)' = faults' + 1
                BY <3>3 DEF Spent
            <4> QED BY <1>1, <2>1, <3>1, <4>1
        <3> QED BY <1>1, <2>3, <3>2, <3>3
    <2>4. CASE ~(place[m] = "inflight" /\ InHand(m))
        <3>1. Spent(m) = faults
            BY <2>1, <2>4 DEF Spent
        <3> QED BY <1>1, <2>1, <2>2, <3>1
    <2> QED BY <2>3, <2>4
<1> QED BY <1>1 DEF UntriedInv, Disruptive

\* What an untried job is in hand by is a batch.
LEMMA UntriedIsInBatch ==
    ASSUME IInv, JobInv, NEW m \in Msg, ~tried[m], InHand(m)
    PROVE  \E s \in Thread : [msg |-> m, receipt |-> receives[m]] \in batch[s]
<1>1. PICK s \in Thread : [msg |-> m, receipt |-> receives[m]] \in batch[s] \cup {cur[s]}
    BY DEF InHand
<1>2. cur[s] # [msg |-> m, receipt |-> receives[m]]
    <2>1. ASSUME cur[s] = [msg |-> m, receipt |-> receives[m]] PROVE FALSE
        <3>1. cur[s].msg = m /\ NoJob.msg = ""
            BY <2>1 DEF NoJob
        <3>2. cur[s] # NoJob
            BY <3>1, NoJobAssumption
        <3>3. tried[m]
            BY <3>1, <3>2 DEF JobInv, CurInv
        <3> QED BY <3>3
    <2> QED BY <2>1
<1> QED BY <1>1, <1>2

LEMMA WorkUntried ==
    ASSUME IInv, JobInv, UntriedInv, NEW t \in Thread, Work(t)
    PROVE  UntriedInv'
<1>1. IInv' /\ UNCHANGED kind
    <2>1. UNCHANGED kind
        BY DEF Work, Receive, EndOfBatch, Take, TakePoison, Download, DownloadFails, KeepJob,
               WriteMailInfo, Inject, InjectRefused, InjectRaises, InjectNever, Delete, DeleteFails,
               sqsVars
    <2> QED BY <2>1, ReceiveKeeps, TakeKeeps, DownloadKeeps, InjectKeeps, DeleteKeeps
            DEF Work
<1>2. CASE Receive(t)
    <2>1. PICK M \in SUBSET Receivable :
            /\ place' = [m \in Msg |-> IF m \in M THEN "inflight" ELSE place[m]]
            /\ receives' = [m \in Msg |-> IF m \in M THEN receives[m] + 1 ELSE receives[m]]
            /\ batch' = [batch EXCEPT ![t] =
                           {[msg |-> m, receipt |-> receives[m] + 1] : m \in M}]
            /\ UNCHANGED <<cur, tried, faults>>
        BY <1>2 DEF Receive
    <2>2. /\ batch[t] = {} /\ \A s \in Thread \ {t} : batch'[s] = batch[s]
          /\ batch'[t] = {[msg |-> m, receipt |-> receives[m] + 1] : m \in M}
          /\ \A m \in M : place[m] = "visible"
        BY <1>2, <2>1 DEF Receive, Receivable, IInv, TypeOK, JobInv, IdleInv
    <2>3. ASSUME NEW m \in Msg, receives[m] <= Spent(m)
          PROVE  receives'[m] <= Spent(m)'
        <3>1. faults \in Nat /\ receives[m] \in Nat
            BY Numbers DEF IInv
        <3>2. CASE m \in M
            <4>1. receives[m] <= faults /\ receives'[m] = receives[m] + 1
                BY <2>1, <2>2, <2>3, <3>2 DEF Spent
            <4>2. place'[m] = "inflight" /\ InHand(m)'
                BY <2>1, <2>2, <3>2, <4>1 DEF InHand
            <4> QED BY <2>1, <3>1, <4>1, <4>2 DEF Spent
        <3>3. CASE m \notin M
            <4>1. receives'[m] = receives[m] /\ place'[m] = place[m] /\ faults' = faults
                BY <2>1, <3>3
            <4>2. InHand(m) => InHand(m)'
                BY <2>1, <2>2, <4>1 DEF InHand
            <4>3. CASE place[m] = "inflight" /\ InHand(m)
                BY <2>3, <4>1, <4>2, <4>3 DEF Spent
            <4>4. CASE ~(place[m] = "inflight" /\ InHand(m))
                <5>1. receives[m] <= faults
                    BY <2>3, <4>4 DEF Spent
                <5>2. Spent(m)' = faults \/ Spent(m)' = faults + 1
                    BY <4>1 DEF Spent
                <5> QED BY <3>1, <4>1, <5>1, <5>2
            <4> QED BY <4>3, <4>4
        <3> QED BY <3>2, <3>3
    <2> QED BY <1>1, <2>1, <2>3 DEF UntriedInv, Disruptive
<1>3. CASE Disruptive # {}
    <2>1. Disruptive' = Disruptive
        BY <1>1 DEF Disruptive
    <2> QED BY <1>3, <2>1 DEF UntriedInv
<1> DEFINE Disrupts ==
        \/ TakePoison(t) \/ InjectNever(t)
        \/ DownloadFails(t) /\ kind[cur[t].msg] = "poison"
<1>6. Disrupts => Disruptive # {}
    <2>1. InjectNever(t) \/ DownloadFails(t) => cur[t].msg \in Msg
        BY HeldTyped DEF InjectNever, DownloadFails, IInv, HeldInv, Working
    <2>2. TakePoison(t) => \E m \in Msg : kind[m] = "poison"
        BY HeldTyped DEF TakePoison, IInv
    <2> QED BY <2>1, <2>2 DEF Disruptive, InjectNever
<1>4. CASE Fault /\ ~Receive(t) /\ ~TakePoison(t) /\ ~InjectNever(t)
    <2>1. UNCHANGED receives /\ \A m \in Msg : tried[m] => tried'[m]
        BY <1>4 DEF Work, EndOfBatch, Take, Download, DownloadFails, WriteMailInfo, Inject,
                    InjectRefused, InjectRaises, InjectNever, Delete, DeleteFails, sqsVars, IInv, TypeOK
    <2> QED BY <1>1, <1>4, <2>1, FaultUntried DEF IInv
<1>5. CASE ~Fault /\ ~Receive(t) /\ ~Disrupts
    <2>1. /\ UNCHANGED <<receives, faults>>
          /\ \A m \in Msg : tried[m] => tried'[m]
          /\ \A m \in Msg : ~tried'[m] => place'[m] = place[m]
          /\ \A m \in Msg : ~tried'[m] =>
               \A s \in Thread : \A job \in batch[s] : job.msg = m => job \in batch'[s]
        <3>1. CASE Take(t)
            <4>1. PICK job \in batch[t] :
                    /\ batch' = [batch EXCEPT ![t] = @ \ {job}]
                    /\ tried' = [tried EXCEPT ![job.msg] = TRUE]
                    /\ UNCHANGED <<receives, place, faults>>
                BY <3>1 DEF Take, sqsVars
            <4>2. job.msg \in Msg
                BY HeldTyped DEF IInv
            <4> QED BY <4>1, <4>2 DEF IInv, TypeOK
        <3>2. CASE Delete(t)
            <4>1. cur[t] # NoJob /\ cur[t].msg \in Msg /\ tried[cur[t].msg]
                BY <3>2, HeldTyped DEF Delete, IInv, HeldInv, Working, JobInv, CurInv
            <4>2. /\ place' \in {place, [place EXCEPT ![cur[t].msg] = "deleted"]}
                  /\ UNCHANGED <<receives, faults, batch, tried>>
                BY <3>2 DEF Delete, DeleteWith, Continue
            <4> QED BY <4>1, <4>2 DEF IInv, TypeOK
        <3>3. CASE ~Take(t) /\ ~Delete(t)
            BY <1>5, <3>3 DEF Work, EndOfBatch, Download, DownloadFails, KeepJob, Continue,
                              WriteMailInfo, Inject, InjectRefused, NotInjected,
                              InjectRaises, InjectNever, DeleteFails, sqsVars
        <3> QED BY <3>1, <3>2, <3>3
    <2>2. ASSUME NEW m \in Msg, ~tried'[m], InHand(m) PROVE InHand(m)'
        <3>1. PICK s \in Thread : [msg |-> m, receipt |-> receives[m]] \in batch[s]
            BY <2>1, <2>2, UntriedIsInBatch
        <3>2. [msg |-> m, receipt |-> receives[m]] \in batch'[s]
            BY <2>1, <2>2, <3>1
        <3> QED BY <2>1, <3>2 DEF InHand
    <2> QED BY <1>1, <2>1, <2>2, QuietUntried DEF IInv
<1> QED BY <1>2, <1>3, <1>4, <1>5, <1>6

\* A dead letter nobody came to was held up by a neighbour that keeps raising, as long as there are
\* fewer failures and crashes than receives.
THEOREM DeadLettersWereTried ==
    ASSUME MaxFaults < MaxReceives
    PROVE  Spec => []UntriedDeadNeedsPoison
<1> DEFINE DeadInv == \A m \in Msg : place[m] = "dead" => receives[m] = MaxReceives
<1>1. Init => UntriedInv /\ DeadInv
    <2> SUFFICES ASSUME Init, NEW m \in Msg
                 PROVE  receives[m] <= Spent(m) /\ place[m] # "dead"
        BY DEF UntriedInv
    <2> QED BY DEF Init, Spent
<1>2. IInv /\ JobInv /\ UntriedInv /\ DeadInv /\ [Next]_vars => UntriedInv' /\ DeadInv'
    <2> SUFFICES ASSUME IInv, JobInv, UntriedInv, DeadInv, [Next]_vars
                 PROVE  UntriedInv' /\ DeadInv'
        OBVIOUS
    <2>1. ASSUME NEW t \in Thread, Work(t) PROVE UntriedInv' /\ DeadInv'
        <3>1. \A m \in Msg : place'[m] = "dead" =>
                 place[m] = "dead" /\ receives'[m] = receives[m]
            BY <2>1 DEF Work, Receive, Receivable, EndOfBatch, Take, TakePoison, Download,
                        DownloadFails, KeepJob, WriteMailInfo, Inject, InjectRefused,
                        InjectRaises, InjectNever, Delete, DeleteWith, DeleteFails, sqsVars, IInv, TypeOK
        <3>2. DeadInv'
            BY <3>1
        <3> QED BY <2>1, <3>2, WorkUntried
    <2>2. ASSUME NEW m \in Msg, Timer(m) PROVE UntriedInv' /\ DeadInv'
        <3>1. /\ UNCHANGED <<kind, receives, batch, cur, tried>>
              /\ \A n \in Msg \ {m} : place'[n] = place[n]
              /\ place'[m] = "dead" => receives[m] = MaxReceives
              /\ place[m] = "inflight" /\ InHand(m) => Fault
              /\ Fault \/ faults' = faults
              /\ TypeOK'
            BY <2>2, TimerKeeps DEF Timer, VisibilityTimeout, Redrive, IInv, TypeOK
        <3>2. \A n \in Msg : InHand(n) => InHand(n)'
            BY <3>1 DEF InHand
        <3>3. UntriedInv'
            <4>1. CASE Fault
                BY <3>1, <4>1, FaultUntried DEF IInv
            <4>2. CASE ~Fault
                <5>1. faults' = faults
                    BY <3>1, <4>2
                <5>2. \A n \in Msg : place[n] = "inflight" /\ InHand(n) =>
                         place'[n] = "inflight" /\ InHand(n)'
                    BY <3>1, <3>2, <4>2
                <5> QED BY <3>1, <5>1, <5>2, QuietUntried DEF IInv
            <4> QED BY <4>1, <4>2
        <3> QED BY <3>1, <3>3
    <2>3. CASE Crash
        <3>1. TypeOK' /\ Fault /\ UNCHANGED <<kind, place, receives, tried>>
            BY <2>3, CrashKeeps DEF Crash, sqsVars, IInv
        <3> QED BY <3>1, FaultUntried DEF IInv
    <2>4. CASE UNCHANGED vars
        BY <2>4 DEF UntriedInv, Disruptive, Spent, InHand, vars, sqsVars
    <2> QED BY <2>1, <2>2, <2>3, <2>4 DEF Next
<1>3. IInv /\ UntriedInv /\ DeadInv => UntriedDeadNeedsPoison
    <2> SUFFICES ASSUME IInv, UntriedInv, DeadInv,
                        NEW m \in Msg, place[m] = "dead", ~tried[m]
                 PROVE  Disruptive # {}
        BY DEF UntriedDeadNeedsPoison
    <2>1. ~(MaxReceives <= faults)
        <3>1. faults \in 0..MaxFaults
            BY DEF IInv, TypeOK
        <3> QED BY <3>1, LimitAssumption
    <2> QED BY <2>1 DEF UntriedInv, Spent
<1> QED BY <1>1, <1>2, <1>3, Shared, PTL DEF Spec

-----------------------------------------------------------------------------
\* The mail info files of failed injections, and what failures there were.
OrphansInv == IsFiniteSet(OrphanFiles) /\ OrphansAreFew

\* No step of a thread forgets a file without a failure, or more than one with it.
LEMMA WorkOrphans ==
    ASSUME IInv, JobInv, NEW t \in Thread, Work(t)
    PROVE  \/ OrphanFiles' \subseteq OrphanFiles
           \/ OrphanFiles' \subseteq OrphanFiles \cup {cur[t]} /\ Fault
<1>1. IInv' /\ kind' = kind
    <2>1. kind' = kind
        BY DEF Work, Receive, EndOfBatch, Take, TakePoison, Download, DownloadFails,
               WriteMailInfo, Inject, InjectRefused, InjectRaises, InjectNever, Delete, DeleteFails,
               sqsVars
    <2> QED BY <2>1, ReceiveKeeps, TakeKeeps, DownloadKeeps, InjectKeeps, DeleteKeeps DEF Work
<1>2. \A j \in Held : Copies(j)' = 0 => Copies(j) = 0
    <2>1. UNCHANGED copies \/ Accept(cur[t])
        BY DEF Work, Receive, EndOfBatch, Take, TakePoison, Download, DownloadFails,
               WriteMailInfo, Inject, InjectRefused, InjectRaises, InjectNever, Delete, DeleteFails,
               mtaVars
    <2>2. CASE UNCHANGED copies
        BY <2>2 DEF Copies
    <2>3. CASE Accept(cur[t]) /\ cur[t] \in Held
        BY <2>3, AcceptCounts, HeldTyped DEF IInv
    <2>4. UNCHANGED copies \/ cur[t] \in Held
        BY DEF Work, Receive, EndOfBatch, Take, TakePoison, Download, DownloadFails,
               WriteMailInfo, Inject, InjectRefused, InjectRaises, InjectNever, Delete, DeleteFails,
               mtaVars, IInv, HeldInv, Working
    <2> QED BY <2>1, <2>2, <2>3, <2>4
<1>3. \A s \in Thread \ {t} : cur'[s] = cur[s]
    BY DEF Work, Receive, EndOfBatch, Take, TakePoison, Download, DownloadFails, KeepJob,
           Abandon, Continue, WriteMailInfo, Inject, InjectRefused, NotInjected, InjectRaises, InjectNever,
           Delete, DeleteFails, IInv, TypeOK
<1>4. mhFiles' = mhFiles \/ (mhFiles' = mhFiles \cup {cur[t]} /\ cur' = cur)
    BY DEF Work, Receive, EndOfBatch, Take, TakePoison, Download, DownloadFails, KeepJob,
           WriteMailInfo, MailInfoFile, Inject, InjectRefused, InjectRaises, InjectNever, Delete,
           DeleteFails
<1>5. OrphanFiles' \subseteq OrphanFiles \cup {cur[t]}
    <2> SUFFICES ASSUME NEW f \in OrphanFiles', f # cur[t] PROVE f \in OrphanFiles
        OBVIOUS
    <2>1. f \in mhFiles' /\ f \in Held /\ kind[f.msg] # "unsendable"
            /\ Copies(f)' = 0 /\ \A s \in Thread : cur'[s] # f
        BY <1>1, HeldTyped DEF OrphanFiles, Copies, IInv, TypeOK
    <2>2. f \in mhFiles
        BY <1>4, <2>1
    <2>3. \A s \in Thread : cur[s] # f
        BY <1>3, <2>1
    <2>4. Copies(f) = 0
        BY <1>2, <2>1
    <2> QED BY <2>1, <2>2, <2>3, <2>4 DEF OrphanFiles, Copies
<1>6. CASE ~Fault
    <2>1. \/ cur'[t] = cur[t]
          \/ pc[t] \in {"next", "download"}
          \/ pc[t] = "delete"
          \/ pc[t] = "inject" /\ kind[cur[t].msg] = "unsendable"
        BY <1>6 DEF Work, Receive, EndOfBatch, Take, TakePoison, Download, DownloadFails,
                    WriteMailInfo, Inject, InjectRefused, InjectRaises, InjectNever, Delete, DeleteFails
    <2>2. cur[t] \notin OrphanFiles'
        <3>1. CASE cur'[t] = cur[t]
            BY <3>1 DEF OrphanFiles
        <3>2. CASE pc[t] \in {"next", "download"}
            <4>1. cur[t] \notin mhFiles
                BY <3>2, HeldTyped DEF JobInv, IdleInv, CurInv, IInv
            <4> QED BY <1>4, <3>1, <4>1 DEF OrphanFiles
        <3>3. CASE pc[t] = "delete"
            <4>1. Copies(cur[t]) = 1 /\ cur[t] \in Held
                BY <3>3, HeldTyped DEF JobInv, CurInv, IInv, HeldInv, Working
            <4>2. copies'[cur[t].msg][cur[t].receipt] # 0
                <5>1. UNCHANGED copies
                    BY <3>3 DEF Work, Receive, EndOfBatch, Take, TakePoison, Download,
                                DownloadFails, WriteMailInfo, Inject, InjectRefused,
                                InjectRaises, InjectNever, Delete, DeleteFails, mtaVars
                <5> QED BY <4>1, <5>1 DEF Copies
            <4> QED BY <4>2 DEF OrphanFiles
        <3>4. CASE kind[cur[t].msg] = "unsendable"
            BY <1>1, <3>4 DEF OrphanFiles
        <3> QED BY <2>1, <3>1, <3>2, <3>3, <3>4
    <2> QED BY <1>5, <2>2
<1> QED BY <1>5, <1>6

\* The files left behind for ever are bounded by the failures there were, for any
\* number of threads.
THEOREM FewOrphans == Spec => []OrphansAreFew
<1> DEFINE T == Cardinality(Thread)
<1>1. T \in Nat
    BY ThreadAssumption, FS_CardinalityType
<1>2. Init => OrphansInv
    <2> SUFFICES ASSUME Init PROVE OrphansInv
        OBVIOUS
    <2>1. OrphanFiles = {} /\ crashes = 0 /\ faults = 0
        BY DEF Init, OrphanFiles
    <2>2. T * 0 = 0
        BY <1>1
    <2> QED BY <2>1, <2>2, FS_EmptySet DEF OrphansInv, OrphansAreFew
<1>3. IInv /\ JobInv /\ OrphansInv /\ [Next]_vars => OrphansInv'
    <2> SUFFICES ASSUME IInv, JobInv, OrphansInv, [Next]_vars PROVE OrphansInv'
        OBVIOUS
    <2>1. /\ faults \in Nat /\ crashes \in Nat /\ T * crashes \in Nat
          /\ Cardinality(OrphanFiles) \in Nat /\ IsFiniteSet(OrphanFiles)
          /\ Cardinality(OrphanFiles) + crashes <= faults + T * crashes
        BY <1>1, Numbers, FS_CardinalityType DEF IInv, OrphansInv, OrphansAreFew
    <2>2. ASSUME OrphanFiles' \subseteq OrphanFiles, crashes' = crashes,
                 faults' \in {faults, faults + 1}
          PROVE  OrphansInv'
        <3>1. /\ IsFiniteSet(OrphanFiles') /\ Cardinality(OrphanFiles') \in Nat
              /\ Cardinality(OrphanFiles') <= Cardinality(OrphanFiles)
            BY <2>1, <2>2, FS_Subset, FS_CardinalityType
        <3>2. Cardinality(OrphanFiles') + crashes' <= faults' + T * crashes'
            BY <2>1, <2>2, <3>1
        <3> QED BY <3>1, <3>2 DEF OrphansInv, OrphansAreFew
    <2>3. ASSUME NEW t \in Thread, OrphanFiles' \subseteq OrphanFiles \cup {cur[t]}, Fault,
                 crashes' = crashes
          PROVE  OrphansInv'
        <3>1. /\ IsFiniteSet(OrphanFiles \cup {cur[t]})
              /\ Cardinality(OrphanFiles \cup {cur[t]}) <= Cardinality(OrphanFiles) + 1
            <4>1. /\ IsFiniteSet(OrphanFiles \cup {cur[t]})
                  /\ \/ Cardinality(OrphanFiles \cup {cur[t]}) = Cardinality(OrphanFiles)
                     \/ Cardinality(OrphanFiles \cup {cur[t]}) = Cardinality(OrphanFiles) + 1
                BY <2>1, FS_AddElement, Zenon
            <4> QED BY <2>1, <4>1
        <3>2. /\ IsFiniteSet(OrphanFiles') /\ Cardinality(OrphanFiles') \in Nat
              /\ Cardinality(OrphanFiles \cup {cur[t]}) \in Nat
              /\ Cardinality(OrphanFiles') <= Cardinality(OrphanFiles \cup {cur[t]})
            BY <2>3, <3>1, FS_Subset, FS_CardinalityType
        <3>3. Cardinality(OrphanFiles') + crashes' <= faults' + T * crashes'
            BY <2>1, <2>3, <3>1, <3>2 DEF Fault
        <3> QED BY <3>2, <3>3 DEF OrphansInv, OrphansAreFew
    <2>4. ASSUME NEW t \in Thread, Work(t) PROVE OrphansInv'
        <3>1. crashes' = crashes /\ (Fault \/ faults' = faults)
            BY <2>4 DEF Work, Receive, EndOfBatch, Take, TakePoison, Download, DownloadFails,
                        WriteMailInfo, Inject, InjectRefused, InjectRaises, InjectNever, Delete,
                        DeleteFails
        <3> QED BY <2>2, <2>3, <2>4, <3>1, WorkOrphans DEF Fault
    <2>5. ASSUME (\E m \in Msg : Timer(m)) \/ UNCHANGED vars PROVE OrphansInv'
        <3>1. /\ UNCHANGED <<kind, copies, mhFiles, cur, crashes>>
              /\ faults' \in {faults, faults + 1}
            BY <2>5 DEF Timer, VisibilityTimeout, Redrive, Fault, vars, sqsVars, mtaVars
        <3>2. OrphanFiles' = OrphanFiles
            BY <3>1 DEF OrphanFiles
        <3> QED BY <2>2, <3>1, <3>2
    <2>6. CASE Crash
        <3> DEFINE R == {cur[s] : s \in Thread}
        <3>1. IsFiniteSet(R) /\ Cardinality(R) <= T
            <4>1. cur \in Surjection(Thread, R)
                BY DEF IInv, TypeOK, Surjection
            <4> QED BY <4>1, ThreadAssumption, FS_Surjection
        <3>2. OrphanFiles' \subseteq OrphanFiles \cup R
            BY <2>6 DEF Crash, OrphanFiles, sqsVars, mtaVars
        <3>3. /\ IsFiniteSet(OrphanFiles \cup R)
              /\ Cardinality(OrphanFiles \cup R) <= Cardinality(OrphanFiles) + T
            <4>1. Cardinality(OrphanFiles \cap R) \in Nat
                BY <3>1, FS_Intersection, FS_CardinalityType
            <4>2. Cardinality(R) \in Nat
                BY <3>1, FS_CardinalityType
            <4>3. /\ IsFiniteSet(OrphanFiles \cup R)
                  /\ Cardinality(OrphanFiles \cup R) =
                        Cardinality(OrphanFiles) + Cardinality(R)
                            - Cardinality(OrphanFiles \cap R)
                BY <2>1, <3>1, FS_Union, Zenon
            <4> HIDE DEF R
            <4> QED BY <1>1, <2>1, <3>1, <4>1, <4>2, <4>3
        <3>4. /\ IsFiniteSet(OrphanFiles') /\ Cardinality(OrphanFiles') \in Nat
              /\ Cardinality(OrphanFiles \cup R) \in Nat
              /\ Cardinality(OrphanFiles') <= Cardinality(OrphanFiles \cup R)
            BY <3>2, <3>3, FS_Subset, FS_CardinalityType
        <3>5. crashes' = crashes + 1 /\ faults' = faults + 1
            BY <2>6 DEF Crash, Fault
        <3>6. T * (crashes + 1) = T * crashes + T
            BY <1>1, <2>1
        <3>7. Cardinality(OrphanFiles') + crashes' <= faults' + T * crashes'
            BY <1>1, <2>1, <3>3, <3>4, <3>5, <3>6
        <3> QED BY <3>4, <3>7 DEF OrphansInv, OrphansAreFew
    <2> QED BY <2>4, <2>5, <2>6 DEF Next
<1>4. OrphansInv => OrphansAreFew
    BY DEF OrphansInv
<1> QED BY <1>2, <1>3, <1>4, Shared, PTL DEF Spec
-----------------------------------------------------------------------------
(***************************************************************************)
(* The work left.  The prover cannot conclude that every job is settled,   *)
(* which needs fairness, but it can show that a thread comes back to       *)
(* receive_sqs_messages after each batch, whatever the jobs make it raise. *)
(***************************************************************************)
Weight(label) ==
    CASE label = "download" -> 5
      [] label = "inject" -> 3
      [] label = "delete" -> 2
      [] label = "next" -> 1
      [] label = "receive" -> 0
      [] OTHER -> 4               \* "mail info"

\* A received job costs six steps at most.
Left(t) == 6 * Cardinality(batch[t]) + Weight(pc[t])

\* Each step of a thread with a batch takes some of the work away; no timer, no other
\* thread and no crash adds to it.
LeftShrinks ==
    [][\A t \in Thread :
        /\ Work(t) /\ ~Receive(t) => Left(t)' < Left(t)
        /\ ~Work(t) => Left(t)' <= Left(t)]_vars

\* The work left is a number, and no more than what the largest batch takes.
LeftIsBounded == \A t \in Thread : Left(t) \in 0..(6 * MaxNumberOfMessages + 1)

\* Every batch is a finite set, with a bounded amount of work.
RoundInv ==
    \A t \in Thread : /\ IsFiniteSet(batch[t]) /\ Cardinality(batch[t]) \in Nat
                      /\ Left(t) \in 0..(6 * MaxNumberOfMessages + 1)

LEMMA Weights ==
    ASSUME NEW label
    PROVE  /\ label = "download" => Weight(label) = 5
           /\ label = "mail info" => Weight(label) = 4
           /\ label = "inject" => Weight(label) = 3
           /\ label = "delete" => Weight(label) = 2
           /\ label = "next" => Weight(label) = 1
           /\ label = "receive" => Weight(label) = 0
           /\ Weight(label) \in 0..5
<1>1. Weight(label) \in {0, 1, 2, 3, 4, 5}
    BY DEF Weight
<1>2. label = "download" => Weight(label) = 5
    BY DEF Weight
<1>3. label = "mail info" => Weight(label) = 4
    <2>1. \A v : /\ v # "download" /\ v # "inject" /\ v # "delete" /\ v # "next"
               /\ v # "receive"
               => Weight(v) = 4
        BY DEF Weight
    <2> QED BY <2>1, Zenon
<1>4. label = "inject" => Weight(label) = 3
    BY DEF Weight
<1>5. label = "delete" => Weight(label) = 2
    BY DEF Weight
<1>6. label = "next" => Weight(label) = 1
    BY DEF Weight
<1>7. label = "receive" => Weight(label) = 0
    BY DEF Weight
<1>8. Weight(label) \in 0..5
    BY <1>1
<1> QED BY <1>2, <1>3, <1>4, <1>5, <1>6, <1>7, <1>8, Zenon

LEMMA WorkMoves ==
    ASSUME TypeOK, NEW t \in Thread, Work(t), ~Receive(t)
    PROVE  /\ pc[t] # "receive"
           /\ \/ pc'[t] = "receive" /\ (batch'[t] = {} \/ batch'[t] = batch[t])
              \/ /\ pc[t] = "next" /\ pc'[t] = "download"
                 /\ \E job \in batch[t] : batch'[t] = batch[t] \ {job}
              \/ /\ batch'[t] = batch[t]
                 /\ \/ pc[t] = "download" /\ pc'[t] \in {"mail info", "next"}
                    \/ pc[t] = "mail info" /\ pc'[t] = "inject"
                    \/ pc[t] = "inject" /\ pc'[t] \in {"delete", "next"}
                    \/ pc[t] = "delete" /\ pc'[t] = "next"
<1> USE DEF TypeOK, Goto, Abandon, Continue
<1>1. CASE EndOfBatch(t) \/ TakePoison(t)
    BY <1>1 DEF EndOfBatch, TakePoison
<1>2. CASE Take(t)
    <2>1. PICK job \in batch[t] : batch' = [batch EXCEPT ![t] = @ \ {job}]
        BY <1>2 DEF Take
    <2>2. pc[t] = "next" /\ pc' = [pc EXCEPT ![t] = "download"]
        BY <1>2 DEF Take
    <2> QED BY <2>1, <2>2
<1>3. CASE Download(t) \/ DownloadFails(t)
    BY <1>3 DEF Download, DownloadFails, KeepJob
<1>4. CASE WriteMailInfo(t) \/ Inject(t)
    BY <1>4 DEF WriteMailInfo, Inject
<1>5. CASE InjectRefused(t) \/ InjectRaises(t) \/ InjectNever(t)
    BY <1>5 DEF InjectRefused, InjectRaises, InjectNever, NotInjected
<1>6. CASE Delete(t) \/ DeleteFails(t)
    BY <1>6 DEF Delete, DeleteFails
<1> QED BY <1>1, <1>2, <1>3, <1>4, <1>5, <1>6 DEF Work

LEMMA WorkWorks ==
    ASSUME TypeOK, RoundInv, NEW t \in Thread, Work(t), ~Receive(t)
    PROVE  /\ IsFiniteSet(batch'[t]) /\ Cardinality(batch'[t]) \in Nat
           /\ Left(t)' \in Nat /\ Left(t)' < Left(t)
<1>1. PICK b \in Nat : b = Cardinality(batch[t]) /\ IsFiniteSet(batch[t])
    BY DEF RoundInv
<1>2. PICK u, w : u = pc[t] /\ w = pc'[t]
    OBVIOUS
<1>3. Left(t) = 6 * b + Weight(u) /\ Left(t)' = 6 * Cardinality(batch'[t]) + Weight(w)
    BY <1>1, <1>2 DEF Left
<1>4. Weight(u) \in 0..5 /\ Weight(w) \in 0..5
    BY Weights
<1>5. CASE pc'[t] = "receive" /\ (batch'[t] = {} \/ batch'[t] = batch[t])
    <2>1. Weight(w) = 0
        BY <1>2, <1>5, Weights
    <2>2. Weight(u) > 0
        <3>1. u \in {"next", "download", "mail info", "inject", "delete"}
            BY <1>2, WorkMoves DEF TypeOK
        <3>2. \/ Weight(u) = 1 \/ Weight(u) = 5 \/ Weight(u) = 4
              \/ Weight(u) = 3 \/ Weight(u) = 2
            BY <3>1, Weights, Zenon
        <3> QED BY <3>2
    <2>3. IsFiniteSet(batch'[t]) /\ (Cardinality(batch'[t]) = 0 \/ Cardinality(batch'[t]) = b)
        BY <1>1, <1>5, FS_EmptySet
    <2>4. Left(t)' = 0 \/ Left(t)' = 6 * b
        BY <1>1, <1>3, <2>1, <2>3
    <2>5. Left(t) = 6 * b + Weight(u)
        BY <1>3
    <2>6. Cardinality(batch'[t]) \in Nat
        BY <1>1, <2>3
    <2> QED BY <1>4, <2>2, <2>3, <2>4, <2>5, <2>6
<1>6. CASE /\ pc[t] = "next" /\ pc'[t] = "download"
           /\ \E job \in batch[t] : batch'[t] = batch[t] \ {job}
    <2>1. PICK job \in batch[t] : batch'[t] = batch[t] \ {job}
        BY <1>6
    <2>2. IsFiniteSet(batch[t] \ {job}) /\ Cardinality(batch[t] \ {job}) = Cardinality(batch[t]) - 1
        BY <1>1, <2>1, FS_RemoveElement
    <2>3. b # 0
        BY <1>1, <2>1, FS_EmptySet
    <2>4. Weight(u) = 1 /\ Weight(w) = 5
        BY <1>2, <1>6, Weights
    <2>5. Cardinality(batch'[t]) = b - 1 /\ IsFiniteSet(batch'[t])
        BY <1>1, <2>1, <2>2
    <2> QED BY <1>3, <2>3, <2>4, <2>5
<1>7. CASE /\ batch'[t] = batch[t]
           /\ \/ pc[t] = "download" /\ pc'[t] \in {"mail info", "next"}
              \/ pc[t] = "mail info" /\ pc'[t] = "inject"
              \/ pc[t] = "inject" /\ pc'[t] \in {"delete", "next"}
              \/ pc[t] = "delete" /\ pc'[t] = "next"
    <2>1. Weight(w) < Weight(u)
        <3>1. \/ u = "download" /\ (w = "mail info" \/ w = "next")
              \/ u = "mail info" /\ w = "inject"
              \/ u = "inject" /\ (w = "delete" \/ w = "next")
              \/ u = "delete" /\ w = "next"
            BY <1>2, <1>7
        <3>2. \/ Weight(u) = 5 /\ (Weight(w) = 4 \/ Weight(w) = 1)
              \/ Weight(u) = 4 /\ Weight(w) = 3
              \/ Weight(u) = 3 /\ (Weight(w) = 2 \/ Weight(w) = 1)
              \/ Weight(u) = 2 /\ Weight(w) = 1
            BY <3>1, Weights, Zenon
        <3> QED BY <3>2
    <2>2. batch'[t] = batch[t]
        BY <1>7, Zenon
    <2>3. Left(t)' = 6 * b + Weight(w)
        BY <1>1, <1>3, <2>2
    <2> QED BY <1>1, <1>3, <1>4, <2>1, <2>2, <2>3
<1> QED BY <1>5, <1>6, <1>7, WorkMoves

\* A batch holds no more jobs than were asked for.
LEMMA ReceiveWorks ==
    ASSUME IsFiniteSet(Msg), TypeOK, NEW t \in Thread, Receive(t)
    PROVE  /\ IsFiniteSet(batch'[t]) /\ Cardinality(batch'[t]) \in Nat
           /\ Left(t)' \in 0..(6 * MaxNumberOfMessages + 1)
<1>1. PICK M \in SUBSET Receivable :
        /\ Cardinality(M) <= MaxNumberOfMessages
        /\ batch' = [batch EXCEPT ![t] =
                       {[msg |-> m, receipt |-> receives[m] + 1] : m \in M}]
        /\ pc' = [pc EXCEPT ![t] = "next"]
    BY DEF Receive, Goto
<1>2. PICK S : S = {[msg |-> m, receipt |-> receives[m] + 1] : m \in M}
    OBVIOUS
<1>3. batch'[t] = S /\ pc'[t] = "next"
    BY <1>1, <1>2 DEF TypeOK
<1>4. M \subseteq Msg
    BY DEF Receivable
<1>5. IsFiniteSet(M) /\ Cardinality(M) \in Nat
    BY <1>4, FS_Subset, FS_CardinalityType
<1>6. PICK f : f = [m \in M |-> [msg |-> m, receipt |-> receives[m] + 1]]
    OBVIOUS
<1>7. f \in Surjection(M, S)
    <2>1. f \in [M -> S]
        BY <1>2, <1>6
    <2>2. ASSUME NEW x \in S PROVE \E m \in M : f[m] = x
        BY <1>2, <1>6
    <2> QED BY <2>1, <2>2 DEF Surjection
<1>8. IsFiniteSet(S) /\ Cardinality(S) <= Cardinality(M) /\ Cardinality(S) \in Nat
    <2>1. IsFiniteSet(S) /\ Cardinality(S) <= Cardinality(M)
        BY <1>5, <1>7, FS_Surjection
    <2> QED BY <2>1, FS_CardinalityType
<1>9. Weight("next") = 1
    BY Weights
<1>10. Left(t)' = 6 * Cardinality(S) + 1
    BY <1>3, <1>9 DEF Left
<1>11. Cardinality(S) <= MaxNumberOfMessages /\ MaxNumberOfMessages \in Nat
    BY <1>1, <1>5, <1>8, LimitAssumption
<1>12. Left(t)' \in 0..(6 * MaxNumberOfMessages + 1)
    BY <1>8, <1>10, <1>11
<1> QED BY <1>3, <1>8, <1>12

\* Who does not work keeps its batch, or loses it to a crash.
LEMMA OthersRest ==
    ASSUME TypeOK, Next, NEW t \in Thread, ~Work(t)
    PROVE  \/ batch'[t] = batch[t] /\ pc'[t] = pc[t]
           \/ batch'[t] = {} /\ pc'[t] = "receive"
<1> USE DEF TypeOK, Goto, Abandon, Continue
<1>1. ASSUME NEW s \in Thread, Work(s) PROVE batch'[t] = batch[t] /\ pc'[t] = pc[t]
    <2> s # t
        BY <1>1
    <2>1. CASE Receive(s) \/ EndOfBatch(s) \/ Take(s) \/ TakePoison(s)
        BY <2>1 DEF Receive, EndOfBatch, Take, TakePoison
    <2>2. CASE Download(s) \/ DownloadFails(s) \/ WriteMailInfo(s)
        BY <2>2 DEF Download, DownloadFails, KeepJob, WriteMailInfo
    <2>3. CASE Inject(s) \/ InjectRefused(s) \/ InjectRaises(s) \/ InjectNever(s)
        BY <2>3 DEF Inject, InjectRefused, InjectRaises, InjectNever, NotInjected
    <2>4. CASE Delete(s) \/ DeleteFails(s)
        BY <2>4 DEF Delete, DeleteFails
    <2> QED BY <1>1, <2>1, <2>2, <2>3, <2>4 DEF Work
<1>2. ASSUME NEW m \in Msg, Timer(m) PROVE batch' = batch /\ pc' = pc
    BY <1>2 DEF Timer, VisibilityTimeout, Redrive
<1>3. CASE Crash
    BY <1>3 DEF Crash
<1>4. CASE UNCHANGED vars
    BY <1>4 DEF vars
<1> QED BY <1>1, <1>2, <1>3, <1>4 DEF Next

LEMMA RestWorks ==
    ASSUME RoundInv, NEW t \in Thread,
           \/ batch'[t] = batch[t] /\ pc'[t] = pc[t]
           \/ batch'[t] = {} /\ pc'[t] = "receive"
    PROVE  /\ IsFiniteSet(batch'[t]) /\ Cardinality(batch'[t]) \in Nat
           /\ Left(t)' \in Nat /\ Left(t)' <= Left(t)
<1>1. Left(t) \in Nat /\ IsFiniteSet(batch[t]) /\ Cardinality(batch[t]) \in Nat
    BY LimitAssumption DEF RoundInv
<1>2. CASE batch'[t] = batch[t] /\ pc'[t] = pc[t]
    <2>1. Left(t)' = Left(t)
        BY <1>2 DEF Left
    <2> QED BY <1>1, <1>2, <2>1
<1>3. CASE batch'[t] = {} /\ pc'[t] = "receive"
    <2>1. Weight(pc'[t]) = 0
        BY <1>3, Weights
    <2>2. IsFiniteSet(batch'[t]) /\ Cardinality(batch'[t]) = 0
        BY <1>3, FS_EmptySet
    <2>3. Left(t)' = 6 * 0 + 0
        BY <2>1, <2>2 DEF Left
    <2> QED BY <1>1, <2>2, <2>3
<1> QED BY <1>2, <1>3

\* A thread asks SQS for more after at most six steps for each job it received and one
\* more: a poisonous job, a lost connection or a late answer never keeps it.
THEOREM BatchesRunDown ==
    ASSUME IsFiniteSet(Msg)
    PROVE  Spec => []LeftIsBounded /\ LeftShrinks
<1>1. Init => RoundInv
    <2> SUFFICES ASSUME Init, NEW t \in Thread
                 PROVE  /\ IsFiniteSet(batch[t]) /\ Cardinality(batch[t]) \in Nat
                        /\ Left(t) \in 0..(6 * MaxNumberOfMessages + 1)
        BY DEF RoundInv
    <2>1. batch[t] = {} /\ pc[t] = "receive"
        BY DEF Init
    <2>2. IsFiniteSet(batch[t]) /\ Cardinality(batch[t]) = 0 /\ Weight(pc[t]) = 0
        BY <2>1, FS_EmptySet, Weights
    <2>3. Left(t) = 6 * 0 + 0
        BY <2>2 DEF Left
    <2> QED BY <2>2, <2>3, LimitAssumption
<1>2. IInv /\ RoundInv /\ [Next]_vars => RoundInv'
    <2> SUFFICES ASSUME IInv, RoundInv, [Next]_vars, NEW t \in Thread
                 PROVE  /\ IsFiniteSet(batch'[t]) /\ Cardinality(batch'[t]) \in Nat
                        /\ Left(t)' \in 0..(6 * MaxNumberOfMessages + 1)
        BY DEF RoundInv
    <2>1. TypeOK /\ Left(t) \in 0..(6 * MaxNumberOfMessages + 1)
        BY DEF IInv, RoundInv
    <2>2. CASE Receive(t)
        BY <2>1, <2>2, ReceiveWorks
    <2>3. CASE Work(t) /\ ~Receive(t)
        <3>1. /\ IsFiniteSet(batch'[t]) /\ Cardinality(batch'[t]) \in Nat
              /\ Left(t)' \in Nat /\ Left(t)' < Left(t)
            BY <2>1, <2>3, WorkWorks
        <3> QED BY <2>1, <3>1, LimitAssumption
    <2>4. CASE ~Work(t)
        <3>1. \/ batch'[t] = batch[t] /\ pc'[t] = pc[t]
              \/ batch'[t] = {} /\ pc'[t] = "receive"
            BY <2>1, <2>4, OthersRest DEF vars
        <3>2. /\ IsFiniteSet(batch'[t]) /\ Cardinality(batch'[t]) \in Nat
              /\ Left(t)' \in Nat /\ Left(t)' <= Left(t)
            BY <3>1, RestWorks
        <3> QED BY <2>1, <3>2, LimitAssumption
    <2> QED BY <2>2, <2>3, <2>4
<1>3. IInv /\ RoundInv /\ Next =>
        \A t \in Thread : /\ Work(t) /\ ~Receive(t) => Left(t)' < Left(t)
                          /\ ~Work(t) => Left(t)' <= Left(t)
    <2> SUFFICES ASSUME IInv, RoundInv, Next, NEW t \in Thread
                 PROVE  /\ Work(t) /\ ~Receive(t) => Left(t)' < Left(t)
                        /\ ~Work(t) => Left(t)' <= Left(t)
        OBVIOUS
    <2> QED BY WorkWorks, OthersRest, RestWorks DEF IInv
<1>4. RoundInv => LeftIsBounded
    BY DEF RoundInv, LeftIsBounded
<1> QED BY <1>1, <1>2, <1>3, <1>4, Inductive, PTL DEF Spec, LeftShrinks
=============================================================================
