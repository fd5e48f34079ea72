----------------------- MODULE InstanceTerminatorProofs -----------------------
(***************************************************************************)
(* Theorems about InstanceTerminator, for every finite set of mail, every  *)
(* number of heartbeats and every range of exit statuses.                  *)
(***************************************************************************)
EXTENDS InstanceTerminator, FiniteSetTheorems, TLAPS

\* The directories that the script walks are the directories of the queue.
LEMMA SubdirsAreQueues ==
    /\ Len(Subdirs) = 4
    /\ Subdirs[1] = "maildrop" /\ Subdirs[2] = "incoming"
    /\ Subdirs[3] = "active" /\ Subdirs[4] = "deferred"
BY DEF Subdirs

\* What is seen of a directory is a number of mails, and no mail only if none was seen.
LEMMA SeenIsCounted ==
    ASSUME NEW q, NEW seen \in SUBSET In(q)
    PROVE  Cardinality(seen) \in Nat /\ (Cardinality(seen) = 0 => seen = {})
<1>1. IsFiniteSet(seen)
    BY MailAssumption, FS_Subset DEF In
<1> QED BY <1>1, FS_EmptySet, FS_CardinalityType

-----------------------------------------------------------------------------
\* A walk begins with the first directory and a count of zero, and the script is
\* among the directories while it walks.
WalkInv ==
    /\ pc \in {"branch", "start", "drain", "stop"} => dir = 1
    /\ pc = "walk" => dir <= Len(Subdirs)

TypeInv == TypeOK /\ WalkInv

LEMMA TypeInit == Init => TypeInv
BY SubdirsAreQueues, ModulusAssumption, BoundAssumption
    DEF Init, TypeInv, TypeOK, WalkInv, Queues, PostfixInstances

LEMMA SeesKeeps == ASSUME TypeOK, NEW seen, Sees(seen) PROVE faults' \in 0..MaxFaults
BY BoundAssumption DEF TypeOK, Sees, Fault

LEMMA FaultKeeps == TypeOK /\ Fault => faults' \in 0..MaxFaults
<1>1. TypeOK => faults \in 0..MaxFaults
    BY DEF TypeOK
<1> QED BY <1>1, BoundAssumption DEF Fault

LEMMA MailTypes ==
    ASSUME TypeInv, \E m \in Mail : Arrive(m) \/ Manage(m) \/ \E b \in Mail : Bounce(m, b)
    PROVE  TypeInv'
<1>1. /\ loc' \in [Mail -> Queues \cup {"outside", "delivered", "returned", "purged"}]
      /\ eluded' \subseteq Mail
    BY DEF TypeInv, TypeOK, Arrive, Manage, Move, Bounce, Queues
<1>2. UNCHANGED <<hostVars, pc, countVars, beats, status, faults>>
    BY DEF Arrive, Manage, Move, Bounce
<1> QED BY <1>1, <1>2 DEF TypeInv, TypeOK, WalkInv, hostVars, countVars, given

LEMMA TerminatorTypes ==
    ASSUME TypeInv, Terminator
    PROVE  TypeInv'
<1> USE SubdirsAreQueues DEF TypeInv, TypeOK, WalkInv, Script, mailVars, hostVars, countVars, given
<1>1. CASE Start
    BY <1>1 DEF Start, StopSqsConsumer
<1>2. ASSUME NEW label \in {"count", "recount"}, CountDir(label) PROVE TypeInv'
    <2>1. PICK seen \in SUBSET In(Subdirs[dir]) :
               /\ Sees(seen) /\ count' = count + Cardinality(seen)
               /\ eluded' = eluded \cup (In(Subdirs[dir]) \ seen)
        BY <1>2 DEF CountDir
    <2>2. count' \in Nat /\ eluded' \subseteq Mail
        <3>1. Cardinality(seen) \in Nat
            BY SeenIsCounted
        <3> QED BY <2>1, <3>1 DEF In
    <2>3. faults' \in 0..MaxFaults
        BY <2>1, SeesKeeps
    <2> QED BY <1>2, <2>2, <2>3 DEF CountDir
<1>3. CASE Drained \/ StillQueued \/ Counted("recount", "stop")
    BY <1>3 DEF Drained, StillQueued, Counted
<1>4. CASE Heartbeat
    BY <1>4, BoundAssumption DEF Heartbeat, NextBeat, HeartbeatsLeft
<1>5. CASE HeartbeatFails
    BY <1>5, FaultKeeps, BoundAssumption DEF HeartbeatFails, NextBeat, HeartbeatsLeft
<1>6. CASE BeginBackup
    BY <1>6 DEF BeginBackup
<1>7. CASE CopyDir
    <2>1. copied' \subseteq Mail
        BY <1>7 DEF CopyDir, In
    <2>2. PICK seen \in SUBSET In(Subdirs[dir]) : Sees(seen) /\ efs' = efs + Cardinality(seen)
        BY <1>7 DEF CopyDir
    <2>3. efs' \in Nat /\ faults' \in 0..MaxFaults
        BY <2>2, SeenIsCounted, SeesKeeps
    <2> QED BY <1>7, <2>1, <2>3 DEF CopyDir
<1>8. CASE WalkDir
    <2>1. PICK seen \in SUBSET In(Subdirs[dir]) : Sees(seen) /\ live' = live + Cardinality(seen)
        BY <1>8 DEF WalkDir
    <2>2. live' \in Nat /\ faults' \in 0..MaxFaults
        BY <2>1, SeenIsCounted, SeesKeeps
    <2> QED BY <1>8, <2>2 DEF WalkDir
<1>9. CASE Purge
    <2>1. loc' \in [Mail -> Queues \cup {"outside", "delivered", "returned", "purged"}]
        BY <1>9 DEF Purge
    <2> QED BY <1>9, <2>1 DEF Purge, AllWalked
<1>10. CASE Mismatch
    BY <1>10 DEF Mismatch, AllWalked
<1>11. ASSUME NEW label, Dies(label) PROVE TypeInv'
    BY <1>11, FaultKeeps, ModulusAssumption DEF Dies
<1>12. CASE StopPostfix
    BY <1>12, FaultKeeps DEF StopPostfix
<1>13. CASE Exit
    <2>1. last % Modulus \in 0..(Modulus - 1)
        BY ModulusAssumption
    <2> QED BY <1>13, <2>1 DEF Exit, ExitStatus
<1> QED BY <1>1, <1>2, <1>3, <1>4, <1>5, <1>6, <1>7, <1>8, <1>9, <1>10, <1>11, <1>12, <1>13
        DEF Terminator

LEMMA OthersTypes ==
    ASSUME TypeInv, Automation \/ HookTimesOut \/ UNCHANGED vars
    PROVE  TypeInv'
<1> USE DEF TypeInv, TypeOK, WalkInv, mailVars, hostVars, countVars, given
<1>1. CASE Automation
    BY <1>1, FaultKeeps DEF Automation, Branch, CompleteLifecycleAction, DeleteVolume
<1>2. CASE HookTimesOut
    BY <1>2, FaultKeeps, ModulusAssumption DEF HookTimesOut
<1>3. CASE UNCHANGED vars
    BY <1>3 DEF vars
<1> QED BY <1>1, <1>2, <1>3

LEMMA TypeStep == TypeInv /\ [Next]_vars => TypeInv'
BY MailTypes, TerminatorTypes, OthersTypes DEF Next

-----------------------------------------------------------------------------
\* Mail that has not eluded is in the walk: a count that is zero so far has passed no
\* directory that holds some, and what has been passed of the backup is on EFS.
Walked(j) == IF pc = "walk" THEN j <= dir ELSE j < dir

Located ==
    /\ pc \in {"branch", "start", "count", "drain", "copy", "walk"} => In("purged") = {}
    /\ pc \in {"count", "recount"} /\ count = 0 /\ instance = "mta" =>
        \A j \in 1..4 : Walked(j) => In(Subdirs[j]) \subseteq eluded
    /\ pc \in {"copy", "walk"} =>
        \A j \in 1..4 : Walked(j) => In(Subdirs[j]) \ copied \subseteq eluded
    /\ In("purged") \ copied \subseteq eluded

\* What the exit status says: zero that nothing was counted, unless the count wraps.
Verdict ==
    /\ pc \in {"drain", "copy", "walk"} => last # 0
    /\ pc \in {"stop", "exit"} /\ last = 0 /\ instance = "mta" => Queued \subseteq eluded
    /\ pc \in {"exited", "empty"} /\ status = 0 =>
        last % Modulus = 0 /\ (last = 0 /\ instance = "mta" => Queued \subseteq eluded)
    /\ pc = "empty" => status = 0
    /\ volume = "deleted" /\ ~disposable =>
        /\ pc = "done"
        /\ last % Modulus = 0 /\ (last = 0 /\ instance = "mta" => Queued \subseteq eluded)
    /\ disposable => pc \in {"branch", "done"}

IInv == TypeInv /\ Located /\ Verdict

LEMMA IInvInit == Init => IInv
<1> SUFFICES ASSUME Init PROVE IInv
    OBVIOUS
<1>1. TypeInv
    BY TypeInit
<1>2. Located
    BY DEF Init, Located, In, Queues
<1>3. Verdict
    BY DEF Init, Verdict
<1> QED BY <1>1, <1>2, <1>3 DEF IInv

\* Mail comes into a directory only by moving.
LEMMA MailStep ==
    ASSUME IInv, \E m \in Mail : Arrive(m) \/ Manage(m) \/ \E b \in Mail : Bounce(m, b)
    PROVE  Located' /\ Verdict'
<1>1. /\ UNCHANGED <<hostVars, pc, countVars, beats, status, faults>>
      /\ eluded \subseteq eluded'
      /\ \A m \in Mail : loc'[m] # loc[m] => m \in eluded' /\ loc'[m] # "purged"
    BY DEF Arrive, Manage, Move, Bounce, IInv, TypeInv, TypeOK
<1>2. \A q : In(q)' \subseteq In(q) \cup eluded'
    BY <1>1 DEF In
<1>3. In("purged")' \subseteq In("purged") /\ Queued' \subseteq Queued \cup eluded'
    BY <1>1 DEF In, Queued
<1>4. Located'
    BY <1>1, <1>2, <1>3 DEF IInv, Located, Walked, hostVars, countVars, given
<1>5. Verdict'
    BY <1>1, <1>3 DEF IInv, Verdict, hostVars, countVars, given
<1> QED BY <1>4, <1>5

\* The script looks into the directories while the mail stays where it is.
LEMMA ScriptStep ==
    ASSUME IInv, Terminator
    PROVE  Located' /\ Verdict'
<1> USE SubdirsAreQueues DEF IInv, Script, mailVars, hostVars, countVars
<1>0. UNCHANGED <<instance, disposable>> /\ ~disposable
    <2>1. UNCHANGED given /\ pc \notin {"branch", "done"}
        BY DEF Terminator, Start, CountDir, Drained, StillQueued, Counted, Heartbeat,
               HeartbeatFails, BeginBackup, CopyDir, WalkDir, Purge, Mismatch, Dies, StopPostfix, Exit
    <2> QED BY <2>1 DEF given, Verdict
<1> USE <1>0
<1>1. /\ pc \in {"branch", "start", "count", "drain", "copy", "walk", "recount", "stop", "exit",
                 "exited", "empty", "done"}
      /\ dir \in 1..5 /\ count \in Nat /\ last \in Nat /\ eluded \subseteq Mail
      /\ loc \in [Mail -> Queues \cup {"outside", "delivered", "returned", "purged"}]
      /\ volume \in {"kept", "deleted"}
    BY DEF TypeInv, TypeOK
<1>2. CASE Start
    <2>1. /\ pc = "start" /\ pc' = "count" /\ eluded' = {}
          /\ UNCHANGED <<loc, copied, dir, count, last, volume, status>>
        BY <1>2 DEF Start
    <2>2. dir = 1
        BY <2>1 DEF TypeInv, WalkInv
    <2> QED BY <2>1, <2>2 DEF Located, Verdict, Walked, In, Queued
<1>3. ASSUME NEW label \in {"count", "recount"}, CountDir(label) PROVE Located' /\ Verdict'
    <2>1. /\ pc = label /\ pc' = label /\ dir <= 4 /\ dir' = dir + 1
          /\ UNCHANGED <<loc, copied, last, volume, status>>
        BY <1>3 DEF CountDir
    <2>2. PICK seen \in SUBSET In(Subdirs[dir]) :
               /\ count' = count + Cardinality(seen)
               /\ eluded' = eluded \cup (In(Subdirs[dir]) \ seen)
        BY <1>3 DEF CountDir
    <2>3. \A q : In(q)' = In(q)
        BY <2>1 DEF In
    <2>4. count' = 0 => count = 0 /\ In(Subdirs[dir]) \subseteq eluded'
        <3>1. Cardinality(seen) \in Nat /\ (Cardinality(seen) = 0 => seen = {})
            BY SeenIsCounted
        <3>2. count' = 0 => count = 0 /\ Cardinality(seen) = 0
            BY <1>1, <2>2, <3>1
        <3> QED BY <2>2, <3>1, <3>2
    <2>5. count' = 0 /\ instance = "mta" => \A j \in 1..4 : j < dir' => In(Subdirs[j]) \subseteq eluded'
        <3> SUFFICES ASSUME count' = 0, instance = "mta", NEW j \in 1..4, j < dir'
                     PROVE  In(Subdirs[j]) \subseteq eluded'
            OBVIOUS
        <3>1. j < dir \/ j = dir
            BY <1>1, <2>1
        <3> QED BY <2>1, <2>2, <2>4, <3>1 DEF Located, Walked
    <2>6. eluded \subseteq eluded'
        BY <2>2
    <2> QED BY <2>1, <2>3, <2>5, <2>6 DEF Located, Verdict, Walked, Queued
<1>4. CASE Counted("recount", "stop") \/ Drained \/ StillQueued
    <2>1. /\ pc \in {"count", "recount"} /\ pc' \in {"stop", "drain"} /\ dir > 4 /\ last' = count
          /\ pc' = "drain" => pc = "count" /\ count # 0
          /\ UNCHANGED <<loc, eluded, copied, volume, status>>
        BY <1>4 DEF Counted, Drained, StillQueued
    <2>2. count = 0 /\ instance = "mta" => Queued \subseteq eluded
        <3>1. count = 0 /\ instance = "mta" => \A j \in 1..4 : In(Subdirs[j]) \subseteq eluded
            BY <1>1, <2>1 DEF Located, Walked
        <3> QED BY <3>1 DEF Queued, Queues, In
    <2> QED BY <2>1, <2>2 DEF Located, Verdict, In, Queued
<1>5. CASE Heartbeat
    <2>1. /\ pc = "drain" /\ pc' = "count" /\ eluded' = {}
          /\ UNCHANGED <<loc, copied, dir, count, last, volume, status>>
        BY <1>5 DEF Heartbeat
    <2>2. dir = 1
        BY <2>1 DEF TypeInv, WalkInv
    <2> QED BY <2>1, <2>2 DEF Located, Verdict, Walked, In, Queued
<1>6. CASE HeartbeatFails
    <2>1. /\ pc = "drain" /\ pc' = "drain"
          /\ UNCHANGED <<loc, eluded, copied, dir, count, last, volume, status>>
        BY <1>6 DEF HeartbeatFails
    <2> QED BY <2>1 DEF Located, Verdict, Walked, In, Queued
<1>7. CASE BeginBackup
    <2>1. /\ pc = "drain" /\ pc' = "copy" /\ eluded' = {}
          /\ UNCHANGED <<loc, copied, dir, count, last, volume, status>>
        BY <1>7 DEF BeginBackup
    <2>2. dir = 1
        BY <2>1 DEF TypeInv, WalkInv
    <2> QED BY <2>1, <2>2 DEF Located, Verdict, Walked, In, Queued
<1>8. CASE CopyDir
    <2>1. /\ pc = "copy" /\ pc' = "walk" /\ dir <= 4 /\ copied' = copied \cup In(Subdirs[dir])
          /\ UNCHANGED <<loc, eluded, dir, last, volume, status>>
        BY <1>8 DEF CopyDir
    <2>2. \A q : In(q)' = In(q)
        BY <2>1 DEF In
    <2>3. \A j \in 1..4 : j <= dir => In(Subdirs[j]) \ copied' \subseteq eluded
        <3> SUFFICES ASSUME NEW j \in 1..4, j <= dir PROVE In(Subdirs[j]) \ copied' \subseteq eluded
            OBVIOUS
        <3>1. j < dir \/ j = dir
            BY <1>1
        <3> QED BY <2>1, <3>1 DEF Located, Walked
    <2> QED BY <2>1, <2>2, <2>3 DEF Located, Verdict, Walked
<1>9. CASE WalkDir
    <2>1. /\ pc = "walk" /\ pc' = "copy" /\ dir' = dir + 1
          /\ UNCHANGED <<loc, eluded, copied, last, volume, status>>
        BY <1>9 DEF WalkDir
    <2>2. \A q : In(q)' = In(q)
        BY <2>1 DEF In
    <2>3. \A j \in 1..4 : j < dir' => j <= dir
        BY <1>1, <2>1
    <2> QED BY <2>1, <2>2, <2>3 DEF Located, Verdict, Walked
<1>10. CASE Purge
    <2>1. /\ pc = "copy" /\ pc' = "recount" /\ dir > 4 /\ dir' = 1
          /\ loc' = [m \in Mail |-> IF loc[m] \in Queues \ {"maildrop"} THEN "purged" ELSE loc[m]]
          /\ eluded' = {m \in eluded : loc'[m] = "purged"}
          /\ UNCHANGED <<copied, last, volume, status>>
        BY <1>10 DEF Purge, AllWalked
    <2>2. In("purged")' \ copied' \subseteq eluded'
        <3> SUFFICES ASSUME NEW m \in Mail, loc'[m] = "purged", m \notin copied
                     PROVE  m \in eluded
            BY <2>1 DEF In
        <3>1. loc[m] \in Queues
            BY <2>1 DEF Located, In
        <3>2. PICK j \in 1..4 : loc[m] = Subdirs[j]
            BY <3>1 DEF Queues
        <3>3. Walked(j)
            BY <1>1, <2>1 DEF Walked
        <3> QED BY <2>1, <3>2, <3>3 DEF Located, In
    <2>3. Located'
        BY <1>1, <2>1, <2>2 DEF Located, Walked
    <2>4. Verdict'
        BY <2>1 DEF Verdict
    <2> QED BY <2>3, <2>4
<1>11. CASE Mismatch
    <2>1. /\ pc = "copy" /\ pc' = "stop"
          /\ UNCHANGED <<loc, eluded, copied, last, volume, status>>
        BY <1>11 DEF Mismatch
    <2> QED BY <2>1 DEF Located, Verdict, In
<1>12. CASE Dies("start") \/ Dies("drain") \/ Dies("copy")
    <2>1. /\ pc \in {"start", "drain", "copy"} /\ pc' = "exited" /\ status' = 1
          /\ UNCHANGED <<loc, eluded, copied, last, volume>>
        BY <1>12 DEF Dies
    <2> QED BY <2>1 DEF Located, Verdict, In
<1>13. CASE StopPostfix
    <2>1. /\ pc = "stop" /\ pc' = "exit"
          /\ UNCHANGED <<loc, eluded, copied, last, volume, status>>
        BY <1>13 DEF StopPostfix
    <2> QED BY <2>1 DEF Located, Verdict, In, Queued
<1>14. CASE Exit
    <2>1. /\ pc = "exit" /\ pc' = "exited" /\ status' = last % Modulus
          /\ UNCHANGED <<loc, eluded, copied, last, volume>>
        BY <1>14 DEF Exit, ExitStatus
    <2> QED BY <2>1 DEF Located, Verdict, In, Queued
<1> QED BY <1>2, <1>3, <1>4, <1>5, <1>6, <1>7, <1>8, <1>9, <1>10, <1>11, <1>12, <1>13, <1>14
        DEF Terminator

LEMMA OthersStep ==
    ASSUME IInv, Automation \/ HookTimesOut \/ UNCHANGED vars
    PROVE  Located' /\ Verdict'
<1> USE DEF mailVars, hostVars, countVars, given
<1>1. UNCHANGED <<instance, disposable, loc, eluded, copied, dir, count, last>>
    BY DEF Automation, Branch, CompleteLifecycleAction, DeleteVolume, HookTimesOut, vars
<1>2. \/ UNCHANGED <<pc, status>> /\ (~disposable => UNCHANGED volume)
      \/ UNCHANGED <<status, volume>> /\ pc = "branch" /\ (pc' = "done" \/ (~disposable /\ pc' = "start"))
      \/ UNCHANGED <<status, volume>> /\ pc = "exited" /\ pc' = IF status = 0 THEN "empty" ELSE "done"
      \/ UNCHANGED status /\ pc = "empty" /\ pc' = "done"
      \/ /\ pc \notin {"branch", "exited", "empty", "done"} /\ pc' = "exited" /\ status' = 1
         /\ ~disposable => UNCHANGED volume
    <2>1. CASE Branch
        BY <2>1 DEF Branch
    <2>2. CASE CompleteLifecycleAction \/ DeleteVolume
        BY <2>2 DEF CompleteLifecycleAction, DeleteVolume
    <2>3. CASE HookTimesOut
        <3>1. CASE pc \in {"branch", "exited", "empty", "done"}
            BY <2>3, <3>1 DEF HookTimesOut
        <3>2. CASE pc \notin {"branch", "exited", "empty", "done"}
            BY <2>3, <3>2 DEF HookTimesOut
        <3> QED BY <3>1, <3>2
    <2>4. CASE UNCHANGED vars
        BY <2>4 DEF vars
    <2> QED BY <2>1, <2>2, <2>3, <2>4 DEF Automation
<1>3. Located'
    BY <1>1, <1>2 DEF IInv, TypeInv, WalkInv, Located, Walked, In
<1>4. Verdict'
    BY <1>1, <1>2 DEF IInv, Verdict, Queued
<1> QED BY <1>3, <1>4

\* The inductive invariant: mail that has not eluded is counted, copied and purged where it is.
THEOREM Inductive == Spec => []IInv
<1>1. Init => IInv
    BY IInvInit
<1>2. IInv /\ [Next]_vars => IInv'
    BY TypeStep, MailStep, ScriptStep, OthersStep DEF IInv, Next
<1> QED BY <1>1, <1>2, PTL DEF Spec

-----------------------------------------------------------------------------
\* Every variable keeps its type.
THEOREM Typed == Spec => []TypeOK
<1>1. IInv => TypeOK
    BY DEF IInv, TypeInv
<1> QED BY <1>1, Inductive, PTL

\* The purge destroys no mail that stayed where it was and is not on EFS.
THEOREM PurgeSafe == Spec => []PurgeLosesOnlyMoved
<1>1. IInv => PurgeLosesOnlyMoved
    BY DEF IInv, Located, PurgeLosesOnlyMoved
<1> QED BY <1>1, Inductive, PTL

\* The volume is deleted with no mail on it but for mail that eluded, and for a count of
\* mails that the exit status cannot tell from zero.
THEOREM DeleteSafe == Spec => []DeleteLosesOnlyUncounted
<1>1. IInv => DeleteLosesOnlyUncounted
    BY DEF IInv, Verdict, DeleteLosesOnlyUncounted
<1> QED BY <1>1, Inductive, PTL
-----------------------------------------------------------------------------
(***************************************************************************)
(* The work left.  The prover cannot conclude TerminationEnds, which needs *)
(* fairness, but it can show what remains of it: Postfix may fill the      *)
(* queue as fast as the script counts it, and the script still runs down.  *)
(***************************************************************************)
\* The steps that are left at most, with b heartbeats and the directories from d on.
Weight(label, b, d) ==
    CASE label = "branch" -> 26 + 6 * b
      [] label = "start" -> 25 + 6 * b
      [] label = "count" -> 20 + 6 * b + (5 - d)
      [] label = "drain" -> 19 + 6 * b
      [] label = "copy" -> 10 + 2 * (5 - d)
      [] label = "walk" -> 9 + 2 * (5 - d)
      [] label = "recount" -> 5 + (5 - d)
      [] label = "stop" -> 4
      [] label = "exit" -> 3
      [] label = "exited" -> 2
      [] label = "empty" -> 1
      [] OTHER -> 0

Work == Weight(pc, MaxBeats - beats, dir)

\* Each step of the script or the automation takes some of the work away; mail that
\* moves or arrives adds none, and neither does a hook that times out.
WorkShrinks == [][(Terminator \/ Automation => Work' < Work) /\ Work' <= Work]_vars

\* The work left is a number, and no more than six steps for each heartbeat and 26 more.
WorkIsBounded == Work \in 0..(26 + 6 * MaxBeats)

LEMMA Weights ==
    ASSUME NEW label, NEW b \in Nat, NEW d \in 1..5
    PROVE  /\ label = "branch" => Weight(label, b, d) = 26 + 6 * b
           /\ label = "start" => Weight(label, b, d) = 25 + 6 * b
           /\ label = "count" => Weight(label, b, d) = 20 + 6 * b + (5 - d)
           /\ label = "drain" => Weight(label, b, d) = 19 + 6 * b
           /\ label = "copy" => Weight(label, b, d) = 10 + 2 * (5 - d)
           /\ label = "walk" => Weight(label, b, d) = 9 + 2 * (5 - d)
           /\ label = "recount" => Weight(label, b, d) = 5 + (5 - d)
           /\ label = "stop" => Weight(label, b, d) = 4
           /\ label = "exit" => Weight(label, b, d) = 3
           /\ label = "exited" => Weight(label, b, d) = 2
           /\ label = "empty" => Weight(label, b, d) = 1
           /\ label = "done" => Weight(label, b, d) = 0
BY DEF Weight

LEMMA Moments ==
    ASSUME TypeInv, TypeInv'
    PROVE  /\ MaxBeats - beats \in Nat /\ MaxBeats - beats' \in Nat
           /\ MaxBeats - beats <= MaxBeats /\ MaxBeats - beats' <= MaxBeats
           /\ dir \in 1..5 /\ dir' \in 1..5
<1>1. Len(Subdirs) + 1 = 5
    BY SubdirsAreQueues
<1>2. beats \in 0..MaxBeats /\ dir \in 1..5
    BY <1>1 DEF TypeInv, TypeOK
<1>3. beats' \in 0..MaxBeats /\ dir' \in 1..5
    BY <1>1 DEF TypeInv, TypeOK
<1>4. \A n \in 0..MaxBeats : MaxBeats - n \in Nat /\ MaxBeats - n <= MaxBeats
    BY BoundAssumption
<1> QED BY <1>2, <1>3, <1>4

\* A step of the script brings it nearer to its end.
LEMMA TerminatorWorks ==
    ASSUME TypeInv, TypeInv', Terminator
    PROVE  Work' < Work
<1>1. PICK c \in Nat : c = MaxBeats - beats /\ c <= MaxBeats
    BY Moments
<1>2. PICK e \in Nat : e = MaxBeats - beats' /\ e <= MaxBeats
    BY Moments
<1>3. PICK d \in 1..5 : d = dir
    BY Moments
<1>4. PICK f \in 1..5 : f = dir'
    BY Moments
<1>5. Work = Weight(pc, c, d) /\ Work' = Weight(pc', e, f)
    BY <1>1, <1>2, <1>3, <1>4 DEF Work
<1>6. pc \in {"start", "drain"} => d = 1
    BY <1>3 DEF TypeInv, WalkInv
<1>7. beats \in Nat /\ beats' \in Nat /\ MaxBeats \in Nat
    BY BoundAssumption DEF TypeInv, TypeOK
<1>8. Len(Subdirs) = 4
    BY SubdirsAreQueues
<1>9. CASE Start
    <2>1. pc = "start" /\ pc' = "count" /\ e = c /\ f = d
        BY <1>1, <1>2, <1>3, <1>4, <1>9 DEF Start, Script, countVars
    <2>2. Work = 25 + 6 * c /\ Work' = 20 + 6 * c + (5 - d)
        BY <1>5, <2>1, Weights
    <2> QED BY <1>6, <2>1, <2>2
<1>10. CASE CountDir("count")
    <2>1. pc = "count" /\ pc' = "count" /\ e = c /\ f = d + 1
        BY <1>1, <1>2, <1>3, <1>4, <1>10 DEF CountDir, Script
    <2>2. Work = 20 + 6 * c + (5 - d) /\ Work' = 20 + 6 * c + (5 - f)
        BY <1>5, <2>1, Weights
    <2> QED BY <2>1, <2>2
<1>11. CASE CountDir("recount")
    <2>1. pc = "recount" /\ pc' = "recount" /\ f = d + 1
        BY <1>3, <1>4, <1>11 DEF CountDir, Script
    <2>2. Work = 5 + (5 - d) /\ Work' = 5 + (5 - f)
        BY <1>5, <2>1, Weights
    <2> QED BY <2>1, <2>2
<1>12. CASE Drained \/ StillQueued \/ Counted("recount", "stop")
    <2>1. e = c
        BY <1>1, <1>2, <1>12 DEF Drained, StillQueued, Counted
    <2>2. \/ pc \in {"count", "recount"} /\ pc' = "stop"
          \/ pc = "count" /\ pc' = "drain"
        BY <1>12 DEF Drained, StillQueued, Counted, Script
    <2>3. \/ Work = 20 + 6 * c + (5 - d) /\ (Work' = 4 \/ Work' = 19 + 6 * c)
          \/ Work = 5 + (5 - d) /\ Work' = 4
        <3>1. CASE pc = "count" /\ pc' = "stop"
            BY <1>5, <3>1, Weights
        <3>2. CASE pc = "recount" /\ pc' = "stop"
            BY <1>5, <3>2, Weights
        <3>3. CASE pc = "count" /\ pc' = "drain"
            BY <1>5, <2>1, <3>3, Weights
        <3> QED BY <2>2, <3>1, <3>2, <3>3
    <2> QED BY <2>3
<1>13. CASE Heartbeat \/ HeartbeatFails
    <2>1. e = c - 1
        <3>1. beats' = beats + 1
            BY <1>13 DEF Heartbeat, HeartbeatFails, NextBeat, HeartbeatsLeft
        <3> QED BY <1>1, <1>2, <1>7, <3>1
    <2>2. f = d
        BY <1>3, <1>4, <1>13 DEF Heartbeat, HeartbeatFails, countVars
    <2>3. pc = "drain" /\ pc' \in {"count", "drain"}
        BY <1>13 DEF Heartbeat, HeartbeatFails, Script
    <2>4. Work = 19 + 6 * c /\ (Work' = 20 + 6 * e + (5 - f) \/ Work' = 19 + 6 * e)
        BY <1>5, <2>3, Weights
    <2>5. d = 1
        BY <1>6, <2>3
    <2> QED BY <2>1, <2>2, <2>4, <2>5
<1>14. CASE BeginBackup
    <2>1. pc = "drain" /\ pc' = "copy" /\ f = d
        BY <1>3, <1>4, <1>14 DEF BeginBackup, Script, countVars
    <2>2. Work = 19 + 6 * c /\ Work' = 10 + 2 * (5 - f)
        BY <1>5, <2>1, Weights
    <2> QED BY <1>6, <2>1, <2>2
<1>15. CASE CopyDir
    <2>1. pc = "copy" /\ pc' = "walk" /\ f = d
        BY <1>3, <1>4, <1>15 DEF CopyDir, Script
    <2>2. Work = 10 + 2 * (5 - d) /\ Work' = 9 + 2 * (5 - f)
        BY <1>5, <2>1, Weights
    <2> QED BY <2>1, <2>2
<1>16. CASE WalkDir
    <2>1. pc = "walk" /\ pc' = "copy" /\ f = d + 1
        BY <1>3, <1>4, <1>16 DEF WalkDir, Script
    <2>2. Work = 9 + 2 * (5 - d) /\ Work' = 10 + 2 * (5 - f)
        BY <1>5, <2>1, Weights
    <2> QED BY <2>1, <2>2
<1>17. CASE Purge \/ Mismatch
    <2>1. pc = "copy" /\ pc' \in {"recount", "stop"} /\ f = 1
        BY <1>4, <1>17 DEF Purge, Mismatch, AllWalked, Script
    <2>2. Work = 10 + 2 * (5 - d) /\ (Work' = 5 + (5 - f) \/ Work' = 4)
        BY <1>5, <2>1, Weights
    <2> QED BY <2>1, <2>2
<1>18. CASE Dies("start") \/ Dies("drain") \/ Dies("copy")
    <2>1. pc \in {"start", "drain", "copy"} /\ pc' = "exited"
        BY <1>18 DEF Dies, Script
    <2>2. /\ Work = 25 + 6 * c \/ Work = 19 + 6 * c \/ Work = 10 + 2 * (5 - d)
          /\ Work' = 2
        BY <1>5, <2>1, Weights
    <2> QED BY <2>2
<1>19. CASE StopPostfix \/ Exit
    <2>1. (pc = "stop" /\ pc' = "exit") \/ (pc = "exit" /\ pc' = "exited")
        BY <1>19 DEF StopPostfix, Exit, Script
    <2>2. (Work = 4 /\ Work' = 3) \/ (Work = 3 /\ Work' = 2)
        BY <1>5, <2>1, Weights
    <2> QED BY <2>2
<1> QED BY <1>9, <1>10, <1>11, <1>12, <1>13, <1>14, <1>15, <1>16, <1>17, <1>18, <1>19
        DEF Terminator

\* The automation comes to its end, and a hook that times out cuts the script short.
LEMMA AutomationWorks ==
    ASSUME TypeInv, TypeInv'
    PROVE  (Automation => Work' < Work) /\ (HookTimesOut => Work' <= Work)
<1>1. PICK c \in Nat, d \in 1..5 : c = MaxBeats - beats /\ d = dir
    BY Moments
<1>2. PICK e \in Nat, f \in 1..5 : e = MaxBeats - beats' /\ f = dir'
    BY Moments
<1>3. Work = Weight(pc, c, d) /\ Work' = Weight(pc', e, f)
    BY <1>1, <1>2 DEF Work
<1>4. ASSUME Automation PROVE Work' < Work
    <2>1. \/ pc = "branch" /\ pc' \in {"start", "done"}
          \/ (pc = "exited" /\ pc' \in {"empty", "done"}) \/ (pc = "empty" /\ pc' = "done")
        BY <1>4 DEF Automation, Branch, CompleteLifecycleAction, DeleteVolume
    <2>2. UNCHANGED beats
        BY <1>4 DEF Automation, Branch, CompleteLifecycleAction, DeleteVolume
    <2>3. c = e
        BY <1>1, <1>2, <2>2
    <2>4. \/ Work = 26 + 6 * c /\ (Work' = 25 + 6 * c \/ Work' = 0)
          \/ (Work = 2 /\ (Work' = 1 \/ Work' = 0)) \/ (Work = 1 /\ Work' = 0)
        BY <1>3, <2>1, <2>3, Weights
    <2> QED BY <2>4
<1>5. ASSUME HookTimesOut PROVE Work' <= Work
    <2>1. CASE pc \in {"branch", "exited", "empty", "done"}
        <3>1. UNCHANGED <<pc, beats, dir>>
            BY <1>5, <2>1 DEF HookTimesOut, countVars
        <3>2. Work' = Work
            BY <3>1 DEF Work
        <3>3. Work = 26 + 6 * c \/ Work = 2 \/ Work = 1 \/ Work = 0
            BY <1>3, <2>1, Weights
        <3> QED BY <3>2, <3>3
    <2>2. CASE pc \in {"start", "count", "drain", "copy", "walk", "recount", "stop", "exit"}
        <3>1. Work' = 2
            <4>1. pc' = "exited"
                BY <1>5, <2>2 DEF HookTimesOut
            <4> QED BY <1>3, <4>1, Weights
        <3>2. \/ Work = 25 + 6 * c \/ Work = 20 + 6 * c + (5 - d) \/ Work = 19 + 6 * c
              \/ Work = 10 + 2 * (5 - d) \/ Work = 9 + 2 * (5 - d) \/ Work = 5 + (5 - d)
              \/ Work = 4 \/ Work = 3
            BY <1>3, <2>2, Weights
        <3> QED BY <3>1, <3>2
    <2> QED BY <2>1, <2>2 DEF TypeInv, TypeOK
<1> QED BY <1>4, <1>5

LEMMA WorkTyped ==
    ASSUME TypeInv
    PROVE  WorkIsBounded
<1>1. Len(Subdirs) + 1 = 5
    BY SubdirsAreQueues
<1>2. beats \in 0..MaxBeats /\ dir \in 1..5
    BY <1>1 DEF TypeInv, TypeOK
<1>3. PICK c \in Nat, d \in 1..5 : c = MaxBeats - beats /\ c <= MaxBeats /\ d = dir
    <2>1. MaxBeats - beats \in Nat /\ MaxBeats - beats <= MaxBeats
        BY <1>2, BoundAssumption
    <2> QED BY <1>2, <2>1
<1>4. Work = Weight(pc, c, d)
    BY <1>3 DEF Work
<1>5. \/ Work = 25 + 6 * c \/ Work = 20 + 6 * c + (5 - d) \/ Work = 19 + 6 * c
      \/ Work = 10 + 2 * (5 - d) \/ Work = 9 + 2 * (5 - d) \/ Work = 5 + (5 - d)
      \/ Work = 26 + 6 * c \/ Work \in 0..4
    <2>1. CASE pc \in {"branch", "start", "count", "drain", "copy", "walk", "recount"}
        BY <1>4, <2>1, Weights
    <2>2. CASE pc \in {"stop", "exit", "exited", "empty", "done"}
        BY <1>4, <2>2, Weights
    <2> QED BY <2>1, <2>2 DEF TypeInv, TypeOK
<1> QED BY <1>3, <1>5, BoundAssumption DEF WorkIsBounded

\* The script and the automation take at most 26 + 6 * MaxBeats steps: no loop over a
\* queue that does not empty, and no failed heartbeat, keeps the host for ever.
THEOREM TerminationRunsDown == Spec => []WorkIsBounded /\ WorkShrinks
<1>1. TypeInv /\ TypeInv' /\ Next => (Terminator \/ Automation => Work' < Work) /\ Work' <= Work
    <2> SUFFICES ASSUME TypeInv, TypeInv', Next
                 PROVE  (Terminator \/ Automation => Work' < Work) /\ Work' <= Work
        OBVIOUS
    <2>1. Terminator \/ Automation => Work' < Work
        BY TerminatorWorks, AutomationWorks
    <2>2. Work \in Nat /\ Work' \in Nat
        <3>1. WorkIsBounded
            BY WorkTyped
        <3>2. WorkIsBounded'
            BY WorkTyped, PTL
        <3> QED BY <3>1, <3>2, BoundAssumption DEF WorkIsBounded
    <2>3. CASE \E m \in Mail : Arrive(m) \/ Manage(m) \/ \E b \in Mail : Bounce(m, b)
        <3>1. UNCHANGED <<pc, beats, dir>>
            BY <2>3 DEF Arrive, Manage, Move, Bounce, countVars
        <3>2. Work' = Work
            BY <3>1 DEF Work
        <3> QED BY <2>1, <2>2, <3>2
    <2>4. CASE HookTimesOut
        BY <2>1, <2>4, AutomationWorks
    <2>5. CASE Terminator \/ Automation
        BY <2>1, <2>2, <2>5
    <2> QED BY <2>3, <2>4, <2>5 DEF Next
<1>2. IInv => TypeInv /\ WorkIsBounded
    BY WorkTyped DEF IInv
<1>3. IInv /\ IInv' => TypeInv /\ TypeInv'
    BY DEF IInv
<1>4. []IInv /\ [][Next]_vars => WorkShrinks
    BY <1>1, <1>3, PTL DEF WorkShrinks
<1> QED BY <1>2, <1>4, Inductive, PTL DEF Spec
=============================================================================
