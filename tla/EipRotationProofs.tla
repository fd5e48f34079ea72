-------------------------- MODULE EipRotationProofs --------------------------
(***************************************************************************)
(* Theorems about EipRotation, for every set of hosts, addresses and       *)
(* invocations and every bound on calls and failures.                      *)
(***************************************************************************)
EXTENDS EipRotation, FiniteSetTheorems, TLAPS

Labels == {"idle", "next", "choose", "stop", "attach", "continue", "abandon"} \cup MidRotation

\* An invocation past its first steps has a host to work on, an old one if the
\* schedule chose it, and an address once it has chosen one.
JobInv ==
    \A l \in Lambda :
        /\ target[l] \in Instance <=> pc[l] \notin {"idle", "next"}
        /\ target[l] \in Instance => phase[target[l]] # "absent"
        /\ \A item \in listed[l] : phase[item[1]] # "absent"
        /\ pc[l] \in {"stop", "attach"} \cup MidRotation => new[l] \in Address
        /\ pc[l] \in {"attach", "continue", "abandon"} => kind[l] = "launch"
        /\ pc[l] \in {"stop"} \cup MidRotation => kind[l] \in {"single", "all"}
        /\ pc[l] = "choose" => kind[l] \in {"launch", "single", "all"}
        /\ pc[l] = "next" => kind[l] \in {"single", "all"}
        /\ target[l] \in Instance /\ kind[l] = "all" => phase[target[l]] \in {"old", "gone"}

TypeInv == TypeOK /\ JobInv

LEMMA FaultKeeps == TypeOK /\ Fault => faults' \in 0..MaxFaults
<1>1. TypeOK => faults \in 0..MaxFaults
    BY DEF TypeOK
<1> QED BY <1>1, BoundAssumption DEF Fault

LEMMA SsmFailsKeeps == ASSUME TypeOK, NEW i, SsmFails(i) PROVE faults' \in 0..MaxFaults
BY FaultKeeps DEF SsmFails, TypeOK

\* The variables of the invocations keep their types.
JobTypes ==
    /\ pc \in [Lambda -> Labels]
    /\ kind \in [Lambda -> {"none", "launch", "single", "all"}]
    /\ target \in [Lambda -> Instance \cup {None}]
    /\ listed \in [Lambda -> SUBSET (Instance \X (Address \cup {None}))]
    /\ cur \in [Lambda -> Association]
    /\ new \in [Lambda -> Address \cup {None}]
    /\ seen \in [Lambda -> [Address -> Nat]]

\* The other variables keep theirs.
HostTypes ==
    /\ phase \in [Instance -> {"absent", "launching", "launched", "old", "gone"}]
    /\ owner \in [Address -> Instance \cup {None}]
    /\ uses \in [Address -> Nat]
    /\ boot \in [Instance -> {"booting", "named", "done"}]
    /\ bootName \in [Instance -> Address \cup {None}]
    /\ postfix \in [Instance -> {"stopped", "running"}]
    /\ hostname \in [Instance -> Address \cup {None}]
    /\ late \subseteq Command
    /\ blame \in [Instance -> SUBSET Cause]
    /\ calls \in 0..MaxCalls
    /\ faults \in 0..MaxFaults

LEMMA Types == TypeOK <=> JobTypes /\ HostTypes
BY DEF TypeOK, JobTypes, HostTypes, Labels

LEMMA NextTypes == TypeOK' <=> JobTypes' /\ HostTypes'
BY Types, PTL

LEMMA LeaveKeeps ==
    ASSUME TypeInv, NEW l \in Lambda, End(l) \/ Return(l),
           UNCHANGED phase
    PROVE  JobTypes' /\ JobInv'
<1>1. NoEip \in Association /\ [a \in Address |-> 0] \in [Address -> Nat]
    BY DEF NoEip, Association
<1>2. JobTypes /\ JobInv
    BY Types DEF TypeInv
<1>3. CASE End(l)
    <2>1. JobTypes'
        BY <1>1, <1>2, <1>3 DEF JobTypes, Labels, End, Goto
    <2>2. JobInv'
        BY <1>2, <1>3, NoneAssumption DEF JobTypes, JobInv, MidRotation, End, Goto
    <2> QED BY <2>1, <2>2
<1>4. CASE /\ kind[l] = "all" /\ Goto(l, "next")
           /\ target' = [target EXCEPT ![l] = None]
           /\ cur' = [cur EXCEPT ![l] = NoEip]
           /\ new' = [new EXCEPT ![l] = None]
           /\ UNCHANGED <<kind, listed, seen>>
    <2>1. JobTypes'
        BY <1>1, <1>2, <1>4 DEF JobTypes, Labels, Goto
    <2>2. JobInv'
        BY <1>2, <1>4, NoneAssumption DEF JobTypes, JobInv, MidRotation, Goto
    <2> QED BY <2>1, <2>2
<1> QED BY <1>3, <1>4 DEF Return

\* Hosts only grow older while an invocation looks at them.
Ages ==
    \A i \in Instance :
        /\ phase[i] # "absent" => phase'[i] # "absent"
        /\ phase[i] \in {"old", "gone"} => phase'[i] \in {"old", "gone"}

LEMMA AgeKeeps ==
    ASSUME TypeInv, Ages, UNCHANGED jobVars
    PROVE  JobTypes' /\ JobInv'
BY DEF TypeInv, TypeOK, JobInv, JobTypes, Labels, Ages, jobVars

LEMMA BlameKeeps ==
    ASSUME TypeOK, NEW i, NEW c \in Cause, Blame(i, c)
    PROVE  blame' \in [Instance -> SUBSET Cause]
BY DEF TypeOK, Blame

LEMMA InvokeForLaunchTypes ==
    ASSUME TypeInv, NEW l \in Lambda, InvokeForLaunch(l)
    PROVE  TypeInv'
<1> USE DEF TypeInv, InvokeForLaunch, Invoke, Goto, hostVars, bootVars, eipVars
<1>1. TypeOK'
    BY BoundAssumption DEF TypeOK
<1>2. JobInv'
    BY DEF TypeOK, JobInv, MidRotation
<1> QED BY <1>1, <1>2

LEMMA ReadsTypes ==
    ASSUME TypeInv, NEW l \in Lambda, pc[l] = "idle",
           NEW items \in SUBSET (Instance \X (Address \cup {None})), Reads(l, items),
           \A item \in items : IsListed(item[1], item[2]),
           NEW k \in {"single", "all"}, Invoke(l, k, "next")
    PROVE  TypeInv'
<1> USE DEF TypeInv, Reads, Invoke, Goto, hostVars, bootVars, eipVars
<1>1. JobTypes'
    BY DEF TypeOK, JobTypes, Labels
<1>2. calls' \in 0..MaxCalls
    BY BoundAssumption DEF TypeOK
<1>3. TypeOK'
    BY <1>1, <1>2 DEF TypeOK, JobTypes, Labels
<1>4. JobInv'
    <2>1. target[l] \notin Instance
        BY DEF TypeOK, JobInv
    <2>2. \A item \in items : phase[item[1]] # "absent"
        BY DEF IsListed
    <2> QED BY <2>1, <2>2 DEF TypeOK, JobInv, MidRotation
<1> QED BY <1>3, <1>4

LEMMA InvokeForOneTypes ==
    ASSUME TypeInv, NEW l \in Lambda, InvokeForOne(l)
    PROVE  TypeInv'
<1>1. PICK i \in Instance, a \in Address \cup {None} : IsListed(i, a) /\ Reads(l, {<<i, a>>})
    BY DEF InvokeForOne
<1>2. {<<i, a>>} \in SUBSET (Instance \X (Address \cup {None}))
    OBVIOUS
<1>3. \A item \in {<<i, a>>} : IsListed(item[1], item[2])
    BY <1>1
<1>4. pc[l] = "idle" /\ Invoke(l, "single", "next")
    BY DEF InvokeForOne, Invoke
<1> QED BY <1>1, <1>2, <1>3, <1>4, ReadsTypes

LEMMA InvokeForAllTypes ==
    ASSUME TypeInv, NEW l \in Lambda, InvokeForAll(l)
    PROVE  TypeInv'
<1> DEFINE L == {item \in Instance \X (Address \cup {None}) : IsListed(item[1], item[2])}
<1>1. L \in SUBSET (Instance \X (Address \cup {None})) /\ Reads(l, L)
    BY DEF InvokeForAll
<1>2. \A item \in L : IsListed(item[1], item[2])
    OBVIOUS
<1>3. pc[l] = "idle" /\ Invoke(l, "all", "next")
    BY DEF InvokeForAll, Invoke
<1> HIDE DEF L
<1> QED BY <1>1, <1>2, <1>3, ReadsTypes

\* What lookup_eip answers, and what the invocation does with it.
LEMMA LooksUpTypes ==
    ASSUME TypeInv, NEW l \in Lambda, NEW item \in listed[l], NEW answer \in {NoEip, Known(item[2])},
           LooksUp(item[2], answer)
    PROVE  faults' \in 0..MaxFaults
BY FaultKeeps DEF TypeInv, TypeOK, LooksUp

LEMMA TakesTypes ==
    ASSUME TypeInv, NEW l \in Lambda, NEW item \in listed[l], NEW answer \in {NoEip, Known(item[2])},
           Takes(l, item, answer), pc[l] = "next", kind[l] = "all" => phase[item[1]] = "old",
           UNCHANGED phase
    PROVE  JobTypes' /\ JobInv'
<1> USE DEF TypeInv, Takes, Goto
<1>1. item[1] \in Instance /\ item[2] \in Address \cup {None}
    BY DEF TypeOK
<1>2. answer \in Association
    BY <1>1 DEF TypeOK, Association, Known, NoEip
<1>3. JobTypes'
    BY <1>1, <1>2 DEF TypeOK, JobTypes, Labels
<1>4. JobInv'
    BY <1>1 DEF TypeOK, JobInv, MidRotation
<1> QED BY <1>3, <1>4

LEMMA SkipsTypes ==
    ASSUME TypeInv, NEW l \in Lambda, NEW item \in listed[l], Skips(l, item), UNCHANGED phase
    PROVE  JobTypes' /\ JobInv'
<1> USE DEF TypeInv, Skips
<1>1. JobTypes'
    BY DEF TypeOK, JobTypes, Labels
<1>2. JobInv'
    BY DEF TypeOK, JobInv
<1> QED BY <1>1, <1>2

LEMMA LookUpOneTypes ==
    ASSUME TypeInv, NEW l \in Lambda, LookUpOne(l)
    PROVE  TypeInv'
<1> USE DEF hostVars, bootVars, eipVars
<1>1. PICK item \in listed[l] :
        \/ \E answer \in {NoEip, Known(item[2])} : LooksUp(item[2], answer) /\ Takes(l, item, answer)
        \/ Raises(l, item)
    BY DEF LookUpOne
<1>2. UNCHANGED phase /\ pc[l] = "next" /\ kind[l] = "single"
    BY DEF LookUpOne
<1>3. JobTypes' /\ JobInv' /\ faults' \in 0..MaxFaults
    <2>1. CASE Raises(l, item)
        BY <1>2, <2>1, LeaveKeeps DEF Raises, TypeInv, TypeOK
    <2>2. ASSUME NEW answer \in {NoEip, Known(item[2])}, LooksUp(item[2], answer), Takes(l, item, answer)
          PROVE  JobTypes' /\ JobInv' /\ faults' \in 0..MaxFaults
        BY <1>2, <2>2, TakesTypes, LooksUpTypes
    <2> QED BY <1>1, <2>1, <2>2
<1> QED BY <1>3 DEF LookUpOne, TypeInv, TypeOK, JobTypes, Labels

LEMMA NextHostTypes ==
    ASSUME TypeInv, NEW l \in Lambda, NextHost(l)
    PROVE  TypeInv'
<1> USE DEF hostVars, bootVars, eipVars
<1>1. UNCHANGED phase /\ pc[l] = "next" /\ kind[l] = "all"
    BY DEF NextHost
<1>2. CASE End(l) /\ UNCHANGED faults
    <2>1. JobTypes' /\ JobInv'
        BY <1>1, <1>2, LeaveKeeps
    <2> QED BY <1>2, <2>1 DEF NextHost, TypeInv, TypeOK, JobTypes, Labels
<1>3. ASSUME NEW item \in listed[l], Skips(l, item), UNCHANGED faults \/ LooksUp(item[2], NoEip)
      PROVE  TypeInv'
    <2>1. JobTypes' /\ JobInv'
        BY <1>1, <1>3, SkipsTypes
    <2>2. faults' \in 0..MaxFaults
        BY <1>3, LooksUpTypes DEF TypeInv, TypeOK
    <2> QED BY <2>1, <2>2 DEF NextHost, TypeInv, TypeOK, JobTypes, Labels
<1>4. ASSUME NEW item \in listed[l], ~RecentlyDeployed(item[1]), Takes(l, item, Known(item[2])),
             UNCHANGED faults
      PROVE  TypeInv'
    <2>1. JobTypes' /\ JobInv'
        BY <1>1, <1>4, TakesTypes DEF RecentlyDeployed
    <2> QED BY <1>4, <2>1 DEF NextHost, TypeInv, TypeOK, JobTypes, Labels
<1> QED BY <1>2, <1>3, <1>4 DEF NextHost, Raises

\* An invocation goes on to its next step with the same host and address.
LEMMA GotoKeeps ==
    ASSUME TypeInv, NEW l \in Lambda, NEW label \in Labels, Goto(l, label),
           \/ pc[l] \in MidRotation /\ label \in MidRotation
           \/ pc[l] = "attach" /\ label = "continue"
           \/ pc[l] \in {"choose", "attach"} /\ kind[l] = "launch" /\ label = "abandon",
           UNCHANGED <<phase, kind, target, listed, cur, new, seen>>
    PROVE  JobTypes' /\ JobInv'
<1> USE DEF TypeInv, Goto, MidRotation
<1>1. JobTypes'
    BY DEF TypeOK, JobTypes, Labels
<1>2. JobInv'
    BY DEF TypeOK, JobInv
<1> QED BY <1>1, <1>2

LEMMA ChooseTypes ==
    ASSUME TypeInv, NEW l \in Lambda, Choose(l)
    PROVE  TypeInv'
<1> USE DEF TypeInv, Choose, Goto, hostVars, bootVars, eipVars
<1>1. TypeOK'
    BY DEF TypeOK, Free
<1>2. JobInv'
    BY DEF TypeOK, JobInv, MidRotation, Free
<1> QED BY <1>1, <1>2

LEMMA StopTypes ==
    ASSUME TypeInv, NEW l \in Lambda, Stop(l)
    PROVE  TypeInv'
<1> USE DEF TypeInv, Stop, Goto, hostVars, bootVars, eipVars
<1>1. JobTypes' /\ JobInv'
    BY DEF TypeOK, JobTypes, JobInv, Labels, MidRotation
<1>2. blame' \in [Instance -> SUBSET Cause] /\ faults' \in 0..MaxFaults
    BY BlameKeeps, FaultKeeps DEF TypeOK, Cause
<1>3. HostTypes'
    BY <1>1, <1>2 DEF TypeInv, TypeOK, HostTypes
<1> QED BY <1>1, <1>3, NextTypes DEF TypeInv

LEMMA DisassociateNothingTypes ==
    ASSUME TypeInv, NEW l \in Lambda, DisassociateNothing(l)
    PROVE  TypeInv'
<1> USE DEF TypeInv, DisassociateNothing, Goto, hostVars, bootVars, eipVars
<1>1. JobTypes' /\ JobInv'
    BY LeaveKeeps
<1>2. blame' \in [Instance -> SUBSET Cause] /\ faults' \in 0..MaxFaults
    BY BlameKeeps, FaultKeeps DEF TypeOK, Cause
<1>3. HostTypes'
    BY <1>1, <1>2 DEF TypeInv, TypeOK, HostTypes
<1> QED BY <1>1, <1>3, NextTypes DEF TypeInv

LEMMA AbortTypes ==
    ASSUME TypeInv, NEW l \in Lambda, Abort(l)
    PROVE  TypeInv'
<1> USE DEF TypeInv, Abort, Goto, hostVars, bootVars, eipVars
<1>1. JobTypes' /\ JobInv'
    BY LeaveKeeps
<1>2. blame' \in [Instance -> SUBSET Cause] /\ faults' \in 0..MaxFaults
    BY BlameKeeps, FaultKeeps DEF TypeOK, Cause
<1>3. HostTypes'
    BY <1>1, <1>2 DEF TypeInv, TypeOK, HostTypes
<1> QED BY <1>1, <1>3, NextTypes DEF TypeInv

LEMMA RestartFailsTypes ==
    ASSUME TypeInv, NEW l \in Lambda, RestartFails(l)
    PROVE  TypeInv'
<1> USE DEF TypeInv, RestartFails, Goto, hostVars, bootVars, eipVars, GivenUp, Ssm
<1>1. JobTypes' /\ JobInv'
    BY LeaveKeeps
<1>2. blame' \in [Instance -> SUBSET Cause] /\ faults' \in 0..MaxFaults
    BY BlameKeeps, SsmFailsKeeps DEF TypeOK, Cause
<1>3. target[l] \in Instance /\ new[l] \in Address \cup {None}
    BY DEF TypeOK, JobInv, MidRotation
<1>4. late' \subseteq Command
    BY <1>3 DEF TypeOK, Command
<1>5. HostTypes'
    BY <1>2, <1>3, <1>4 DEF TypeOK, HostTypes
<1> QED BY <1>1, <1>5, NextTypes

LEMMA RestartTypes ==
    ASSUME TypeInv, NEW l \in Lambda, Restart(l)
    PROVE  TypeInv'
<1> USE DEF TypeInv, Restart, Goto, hostVars, bootVars, eipVars
<1>1. JobTypes' /\ JobInv'
    BY LeaveKeeps
<1>2. HostTypes'
    BY <1>1 DEF TypeInv, TypeOK, HostTypes
<1> QED BY <1>1, <1>2, NextTypes DEF TypeInv

LEMMA UpdateHostnameTypes ==
    ASSUME TypeInv, NEW l \in Lambda, UpdateHostname(l)
    PROVE  TypeInv'
<1> USE DEF TypeInv, UpdateHostname, Goto, hostVars, bootVars, eipVars
<1>1. JobTypes' /\ JobInv'
    BY LeaveKeeps
<1>2. blame' \in [Instance -> SUBSET Cause] /\ faults' \in 0..MaxFaults
    <2>1. CASE Repaired(l) /\ UNCHANGED faults
        BY <2>1 DEF TypeOK, Repaired
    <2>2. CASE Blame(target[l], "postconf") /\ SsmFails(target[l])
        BY <2>2, BlameKeeps, SsmFailsKeeps DEF Cause
    <2> QED BY <2>1, <2>2
<1>3. hostname' \in [Instance -> Address \cup {None}]
    BY DEF TypeOK, NewName
<1>4. HostTypes'
    BY <1>1, <1>2, <1>3 DEF TypeInv, TypeOK, HostTypes
<1> QED BY <1>1, <1>4, NextTypes DEF TypeInv

LEMMA ChooseFailsTypes ==
    ASSUME TypeInv, NEW l \in Lambda, ChooseFails(l)
    PROVE  TypeInv'
<1> USE DEF ChooseFails, hostVars, bootVars, eipVars
<1>1. JobTypes' /\ JobInv'
    <2>1. CASE End(l)
        BY <2>1, LeaveKeeps
    <2>2. CASE ~End(l)
        <3>1. /\ Goto(l, "abandon") /\ pc[l] \in {"choose", "attach"} /\ kind[l] = "launch"
              /\ UNCHANGED <<phase, kind, target, listed, cur, new, seen>>
            BY <2>2
        <3>2. "abandon" \in Labels
            BY DEF Labels
        <3> QED BY <3>1, <3>2, GotoKeeps
    <2> QED BY <2>1, <2>2
<1>2. faults' \in 0..MaxFaults
    BY FaultKeeps DEF TypeInv, TypeOK
<1>3. HostTypes'
    BY <1>2 DEF TypeInv, TypeOK, HostTypes
<1> QED BY <1>1, <1>3, NextTypes DEF TypeInv

LEMMA AssociatedTypes ==
    ASSUME TypeInv, NEW l \in Lambda, pc[l] \in {"attach", "associate"}, Associated(l)
    PROVE  uses' \in [Address -> Nat] /\ owner' \in [Address -> Instance \cup {None}]
<1>1. /\ uses \in [Address -> Nat] /\ owner \in [Address -> Instance \cup {None}]
      /\ target[l] \in Instance /\ new[l] \in Address
    BY DEF TypeInv, TypeOK, JobInv, MidRotation
<1> QED BY <1>1 DEF Associated

LEMMA OvertakenTypes ==
    ASSUME TypeOK, NEW l \in Lambda, blame' = [blame EXCEPT ![target[l]] = @ \cup Overtaken(l)]
    PROVE  blame' \in [Instance -> SUBSET Cause]
BY DEF TypeOK, Overtaken, Cause

LEMMA AssociateFailsTypes ==
    ASSUME TypeInv, NEW l \in Lambda, AssociateFails(l)
    PROVE  TypeInv'
<1> USE DEF AssociateFails, hostVars, bootVars, eipVars
<1>1. JobTypes' /\ JobInv'
    <2>1. CASE Return(l)
        BY <2>1, LeaveKeeps
    <2>2. CASE ~Return(l)
        <3>1. /\ Goto(l, "abandon") /\ pc[l] \in {"choose", "attach"}
              /\ UNCHANGED <<phase, kind, target, listed, cur, new, seen>>
            BY <2>2
        <3>2. "abandon" \in Labels /\ kind[l] = "launch"
            BY <2>2 DEF Labels, TypeInv, JobInv
        <3> QED BY <3>1, <3>2, GotoKeeps
    <2> QED BY <2>1, <2>2
<1>2. blame' \in [Instance -> SUBSET Cause] /\ faults' \in 0..MaxFaults
    BY BlameKeeps, OvertakenTypes, FaultKeeps DEF TypeInv, TypeOK, Cause
<1>3. uses' \in [Address -> Nat] /\ owner' \in [Address -> Instance \cup {None}]
    BY AssociatedTypes DEF TypeInv, TypeOK
<1>4. HostTypes'
    BY <1>1, <1>2, <1>3 DEF TypeInv, TypeOK, HostTypes
<1> QED BY <1>1, <1>4, NextTypes DEF TypeInv

LEMMA DisassociateFailsTypes ==
    ASSUME TypeInv, NEW l \in Lambda, DisassociateFails(l)
    PROVE  TypeInv'
<1>1. JobTypes' /\ JobInv'
    <2> USE DEF TypeInv, DisassociateFails, Goto, hostVars, bootVars, eipVars, ToRestart
    <2>1. CASE End(l) \/ Return(l)
        BY <2>1, LeaveKeeps
    <2>2. CASE ~(End(l) \/ Return(l))
        BY <2>2 DEF TypeOK, JobTypes, JobInv, Labels, MidRotation
    <2> QED BY <2>1, <2>2
<1>2. blame' \in [Instance -> SUBSET Cause]
    <2>1. UNCHANGED blame \/ Blame(target[l], "stale")
        BY DEF DisassociateFails
    <2>2. TypeOK /\ "stale" \in Cause
        BY DEF TypeInv, Cause
    <2> QED BY <2>1, <2>2, BlameKeeps DEF TypeOK
<1>3. faults' \in 0..MaxFaults
    <2>1. UNCHANGED faults \/ Fault
        BY DEF DisassociateFails
    <2> QED BY <2>1, FaultKeeps DEF TypeInv, TypeOK
<1>4. HostTypes
    BY Types DEF TypeInv
<1>5. UNCHANGED <<phase, owner, uses, boot, bootName, postfix, hostname, late, calls>>
    BY DEF DisassociateFails, hostVars, bootVars, eipVars
<1>6. HostTypes'
    BY <1>2, <1>3, <1>4, <1>5 DEF HostTypes
<1> QED BY <1>1, <1>6, NextTypes DEF TypeInv

LEMMA StopFailsTypes ==
    ASSUME TypeInv, NEW l \in Lambda, StopFails(l)
    PROVE  TypeInv'
<1> USE DEF TypeInv, StopFails, Goto, hostVars, bootVars, eipVars, GivenUp, Ssm
<1>1. JobTypes' /\ JobInv'
    BY LeaveKeeps
<1>2. blame' \in [Instance -> SUBSET Cause] /\ faults' \in 0..MaxFaults
    BY BlameKeeps, SsmFailsKeeps DEF TypeOK, Cause
<1>3. target[l] \in Instance /\ new[l] \in Address \cup {None}
    BY DEF TypeOK, JobInv, MidRotation
<1>4. late' \subseteq Command
    BY <1>3 DEF TypeOK, Command
<1>5. HostTypes'
    BY <1>2, <1>3, <1>4 DEF TypeOK, HostTypes
<1> QED BY <1>1, <1>5, NextTypes

LEMMA UpdateHostnameFailsTypes ==
    ASSUME TypeInv, NEW l \in Lambda, UpdateHostnameFails(l)
    PROVE  TypeInv'
<1> USE DEF TypeInv, UpdateHostnameFails, Goto, hostVars, bootVars, eipVars, GivenUp, Ssm, NewName
<1>1. JobTypes' /\ JobInv'
    BY LeaveKeeps
<1>2. blame' \in [Instance -> SUBSET Cause] /\ faults' \in 0..MaxFaults
    BY BlameKeeps, SsmFailsKeeps DEF TypeOK, Cause
<1>3. target[l] \in Instance /\ new[l] \in Address \cup {None}
    BY DEF TypeOK, JobInv, MidRotation
<1>4. late' \subseteq Command
    BY <1>3 DEF TypeOK, Command
<1>5. HostTypes'
    BY <1>2, <1>3, <1>4 DEF TypeOK, HostTypes
<1> QED BY <1>1, <1>5, NextTypes

LEMMA AssociateTypes ==
    ASSUME TypeInv, NEW l \in Lambda, Associate(l)
    PROVE  TypeInv'
<1> USE DEF TypeInv, Associate, hostVars, bootVars, eipVars
<1>1. JobTypes' /\ JobInv'
    <2>0. UNCHANGED <<phase, kind, target, listed, cur, new, seen>>
        OBVIOUS
    <2>1. PICK label \in {"continue", "hostname"} :
            Goto(l, label) /\ (pc[l] = "attach" <=> label = "continue")
        OBVIOUS
    <2>2. /\ label \in Labels
          /\ \/ pc[l] \in MidRotation /\ label \in MidRotation
             \/ pc[l] = "attach" /\ label = "continue"
        BY <2>1 DEF MidRotation, Labels
    <2> QED BY <2>0, <2>1, <2>2, GotoKeeps
<1>2. blame' \in [Instance -> SUBSET Cause]
    BY OvertakenTypes DEF TypeOK
<1>3. uses' \in [Address -> Nat] /\ owner' \in [Address -> Instance \cup {None}]
    BY AssociatedTypes
<1>4. HostTypes'
    BY <1>1, <1>2, <1>3 DEF TypeInv, TypeOK, HostTypes
<1> QED BY <1>1, <1>4, NextTypes DEF TypeInv

LEMMA DisassociateTypes ==
    ASSUME TypeInv, NEW l \in Lambda, Disassociate(l)
    PROVE  TypeInv'
<1> USE DEF TypeInv, Disassociate, hostVars, bootVars, eipVars
<1>1. JobTypes' /\ JobInv'
    <2>0. UNCHANGED <<phase, kind, target, listed, cur, new, seen>>
        OBVIOUS
    <2>1. PICK label \in {"associate", "restart"} : Goto(l, label)
        OBVIOUS
    <2>2. pc[l] \in MidRotation /\ label \in MidRotation /\ label \in Labels
        BY DEF MidRotation, Labels
    <2> QED BY <2>0, <2>1, <2>2, GotoKeeps
<1>2. faults' \in 0..MaxFaults
    BY FaultKeeps DEF TypeOK
<1>3. blame' \in [Instance -> SUBSET Cause]
    <2>1. \A i \in Instance : blame[i] \in SUBSET Cause
        BY DEF TypeOK
    <2>2. "untagged" \in Cause /\ "crossed" \in Cause
        BY DEF Cause
    <2> QED BY <2>1, <2>2
<1>4. HostTypes'
    BY <1>1, <1>2, <1>3 DEF TypeInv, TypeOK, HostTypes
<1> QED BY <1>1, <1>4, NextTypes DEF TypeInv

LEMMA CompleteTypes ==
    ASSUME TypeInv, NEW l \in Lambda, CompleteLifecycleAction(l)
    PROVE  TypeInv'
<1> USE NoneAssumption DEF TypeInv, CompleteLifecycleAction, Terminate, hostVars, bootVars, eipVars
<1>1. JobTypes' /\ JobInv'
    <2>1. NoEip \in Association
        BY DEF NoEip, Association
    <2>2. JobTypes'
        BY <2>1 DEF TypeOK, JobTypes, Labels, End, Goto
    <2>3. Ages
        BY DEF Ages, TypeOK
    <2>4. JobInv'
        BY <2>3 DEF TypeOK, JobInv, MidRotation, End, Goto, Ages
    <2> QED BY <2>2, <2>4
<1>2. faults' \in 0..MaxFaults
    BY FaultKeeps DEF TypeOK
<1>3. HostTypes'
    BY <1>1, <1>2 DEF TypeInv, TypeOK, HostTypes
<1> QED BY <1>1, <1>3, NextTypes DEF TypeInv

LEMMA RunLateTypes ==
    ASSUME TypeInv, NEW c \in Command, RunLate(c)
    PROVE  TypeInv'
<1> USE DEF TypeInv, RunLate, bootVars, eipVars, jobVars
<1>1. JobTypes' /\ JobInv'
    BY AgeKeeps DEF Ages
<1>2. blame' \in [Instance -> SUBSET Cause]
    BY BlameKeeps DEF Cause
<1>3. hostname' \in [Instance -> Address \cup {None}]
    BY DEF TypeOK, Command
<1>4. HostTypes'
    BY <1>1, <1>2, <1>3 DEF TypeInv, TypeOK, HostTypes
<1> QED BY <1>1, <1>4, NextTypes DEF TypeInv

LEMMA Ec2Types ==
    ASSUME TypeInv, NEW i \in Instance, Ec2(i)
    PROVE  TypeInv'
<1> DEFINE Phases == {"absent", "launching", "launched", "old", "gone"}
<1>1. UNCHANGED <<jobVars, hostVars, uses, blame, calls, faults>>
    BY DEF Ec2, Launch, HookTimesOut, GrowOld, Terminate, jobVars, eipVars
<1>2. HostTypes
    BY Types DEF TypeInv
<1>3. \/ phase[i] = "absent" /\ phase' = [phase EXCEPT ![i] = "launching"]
      \/ phase[i] = "launching" /\ phase' = [phase EXCEPT ![i] = "gone"]
      \/ phase[i] = "launched" /\ phase' = [phase EXCEPT ![i] = "old"]
    BY DEF Ec2, Launch, HookTimesOut, GrowOld, Terminate
<1>4. phase \in [Instance -> Phases] /\ phase' \in [Instance -> Phases]
    BY <1>2, <1>3 DEF HostTypes
<1>5. Ages
    BY <1>3, <1>4 DEF Ages
<1>6. JobTypes' /\ JobInv'
    BY <1>1, <1>5, AgeKeeps
<1>7. owner' = owner \/ owner' = [a \in Address |-> IF owner[a] = i THEN None ELSE owner[a]]
    BY DEF Ec2, Launch, HookTimesOut, GrowOld, Terminate, eipVars
<1>8. owner' \in [Address -> Instance \cup {None}]
    BY <1>2, <1>7 DEF HostTypes
<1>9. UNCHANGED <<uses, boot, bootName, postfix, hostname, late, blame, calls, faults>>
    BY <1>1 DEF hostVars, bootVars
<1>10. HostTypes'
    BY <1>2, <1>4, <1>8, <1>9 DEF HostTypes
<1> QED BY <1>6, <1>10, NextTypes DEF TypeInv

LEMMA RecipesTypes ==
    ASSUME TypeInv, NEW i \in Instance, Recipes(i)
    PROVE  TypeInv'
<1>1. UNCHANGED <<phase, jobVars, owner, uses, late, calls, faults>>
    BY DEF Recipes, ReadName, Configure, eipVars
<1>2. JobTypes' /\ JobInv'
    BY <1>1, AgeKeeps DEF Ages
<1>3. HostTypes /\ TypeOK /\ "early" \in Cause
    BY Types DEF TypeInv, Cause
<1>4. blame' \in [Instance -> SUBSET Cause]
    <2>1. UNCHANGED blame \/ Blame(i, "early")
        BY DEF Recipes, ReadName, Configure
    <2> QED BY <1>3, <2>1, BlameKeeps DEF TypeOK
<1>5. HostTypes'
    <2>1. CASE ReadName(i)
        <3>1. boot' = [boot EXCEPT ![i] = "named"] /\ UNCHANGED <<postfix, hostname>>
            BY <2>1 DEF ReadName
        <3>2. PICK a \in Address \cup {None} : bootName' = [bootName EXCEPT ![i] = a]
            BY <2>1 DEF ReadName
        <3> QED BY <1>1, <1>3, <1>4, <3>1, <3>2 DEF HostTypes
    <2>2. CASE Configure(i)
        <3>1. /\ hostname' = [hostname EXCEPT ![i] = bootName[i]]
              /\ postfix' = [postfix EXCEPT ![i] = "running"]
              /\ boot' = [boot EXCEPT ![i] = "done"]
              /\ bootName' = [bootName EXCEPT ![i] = None]
            BY <2>2 DEF Configure
        <3> QED BY <1>1, <1>3, <1>4, <3>1 DEF HostTypes
    <2> QED BY <2>1, <2>2 DEF Recipes
<1> QED BY <1>2, <1>5, NextTypes DEF TypeInv

LEMMA TypeInit == Init => TypeInv
<1> SUFFICES ASSUME Init PROVE TypeInv
    OBVIOUS
<1> USE DEF Init
<1>1. \A i \in Instance : phase[i] = "old" => EipsOf(i) # {}
    <2> SUFFICES ASSUME NEW i \in Instance, phase[i] = "old", EipsOf(i) = {} PROVE FALSE
        OBVIOUS
    <2>1. Cardinality(EipsOf(i)) = 1
        OBVIOUS
    <2>2. Cardinality({}) = 0
        BY FS_EmptySet
    <2> QED BY <2>1, <2>2
<1>2. hostname \in [Instance -> Address \cup {None}]
    BY <1>1 DEF EipsOf
<1>3. NoEip \in Association
    BY DEF NoEip, Association
<1>4. TypeOK
    BY <1>2, <1>3, BoundAssumption DEF TypeOK
<1>5. JobInv
    BY NoneAssumption DEF JobInv, MidRotation
<1> QED BY <1>4, <1>5 DEF TypeInv

LEMMA TypeStep == TypeInv /\ [Next]_vars => TypeInv'
<1> SUFFICES ASSUME TypeInv, [Next]_vars PROVE TypeInv'
    OBVIOUS
<1>1. ASSUME NEW l \in Lambda, Work(l) PROVE TypeInv'
    BY <1>1, InvokeForLaunchTypes, InvokeForOneTypes, InvokeForAllTypes, LookUpOneTypes, NextHostTypes,
       ChooseTypes, ChooseFailsTypes, StopTypes, StopFailsTypes, DisassociateTypes,
       DisassociateFailsTypes, DisassociateNothingTypes, RestartTypes, RestartFailsTypes,
       AssociateTypes, AssociateFailsTypes, UpdateHostnameTypes, UpdateHostnameFailsTypes,
       CompleteTypes, AbortTypes DEF Work
<1>2. ASSUME NEW c \in Command, RunLate(c) PROVE TypeInv'
    BY <1>2, RunLateTypes
<1>3. ASSUME NEW i \in Instance, Ec2(i) \/ Recipes(i) PROVE TypeInv'
    BY <1>3, Ec2Types, RecipesTypes
<1>4. CASE UNCHANGED vars
    BY <1>4 DEF TypeInv, TypeOK, JobInv, vars, eipVars, hostVars, bootVars, jobVars
<1> QED BY <1>1, <1>2, <1>3, <1>4 DEF Next

-----------------------------------------------------------------------------
\* The address a is that of host i, or nobody's, as long as it is the association that
\* the invocation read; later associations have later numbers.
ReadOf(l, i, a) ==
    seen[l][a] <= uses[a] /\ (seen[l][a] = uses[a] => owner[a] \in {i, None})

\* A host has at most one address, and lives; what an invocation has read and looked up
\* is in the order of the associations.
AddressInv ==
    /\ \A a, b \in Address : owner[a] = owner[b] /\ owner[a] # None => a = b
    /\ \A a \in Address : owner[a] \in Instance => phase[owner[a]] \notin {"absent", "gone"}
    /\ \A l \in Lambda : pc[l] = "idle" => cur[l].addr = None /\ listed[l] = {}
    /\ \A l \in Lambda : \A item \in listed[l] :
        item[2] \in Address => ReadOf(l, item[1], item[2])
    /\ \A l \in Lambda :
        cur[l].addr \in Address =>
            /\ ReadOf(l, target[l], cur[l].addr)
            /\ seen[l][cur[l].addr] <= cur[l].id /\ cur[l].id <= uses[cur[l].addr]

\* What k has read and looked up is as it was, or no longer of interest.
Kept(k) ==
    /\ pc'[k] = "idle" => \/ pc[k] = "idle" /\ cur'[k] = cur[k] /\ listed'[k] = listed[k]
                          \/ cur'[k].addr = None /\ listed'[k] = {}
    /\ listed'[k] \subseteq listed[k]
    /\ listed'[k] = {} \/ seen'[k] = seen[k]
    /\ \/ cur'[k].addr \notin Address
       \/ cur'[k] = cur[k] /\ target'[k] = target[k] /\ seen'[k] = seen[k]

\* Addresses may go back to the pool, and hosts may change that have none.
LEMMA AddressFrame ==
    ASSUME TypeInv, AddressInv, UNCHANGED uses, \A k \in Lambda : Kept(k),
           \A a \in Address : owner'[a] \in {owner[a], None},
           \A a \in Address : owner'[a] \in Instance => phase'[owner'[a]] \notin {"absent", "gone"}
    PROVE  AddressInv'
<1> USE NoneAssumption
<1>1. \A a, b \in Address : owner'[a] = owner'[b] /\ owner'[a] # None => a = b
    BY DEF AddressInv
<1>2. \A l \in Lambda : pc'[l] = "idle" => cur'[l].addr = None /\ listed'[l] = {}
    BY DEF AddressInv, Kept
<1>3. ASSUME NEW l \in Lambda, NEW item \in listed'[l], item[2] \in Address
      PROVE  ReadOf(l, item[1], item[2])'
    <2>1. item \in listed[l] /\ seen'[l] = seen[l]
        BY <1>3 DEF Kept
    <2> QED BY <1>3, <2>1 DEF AddressInv, ReadOf
<1>4. ASSUME NEW l \in Lambda, cur'[l].addr \in Address
      PROVE  /\ ReadOf(l, target[l], cur[l].addr)'
             /\ seen'[l][cur'[l].addr] <= cur'[l].id /\ cur'[l].id <= uses'[cur'[l].addr]
    <2>1. cur'[l] = cur[l] /\ target'[l] = target[l] /\ seen'[l] = seen[l]
        BY <1>4 DEF Kept
    <2> QED BY <1>4, <2>1 DEF AddressInv, ReadOf
<1> QED BY <1>1, <1>2, <1>3, <1>4 DEF AddressInv

LEMMA Stays ==
    ASSUME TypeInv, AddressInv, UNCHANGED <<phase, owner>>
    PROVE  /\ \A a \in Address : owner'[a] \in {owner[a], None}
           /\ \A a \in Address : owner'[a] \in Instance => phase'[owner'[a]] \notin {"absent", "gone"}
BY DEF AddressInv

LEMMA TerminateReleases ==
    ASSUME TypeInv, AddressInv, NEW i \in Instance, Terminate(i)
    PROVE  /\ UNCHANGED uses
           /\ \A a \in Address : owner'[a] \in {owner[a], None}
           /\ \A a \in Address : owner'[a] \in Instance => phase'[owner'[a]] \notin {"absent", "gone"}
BY NoneAssumption DEF TypeInv, TypeOK, AddressInv, Terminate

LEMMA EndKept ==
    ASSUME TypeInv, NEW l \in Lambda, End(l)
    PROVE  \A k \in Lambda : Kept(k)
BY NoneAssumption DEF TypeInv, TypeOK, End, Goto, Kept, NoEip

LEMMA ReturnKept ==
    ASSUME TypeInv, NEW l \in Lambda, Return(l)
    PROVE  \A k \in Lambda : Kept(k)
<1>1. CASE End(l)
    BY <1>1, EndKept
<1>2. CASE Goto(l, "next") /\ cur' = [cur EXCEPT ![l] = NoEip] /\ target' = [target EXCEPT ![l] = None]
           /\ UNCHANGED <<listed, seen>>
    BY <1>2, NoneAssumption DEF TypeInv, TypeOK, Goto, Kept, NoEip
<1> QED BY <1>1, <1>2 DEF Return

LEMMA StayKept ==
    ASSUME TypeInv, NEW l \in Lambda, NEW label, label # "idle", Goto(l, label),
           UNCHANGED <<target, listed, cur, seen>>
    PROVE  \A k \in Lambda : Kept(k)
BY DEF TypeInv, TypeOK, Goto, Kept

LEMMA ReadsAddress ==
    ASSUME TypeInv, AddressInv, NEW l \in Lambda, NEW k, Invoke(l, k, "next"),
           NEW items \in SUBSET (Instance \X (Address \cup {None})), Reads(l, items),
           \A item \in items : IsListed(item[1], item[2])
    PROVE  AddressInv'
<1> USE NoneAssumption DEF Invoke, Reads, Goto, eipVars
<1>1. \A a, b \in Address : owner'[a] = owner'[b] /\ owner'[a] # None => a = b
    BY DEF AddressInv
<1>2. \A a \in Address : owner'[a] \in Instance => phase'[owner'[a]] \notin {"absent", "gone"}
    BY DEF AddressInv
<1>3. pc[l] = "idle" /\ cur[l].addr = None
    BY DEF AddressInv
<1>4. \A h \in Lambda : pc'[h] = "idle" => cur'[h].addr = None /\ listed'[h] = {}
    BY DEF AddressInv, TypeInv, TypeOK
<1>5. \A h \in Lambda : cur'[h] = cur[h] /\ target'[h] = target[h]
        /\ (h # l => seen'[h] = seen[h] /\ listed'[h] = listed[h])
    BY DEF TypeInv, TypeOK
<1>6. ASSUME NEW h \in Lambda, NEW item \in listed'[h], item[2] \in Address
      PROVE  ReadOf(h, item[1], item[2])'
    <2>1. CASE h # l
        BY <1>5, <1>6, <2>1 DEF AddressInv, ReadOf
    <2>2. CASE h = l
        <3>1. item \in items /\ seen'[l] = uses
            BY <1>6, <2>2 DEF TypeInv, TypeOK
        <3>2. owner[item[2]] = item[1]
            BY <1>6, <3>1 DEF IsListed, EipsOf
        <3> QED BY <1>6, <2>2, <3>1, <3>2 DEF ReadOf, TypeInv, TypeOK
    <2> QED BY <2>1, <2>2
<1>7. ASSUME NEW h \in Lambda, cur'[h].addr \in Address
      PROVE  /\ ReadOf(h, target[h], cur[h].addr)'
             /\ seen'[h][cur'[h].addr] <= cur'[h].id /\ cur'[h].id <= uses'[cur'[h].addr]
    <2>1. h # l
        BY <1>3, <1>5, <1>7
    <2> QED BY <1>5, <1>7, <2>1 DEF AddressInv, ReadOf
<1> QED BY <1>1, <1>2, <1>4, <1>6, <1>7 DEF AddressInv

LEMMA TakesAddress ==
    ASSUME TypeInv, AddressInv, UNCHANGED <<phase, owner, uses>>, NEW l \in Lambda,
           NEW item \in listed[l], NEW answer \in {NoEip, Known(item[2])}, Takes(l, item, answer)
    PROVE  AddressInv'
<1> USE NoneAssumption DEF Takes, Goto
<1>1. \A a, b \in Address : owner'[a] = owner'[b] /\ owner'[a] # None => a = b
    BY DEF AddressInv
<1>2. \A a \in Address : owner'[a] \in Instance => phase'[owner'[a]] \notin {"absent", "gone"}
    BY DEF AddressInv
<1>3. \A h \in Lambda : /\ h # l => /\ pc'[h] = pc[h] /\ cur'[h] = cur[h]
                                     /\ target'[h] = target[h] /\ listed'[h] = listed[h]
                        /\ listed'[h] \subseteq listed[h] /\ seen'[h] = seen[h]
    BY DEF TypeInv, TypeOK
<1>4. pc'[l] = "choose" /\ cur'[l] = answer /\ target'[l] = item[1]
    BY DEF TypeInv, TypeOK
<1>5. \A h \in Lambda : pc'[h] = "idle" => cur'[h].addr = None /\ listed'[h] = {}
    BY <1>3, <1>4 DEF AddressInv
<1>6. \A h \in Lambda : \A it \in listed'[h] : it[2] \in Address => ReadOf(h, it[1], it[2])'
    BY <1>3 DEF AddressInv, ReadOf
<1>7. ASSUME NEW h \in Lambda, cur'[h].addr \in Address
      PROVE  /\ ReadOf(h, target[h], cur[h].addr)'
             /\ seen'[h][cur'[h].addr] <= cur'[h].id /\ cur'[h].id <= uses'[cur'[h].addr]
    <2>1. CASE h # l
        BY <1>3, <1>7, <2>1 DEF AddressInv, ReadOf
    <2>2. CASE h = l
        <3>1. item[2] \in Address \cup {None}
            BY DEF TypeInv, TypeOK
        <3>2. answer = [addr |-> item[2], id |-> uses[item[2]]] /\ item[2] \in Address
            BY <1>4, <1>7, <2>2, <3>1 DEF NoEip, Known
        <3>3. ReadOf(l, item[1], item[2])
            BY <3>2 DEF AddressInv
        <3>4. cur'[l].addr = item[2] /\ cur'[l].id = uses[item[2]] /\ uses[item[2]] \in Nat
            BY <1>4, <3>2 DEF TypeInv, TypeOK
        <3> QED BY <1>3, <1>4, <2>2, <3>2, <3>3, <3>4 DEF ReadOf
    <2> QED BY <2>1, <2>2
<1> QED BY <1>1, <1>2, <1>5, <1>6, <1>7 DEF AddressInv

\* An association gives the address a new number, which no invocation has read.
LEMMA AssociatedAddress ==
    ASSUME TypeInv, AddressInv, UNCHANGED phase, NEW l \in Lambda,
           pc[l] \in {"attach", "associate"}, CanAssociate(l), Associated(l),
           \A k \in Lambda : Kept(k)
    PROVE  AddressInv'
<1> USE NoneAssumption
<1>1. /\ new[l] \in Address /\ target[l] \in Instance
      /\ owner' = [owner EXCEPT ![new[l]] = target[l]]
      /\ uses' = [uses EXCEPT ![new[l]] = @ + 1]
      /\ owner \in [Address -> Instance \cup {None}] /\ uses \in [Address -> Nat]
    BY DEF Associated, TypeInv, TypeOK, JobInv, MidRotation
<1>2. owner[new[l]] = None /\ (\A a \in Address : owner[a] # target[l])
        /\ phase[target[l]] \notin {"absent", "gone"}
    BY DEF CanAssociate, EipsOf, TypeInv, JobInv, MidRotation
<1>3. \A a, b \in Address : owner'[a] = owner'[b] /\ owner'[a] # None => a = b
    BY <1>1, <1>2 DEF AddressInv
<1>4. \A a \in Address : owner'[a] \in Instance => phase'[owner'[a]] \notin {"absent", "gone"}
    BY <1>1, <1>2 DEF AddressInv
<1>5. \A k \in Lambda : pc'[k] = "idle" => cur'[k].addr = None /\ listed'[k] = {}
    BY DEF AddressInv, Kept
<1>6. ASSUME NEW k \in Lambda, NEW i, NEW a \in Address, ReadOf(k, i, a)
      PROVE  seen[k][a] <= uses'[a] /\ (seen[k][a] = uses'[a] => owner'[a] \in {i, None})
    <2>1. seen[k][a] \in Nat /\ uses[a] \in Nat
        BY DEF TypeInv, TypeOK
    <2>2. CASE a = new[l]
        BY <1>1, <1>6, <2>1, <2>2 DEF ReadOf
    <2>3. CASE a # new[l]
        BY <1>1, <1>6, <2>1, <2>3 DEF ReadOf
    <2> QED BY <2>2, <2>3
<1>7. \A k \in Lambda : \A item \in listed'[k] :
        item[2] \in Address => ReadOf(k, item[1], item[2])'
    <2> SUFFICES ASSUME NEW k \in Lambda, NEW item \in listed'[k], item[2] \in Address
                 PROVE  ReadOf(k, item[1], item[2])'
        OBVIOUS
    <2>1. item \in listed[k] /\ seen'[k] = seen[k]
        BY DEF Kept
    <2>2. ReadOf(k, item[1], item[2])
        BY <2>1 DEF AddressInv
    <2> QED BY <1>6, <2>1, <2>2 DEF ReadOf
<1>8. ASSUME NEW k \in Lambda, cur'[k].addr \in Address
      PROVE  /\ ReadOf(k, target[k], cur[k].addr)'
             /\ seen'[k][cur'[k].addr] <= cur'[k].id /\ cur'[k].id <= uses'[cur'[k].addr]
    <2>1. cur'[k] = cur[k] /\ target'[k] = target[k] /\ seen'[k] = seen[k]
        BY <1>8 DEF Kept
    <2>2. /\ ReadOf(k, target[k], cur[k].addr)
          /\ seen[k][cur[k].addr] <= cur[k].id /\ cur[k].id <= uses[cur[k].addr]
        BY <1>8, <2>1 DEF AddressInv
    <2>3. cur[k].id \in Nat /\ uses[cur[k].addr] \in Nat /\ uses[cur[k].addr] <= uses'[cur[k].addr]
        BY <1>1, <1>8, <2>1 DEF TypeInv, TypeOK, Association
    <2>4. cur[k].id <= uses'[cur[k].addr]
        <3>1. uses'[cur[k].addr] \in Nat
            BY <1>1, <1>8, <2>1
        <3> QED BY <2>2, <2>3, <3>1
    <2> QED BY <1>6, <1>8, <2>1, <2>2, <2>4 DEF ReadOf
<1> QED BY <1>3, <1>4, <1>5, <1>7, <1>8 DEF AddressInv

LEMMA AddressStep ==
    ASSUME TypeInv, AddressInv, NEW l \in Lambda, Work(l)
    PROVE  AddressInv'
<1> USE DEF hostVars, bootVars, eipVars
<1>1. CASE InvokeForLaunch(l)
    <2>1. cur[l].addr \notin Address /\ pc'[l] = "choose"
        BY <1>1, NoneAssumption DEF InvokeForLaunch, Invoke, Goto, AddressInv, TypeInv, TypeOK
    <2>2. \A k \in Lambda : Kept(k)
        BY <1>1, <2>1 DEF InvokeForLaunch, Invoke, Goto, Kept, TypeInv, TypeOK
    <2>3. UNCHANGED <<phase, owner, uses>>
        BY <1>1 DEF InvokeForLaunch, Invoke
    <2> QED BY <2>2, <2>3, Stays, AddressFrame
<1>2. CASE InvokeForOne(l)
    <2>1. PICK i \in Instance, a \in Address \cup {None} : IsListed(i, a) /\ Reads(l, {<<i, a>>})
        BY <1>2 DEF InvokeForOne
    <2>2. {<<i, a>>} \in SUBSET (Instance \X (Address \cup {None}))
            /\ \A item \in {<<i, a>>} : IsListed(item[1], item[2])
        BY <2>1
    <2>3. Invoke(l, "single", "next")
        BY <1>2 DEF InvokeForOne
    <2> QED BY <2>1, <2>2, <2>3, ReadsAddress
<1>3. CASE InvokeForAll(l)
    <2> DEFINE L == {item \in Instance \X (Address \cup {None}) : IsListed(item[1], item[2])}
    <2>1. L \in SUBSET (Instance \X (Address \cup {None})) /\ Reads(l, L)
            /\ Invoke(l, "all", "next")
        BY <1>3 DEF InvokeForAll
    <2>2. \A item \in L : IsListed(item[1], item[2])
        OBVIOUS
    <2> HIDE DEF L
    <2> QED BY <2>1, <2>2, ReadsAddress
<1>4. CASE LookUpOne(l) \/ NextHost(l)
    <2>1. UNCHANGED <<phase, owner, uses>> /\ pc[l] = "next"
        BY <1>4 DEF LookUpOne, NextHost
    <2>2. CASE End(l)
        BY <2>1, <2>2, EndKept, Stays, AddressFrame
    <2>3. ASSUME NEW item \in listed[l], Skips(l, item) PROVE AddressInv'
        <3>1. \A k \in Lambda : Kept(k)
            BY <2>1, <2>3 DEF Skips, Kept, TypeInv, TypeOK
        <3> QED BY <2>1, <3>1, Stays, AddressFrame
    <2>4. ASSUME NEW item \in listed[l], NEW answer \in {NoEip, Known(item[2])},
                 Takes(l, item, answer)
          PROVE  AddressInv'
        BY <2>1, <2>4, TakesAddress
    <2>5. \/ End(l)
          \/ \E item \in listed[l] : Skips(l, item)
          \/ \E item \in listed[l] : \E answer \in {NoEip, Known(item[2])} : Takes(l, item, answer)
        BY <1>4 DEF LookUpOne, NextHost, Raises
    <2> QED BY <2>2, <2>3, <2>4, <2>5
<1>5. CASE Choose(l) \/ Stop(l) \/ DisassociateFails(l)
    <2>1. UNCHANGED <<phase, owner, uses, target, listed, cur, seen>>
        BY <1>5 DEF Choose, Stop, DisassociateFails, ToRestart
    <2>2. \E label \in {"attach", "stop", "disassociate", "restart"} : Goto(l, label)
        BY <1>5 DEF Choose, Stop, DisassociateFails, ToRestart
    <2> QED BY <2>1, <2>2, StayKept, Stays, AddressFrame
<1>6. CASE \/ ChooseFails(l) \/ StopFails(l) \/ DisassociateNothing(l) \/ Restart(l) \/ RestartFails(l)
           \/ UpdateHostname(l) \/ UpdateHostnameFails(l) \/ Abort(l)
    <2>1. UNCHANGED <<phase, owner, uses>>
        BY <1>6 DEF ChooseFails, StopFails, DisassociateNothing, Restart, RestartFails,
                    UpdateHostname, UpdateHostnameFails, Abort
    <2>2. \/ End(l) \/ Return(l)
          \/ Goto(l, "abandon") /\ UNCHANGED <<target, listed, cur, seen>>
        BY <1>6 DEF ChooseFails, StopFails, DisassociateNothing, Restart, RestartFails,
                    UpdateHostname, UpdateHostnameFails, Abort
    <2>3. \A k \in Lambda : Kept(k)
        BY <2>2, EndKept, ReturnKept, StayKept
    <2> QED BY <2>1, <2>3, Stays, AddressFrame
<1>7. CASE Disassociate(l)
    <2>1. PICK label \in {"associate", "restart"} : Goto(l, label)
        BY <1>7 DEF Disassociate
    <2>2. UNCHANGED <<phase, uses, target, listed, cur, seen>>
        BY <1>7 DEF Disassociate
    <2>3. \A a \in Address : owner'[a] \in {owner[a], None}
        BY <1>7 DEF Disassociate, TypeInv, TypeOK
    <2>4. \A a \in Address : owner'[a] \in Instance => phase'[owner'[a]] \notin {"absent", "gone"}
        BY <2>2, <2>3, NoneAssumption DEF AddressInv
    <2> QED BY <2>1, <2>2, <2>3, <2>4, StayKept, AddressFrame
<1>8. CASE Associate(l) \/ AssociateFails(l)
    <2>1. UNCHANGED phase /\ pc[l] \in {"attach", "associate"}
        BY <1>8 DEF Associate, AssociateFails
    <2>2. UNCHANGED <<owner, uses>> \/ (CanAssociate(l) /\ Associated(l))
        BY <1>8 DEF Associate, AssociateFails
    <2>3. \/ Return(l)
          \/ /\ \E label \in {"continue", "hostname", "abandon"} : Goto(l, label)
             /\ UNCHANGED <<target, listed, cur, seen>>
        BY <1>8 DEF Associate, AssociateFails
    <2>4. \A k \in Lambda : Kept(k)
        BY <2>3, ReturnKept, StayKept
    <2> QED BY <2>1, <2>2, <2>4, Stays, AddressFrame, AssociatedAddress
<1>9. CASE CompleteLifecycleAction(l)
    <2>1. (\A k \in Lambda : Kept(k)) /\ target[l] \in Instance
        BY <1>9, EndKept DEF CompleteLifecycleAction, TypeInv, JobInv
    <2>2. CASE UNCHANGED <<phase, owner, uses>>
        BY <2>1, <2>2, Stays, AddressFrame
    <2>3. CASE phase' = [phase EXCEPT ![target[l]] = "launched"] /\ UNCHANGED <<owner, uses>>
        <3>1. \A a \in Address : owner'[a] \in {owner[a], None}
            BY <2>3
        <3>2. \A a \in Address : owner'[a] \in Instance => phase'[owner'[a]] \notin {"absent", "gone"}
            BY <2>3 DEF AddressInv, TypeInv, TypeOK
        <3> QED BY <2>1, <2>3, <3>1, <3>2, AddressFrame
    <2>4. CASE Terminate(target[l])
        BY <2>1, <2>4, TerminateReleases, AddressFrame
    <2> QED BY <1>9, <2>2, <2>3, <2>4 DEF CompleteLifecycleAction
<1> QED BY <1>1, <1>2, <1>3, <1>4, <1>5, <1>6, <1>7, <1>8, <1>9 DEF Work

LEMMA AddressOthers ==
    ASSUME TypeInv, AddressInv,
           \/ \E c \in Command : RunLate(c)
           \/ \E i \in Instance : Ec2(i) \/ Recipes(i)
           \/ UNCHANGED vars
    PROVE  AddressInv'
<1>1. UNCHANGED <<jobVars, uses>>
    BY DEF RunLate, Ec2, Launch, HookTimesOut, Terminate, GrowOld, Recipes, ReadName, Configure,
           vars, eipVars
<1>2. \A k \in Lambda : Kept(k)
    BY <1>1 DEF jobVars, Kept
<1>3. CASE UNCHANGED <<phase, owner>>
    BY <1>1, <1>2, <1>3, Stays, AddressFrame
<1>4. ASSUME NEW i \in Instance, Launch(i) \/ GrowOld(i) PROVE AddressInv'
    <2>1. \A a \in Address : owner'[a] \in {owner[a], None}
        BY <1>4 DEF Launch, GrowOld, eipVars
    <2>2. \A a \in Address : owner'[a] \in Instance => phase'[owner'[a]] \notin {"absent", "gone"}
        BY <1>4 DEF Launch, GrowOld, eipVars, AddressInv, TypeInv, TypeOK
    <2> QED BY <1>1, <1>2, <2>1, <2>2, AddressFrame
<1>5. ASSUME NEW i \in Instance, HookTimesOut(i) PROVE AddressInv'
    <2>1. Terminate(i)
        BY <1>5 DEF HookTimesOut
    <2> QED BY <1>2, <2>1, TerminateReleases, AddressFrame
<1> QED BY <1>3, <1>4, <1>5 DEF Ec2, Recipes, RunLate, ReadName, Configure, vars, eipVars

-----------------------------------------------------------------------------
\* The invariant of a host: what is wrong with it has a cause in blame.
HasEip(i) == \E a \in Address : owner[a] = i

Lacks(i) ==
    \/ "untagged" \in blame[i] \/ "crossed" \in blame[i] \/ "stale" \in blame[i]
    \/ "late" \in blame[i] \/ "early" \in blame[i]

Misnamed(i) ==
    \/ "stale" \in blame[i] \/ "hostname" \in blame[i] \/ "associate" \in blame[i]
    \/ "aborted" \in blame[i] \/ "postconf" \in blame[i] \/ "early" \in blame[i]

Halted(i) ==
    \/ "late" \in blame[i] \/ "aborted" \in blame[i] \/ "no address" \in blame[i]
    \/ "restart" \in blame[i] \/ "associate" \in blame[i] \/ "hostname" \in blame[i]

\* A host has its address, is about to get one, or has lost it with a cause.
Housed(i) ==
    \/ HasEip(i)
    \/ \E l \in Lambda : target[l] = i /\ pc[l] = "associate"
    \/ "untagged" \in blame[i] \/ "crossed" \in blame[i]
    \/ "associate" \in blame[i] \/ "aborted" \in blame[i]

\* The recipes have set Postfix up, perhaps before the launch hook is through.
Up(i) == boot[i] = "done" /\ phase[i] # "gone"

\* Two rotations of one host know of each other by its blame; Postfix is stopped while
\* a rotation goes on, and has an address when the rotation is about to start it.
Health(i) ==
    /\ \A l, k \in Lambda : l # k /\ Rotating(l, i) /\ Rotating(k, i) => "stale" \in blame[i]
    /\ \A l \in Lambda : Rotating(l, i) => postfix[i] = "stopped" \/ Lacks(i)
    /\ \A l \in Lambda :
        Rotating(l, i) /\ pc[l] \in {"restart", "hostname"} /\ phase[i] # "gone" =>
            HasEip(i) \/ Lacks(i)
    /\ \A l \in Lambda :
        target[l] = i /\ pc[l] = "continue" /\ phase[i] = "launching" => Housed(i)
    /\ phase[i] = "launched" => Housed(i)
    /\ Up(i) /\ ~Rotated(i) =>
        IF postfix[i] = "stopped" THEN Halted(i) ELSE HasEip(i) \/ Lacks(i)

\* The name of a host is that of its address, or will be when the rotation ends.
Named(i) ==
    /\ \A l \in Lambda :
        target[l] = i /\ pc[l] = "hostname" /\ Up(i) /\ ~Misnamed(i) =>
            \A a \in Address : owner[a] = i => a = new[l]
    /\ \A c \in late : c.inst = i /\ c.cmd = "hostname" => "hostname" \in blame[i]
    /\ Up(i) /\ ~Misnamed(i) /\ (\A l \in Lambda : ~(target[l] = i /\ pc[l] = "hostname")) =>
        \A a \in Address : owner[a] = i => a = hostname[i]

Fit(i) == Health(i) /\ Named(i)

IInv == TypeInv /\ AddressInv /\ \A i \in Instance : Fit(i)

\* What a step leaves alone.
Busy(l, i) == target[l] = i /\ pc[l] \in MidRotation \cup {"continue"}

Quiet(l, i) ==
    Busy(l, i) \/ Busy(l, i)' => pc'[l] = pc[l] /\ target'[l] = target[l] /\ new'[l] = new[l]

Same(i) ==
    /\ phase'[i] = phase[i] /\ boot'[i] = boot[i] /\ postfix'[i] = postfix[i] /\ hostname'[i] = hostname[i]
    /\ blame'[i] = blame[i]
    /\ \A a \in Address : owner'[a] = i <=> owner[a] = i
    /\ \A c \in late' : c.inst = i /\ c.cmd = "hostname" => c \in late

LEMMA FitFrame ==
    ASSUME NEW i \in Instance, Fit(i), Same(i), \A l \in Lambda : Quiet(l, i)
    PROVE  Fit(i)'
<1> USE DEF Same
<1>1. \A l \in Lambda :
        /\ Rotating(l, i)' <=> Rotating(l, i)
        /\ Rotating(l, i) => pc'[l] = pc[l] /\ new'[l] = new[l]
        /\ target'[l] = i /\ pc'[l] = "continue" <=> target[l] = i /\ pc[l] = "continue"
        /\ target'[l] = i /\ pc'[l] = "hostname" <=> target[l] = i /\ pc[l] = "hostname"
        /\ target'[l] = i /\ pc'[l] = "associate" <=> target[l] = i /\ pc[l] = "associate"
    BY DEF Quiet, Busy, Rotating, MidRotation
<1>2. /\ HasEip(i)' <=> HasEip(i)
      /\ Lacks(i)' <=> Lacks(i)
      /\ Misnamed(i)' <=> Misnamed(i)
      /\ Halted(i)' <=> Halted(i)
      /\ Up(i)' <=> Up(i)
      /\ Housed(i)' <=> Housed(i)
      /\ Rotated(i)' <=> Rotated(i)
    BY <1>1 DEF HasEip, Lacks, Misnamed, Halted, Up, Housed, Rotated
<1>3. Health(i)'
    BY <1>1, <1>2 DEF Fit, Health
<1>4. Named(i)'
    BY <1>1, <1>2 DEF Fit, Named, Rotating, MidRotation
<1> QED BY <1>3, <1>4 DEF Fit

\* Steps before a rotation has stopped Postfix change nothing at any host.
LEMMA QuietSteps ==
    ASSUME TypeInv, NEW l \in Lambda, NEW i \in Instance, Fit(i),
           \/ InvokeForLaunch(l) \/ InvokeForOne(l) \/ InvokeForAll(l) \/ LookUpOne(l)
           \/ NextHost(l) \/ Choose(l) \/ ChooseFails(l) \/ StopFails(l)
    PROVE  Fit(i)'
<1> USE DEF hostVars, bootVars, bootVars, eipVars
<1>1. Same(i)
    <2>1. UNCHANGED <<phase, owner, boot, postfix, hostname, blame>>
        BY DEF InvokeForLaunch, InvokeForOne, InvokeForAll, Invoke, LookUpOne, NextHost,
               Choose, ChooseFails, StopFails, GivenUp
    <2>2. late' = late \/ late' \subseteq late \cup {Ssm(l, "stop")}
        BY DEF InvokeForLaunch, InvokeForOne, InvokeForAll, Invoke, LookUpOne, NextHost,
               Choose, ChooseFails, StopFails, GivenUp
    <2> QED BY <2>1, <2>2 DEF Same, Ssm
<1>2. \A k \in Lambda : Quiet(k, i)
    <2>1. /\ pc \in [Lambda -> Labels] /\ target \in [Lambda -> Instance \cup {None}]
          /\ new \in [Lambda -> Address \cup {None}]
        BY DEF TypeInv, TypeOK, Labels
    <2>2. pc[l] \in {"idle", "next", "choose", "stop"} /\ pc'[l] \notin MidRotation \cup {"continue"}
        BY <2>1 DEF InvokeForLaunch, InvokeForOne, InvokeForAll, Invoke, LookUpOne, NextHost,
               Choose, ChooseFails, StopFails, End, Return, Goto, Reads, Takes, Skips, Raises, MidRotation
    <2>3. \A k \in Lambda \ {l} : pc'[k] = pc[k] /\ target'[k] = target[k] /\ new'[k] = new[k]
        BY <2>1 DEF InvokeForLaunch, InvokeForOne, InvokeForAll, Invoke, LookUpOne, NextHost,
               Choose, ChooseFails, StopFails, End, Return, Goto, Reads, Takes, Skips, Raises
    <2> QED BY <2>2, <2>3 DEF Quiet, Busy, MidRotation
<1> QED BY <1>1, <1>2, FitFrame

\* The other invocations do nothing in a step of l.
Alone(l) ==
    \A k \in Lambda \ {l} : pc'[k] = pc[k] /\ target'[k] = target[k] /\ new'[k] = new[k]

LEMMA OtherHost ==
    ASSUME TypeInv, NEW l \in Lambda, NEW i \in Instance, Fit(i), Same(i), Alone(l),
           target[l] # i, target'[l] # i
    PROVE  Fit(i)'
BY FitFrame DEF Alone, Quiet, Busy

LEMMA LeaveEffect ==
    ASSUME TypeInv, NEW l \in Lambda, End(l) \/ Return(l)
    PROVE  Alone(l) /\ pc'[l] \in {"idle", "next"} /\ target'[l] \notin Instance
BY NoneAssumption DEF TypeInv, TypeOK, End, Return, Goto, Alone

LEMMA StopFits ==
    ASSUME TypeInv, NEW l \in Lambda, NEW i \in Instance, Fit(i), Stop(l)
    PROVE  Fit(i)'
<1> USE DEF hostVars, bootVars, eipVars
<1>1. /\ pc[l] = "stop" /\ pc'[l] = "disassociate" /\ target' = target /\ Alone(l)
      /\ UNCHANGED <<phase, owner, boot, hostname, late>>
    BY DEF Stop, Goto, TypeInv, TypeOK, Alone
<1>2. CASE i # target[l]
    <2>1. Same(i)
        BY <1>1, <1>2 DEF Stop, Same, Blame, TypeInv, TypeOK
    <2> QED BY <1>1, <1>2, <2>1, OtherHost
<1>3. CASE i = target[l]
    <2>1. /\ postfix'[i] = "stopped"
          /\ blame[i] \subseteq blame'[i]
          /\ RotatedByAnother(l) => "stale" \in blame'[i]
          /\ ~RotatedByAnother(l) => blame' = blame
        BY <1>3 DEF Stop, Blame, TypeInv, TypeOK
    <2>2. \A k \in Lambda : k # l => (Rotating(k, i)' <=> Rotating(k, i)) /\ pc'[k] = pc[k]
                                        /\ new'[k] = new[k]
        BY <1>1 DEF Alone, Rotating
    <2>3. Rotating(l, i)' /\ Rotated(i)'
        BY <1>1, <1>3 DEF Rotating, Rotated, MidRotation
    <2>4. Health(i)'
        BY <1>1, <1>3, <2>1, <2>2, <2>3
           DEF Fit, Health, HasEip, Lacks, Halted, Up, Housed, RotatedByAnother, Rotating
    <2>5. Named(i)'
        BY <1>1, <1>3, <2>1, <2>2 DEF Fit, Named, Misnamed, Up, Alone
    <2> QED BY <2>4, <2>5 DEF Fit
<1> QED BY <1>2, <1>3

\* A rotation that ends without starting Postfix leaves its cause behind.
LEMMA LeaveFits ==
    ASSUME TypeInv, NEW l \in Lambda, NEW i \in Instance, Fit(i), target[l] = i,
           pc[l] \in MidRotation, Alone(l), pc'[l] \in {"idle", "next"}, target'[l] \notin Instance,
           UNCHANGED <<phase, boot, postfix>>, HasEip(i) => HasEip(i)',
           blame[i] \subseteq blame'[i], Halted(i)',
           pc[l] = "associate" => "associate" \in blame'[i] \/ "aborted" \in blame'[i],
           Misnamed(i)' \/ (UNCHANGED <<owner, hostname>> /\ pc[l] # "hostname"),
           \A c \in late' : c.inst = i /\ c.cmd = "hostname" => c \in late \/ "hostname" \in blame'[i]
    PROVE  Fit(i)'
<1>1. \A k \in Lambda : k # l => (Rotating(k, i)' <=> Rotating(k, i)) /\ pc'[k] = pc[k]
                                    /\ new'[k] = new[k] /\ target'[k] = target[k]
    BY DEF Alone, Rotating
<1>2. Rotating(l, i) /\ ~Rotating(l, i)'
    BY DEF Rotating
<1>3. (Lacks(i) => Lacks(i)') /\ (Housed(i) => Housed(i)') /\ (Up(i)' <=> Up(i))
    BY <1>1 DEF Lacks, Housed, Up
<1>4. Health(i)'
    BY <1>1, <1>2, <1>3 DEF Fit, Health, Rotated
<1>5. Named(i)'
    BY <1>1, <1>2, <1>3 DEF Fit, Named, Misnamed
<1> QED BY <1>4, <1>5 DEF Fit

\* An association for one host leaves the others theirs.
LEMMA AssociatedElsewhere ==
    ASSUME TypeInv, NEW l \in Lambda, pc[l] \in {"attach", "associate"}, CanAssociate(l),
           Associated(l), NEW i \in Instance
    PROVE  /\ i # target[l] => \A a \in Address : owner'[a] = i <=> owner[a] = i
           /\ i = target[l] => HasEip(i)' /\ \A a \in Address : owner'[a] = i => a = new[l]
<1>1. /\ target[l] \in Instance /\ new[l] \in Address
      /\ owner \in [Address -> Instance \cup {None}]
      /\ owner[new[l]] = None /\ owner' = [owner EXCEPT ![new[l]] = target[l]]
      /\ \A a \in Address : owner[a] # target[l]
    BY DEF CanAssociate, Associated, EipsOf, TypeInv, TypeOK, JobInv, MidRotation
<1> QED BY <1>1, NoneAssumption DEF HasEip

LEMMA FailuresFit ==
    ASSUME TypeInv, NEW l \in Lambda, NEW i \in Instance, Fit(i),
           \/ DisassociateNothing(l) \/ RestartFails(l) \/ UpdateHostnameFails(l)
           \/ AssociateFails(l) /\ pc[l] = "associate"
           \/ Abort(l) /\ pc[l] \in MidRotation
    PROVE  Fit(i)'
<1> USE DEF hostVars, bootVars, eipVars
<1>1. /\ pc[l] \in MidRotation /\ target[l] \in Instance
      /\ Alone(l) /\ pc'[l] \in {"idle", "next"} /\ target'[l] \notin Instance
      /\ UNCHANGED <<phase, boot, postfix>>
    <2>1. End(l) \/ Return(l)
        BY DEF DisassociateNothing, RestartFails, UpdateHostnameFails, AssociateFails, Abort
    <2>2. pc[l] \in MidRotation
        BY DEF DisassociateNothing, RestartFails, UpdateHostnameFails, MidRotation
    <2>3. UNCHANGED <<phase, boot, postfix>>
        BY DEF DisassociateNothing, RestartFails, UpdateHostnameFails, AssociateFails, Abort, GivenUp
    <2>4. target[l] \in Instance
        BY <2>2 DEF TypeInv, JobInv, MidRotation
    <2> QED BY <2>1, <2>2, <2>3, <2>4, LeaveEffect
<1>2. PICK cause \in {"no address", "restart", "hostname", "associate", "aborted"} :
        /\ Blame(target[l], cause)
        /\ pc[l] = "hostname" => cause \in {"hostname", "aborted"}
        /\ pc[l] = "associate" => cause \in {"associate", "aborted"}
        /\ \/ late' = late \/ late' = late \cup {Ssm(l, "start")}
           \/ cause = "hostname" /\ late' = late \cup {Ssm(l, "hostname")}
        /\ \/ hostname' = hostname
           \/ cause = "hostname" /\ hostname' = [hostname EXCEPT ![target[l]] = NewName(l)]
        /\ \/ owner' = owner
           \/ cause = "associate" /\ pc[l] = "associate" /\ CanAssociate(l) /\ Associated(l)
    BY DEF DisassociateNothing, RestartFails, UpdateHostnameFails, AssociateFails, Abort, GivenUp
<1>3. blame' = [blame EXCEPT ![target[l]] = @ \cup {cause}] /\ blame \in [Instance -> SUBSET Cause]
    BY <1>2 DEF Blame, TypeInv, TypeOK
<1>4. Ssm(l, "start").cmd = "start" /\ Ssm(l, "hostname").inst = target[l]
    BY DEF Ssm
<1>5. \A c \in late' : c \in late \/ c.cmd = "start" \/ (c.inst = target[l] /\ cause = "hostname")
    BY <1>2, <1>4
<1>6. CASE i # target[l]
    <2>1. blame'[i] = blame[i] /\ hostname'[i] = hostname[i]
        BY <1>2, <1>3, <1>6 DEF TypeInv, TypeOK
    <2>2. \A a \in Address : owner'[a] = i <=> owner[a] = i
        BY <1>2, <1>6, AssociatedElsewhere
    <2>3. Same(i)
        BY <1>1, <1>6, <1>5, <2>1, <2>2 DEF Same
    <2> QED BY <1>1, <1>6, <2>3, OtherHost
<1>7. CASE i = target[l]
    <2>1. blame'[i] = blame[i] \cup {cause}
        BY <1>1, <1>3, <1>7
    <2>2. Halted(i)' /\ (cause \in {"hostname", "associate", "aborted"} => Misnamed(i)')
        BY <1>2, <2>1 DEF Halted, Misnamed
    <2>3. \A c \in late' : c.inst = i /\ c.cmd = "hostname" => c \in late \/ "hostname" \in blame'[i]
        BY <1>5, <2>1
    <2>4. HasEip(i) => HasEip(i)'
        BY <1>2, <1>7, AssociatedElsewhere DEF HasEip
    <2>5. Misnamed(i)' \/ (UNCHANGED <<owner, hostname>> /\ pc[l] # "hostname")
        BY <1>2, <2>2
    <2>6. pc[l] = "associate" => "associate" \in blame'[i] \/ "aborted" \in blame'[i]
        BY <1>2, <2>1
    <2> QED BY <1>1, <1>7, <2>1, <2>2, <2>3, <2>4, <2>5, <2>6, LeaveFits
<1> QED BY <1>6, <1>7

\* An invocation that has not stopped Postfix ends.
LEMMA EarlyEndFits ==
    ASSUME TypeInv, NEW l \in Lambda, NEW i \in Instance, Fit(i), Abort(l), pc[l] \notin MidRotation
    PROVE  Fit(i)'
<1> USE DEF hostVars, bootVars, eipVars
<1>1. Alone(l) /\ pc'[l] \in {"idle", "next"}
    BY LeaveEffect DEF Abort
<1>2. UNCHANGED <<phase, owner, boot, postfix, hostname, late, blame>>
    BY DEF Abort
<1>3. \A k \in Lambda : k # l => (Rotating(k, i)' <=> Rotating(k, i)) /\ pc'[k] = pc[k]
                                    /\ new'[k] = new[k] /\ target'[k] = target[k]
    BY <1>1 DEF Alone, Rotating
<1>4. ~Rotating(l, i) /\ ~Rotating(l, i)'
    BY <1>1 DEF Rotating, MidRotation
<1>5. Health(i)'
    BY <1>1, <1>2, <1>3, <1>4 DEF Fit, Health, HasEip, Lacks, Halted, Up, Housed, Rotated, MidRotation
<1>6. Named(i)'
    BY <1>1, <1>2, <1>3 DEF Fit, Named, Misnamed, Up, MidRotation
<1> QED BY <1>5, <1>6 DEF Fit

\* The launch hook's association, with an answer or without; one that comes late for the
\* host's recipes or its hook says so.
LEMMA AttachFits ==
    ASSUME TypeInv, NEW l \in Lambda, NEW i \in Instance, Fit(i), pc[l] = "attach",
           Associate(l) \/ AssociateFails(l)
    PROVE  Fit(i)'
<1> USE DEF hostVars, bootVars, eipVars
<1>1. /\ target[l] \in Instance /\ Alone(l) /\ pc'[l] \in {"continue", "abandon"}
      /\ UNCHANGED <<phase, boot, postfix, hostname, late, target, new>>
      /\ blame' = [blame EXCEPT ![target[l]] = @ \cup Overtaken(l)]
    BY DEF Associate, AssociateFails, Goto, TypeInv, TypeOK, JobInv, Alone
<1>2. \/ pc'[l] = "abandon" /\ owner' = owner
      \/ CanAssociate(l) /\ Associated(l)
    BY DEF Associate, AssociateFails, Goto, TypeInv, TypeOK
<1>3. \A k \in Lambda : /\ Rotating(k, i)' <=> Rotating(k, i)
                        /\ k # l => pc'[k] = pc[k]
    BY <1>1 DEF Alone, Rotating, MidRotation
<1>4. CASE i # target[l]
    <2>1. blame'[i] = blame[i] /\ \A a \in Address : owner'[a] = i <=> owner[a] = i
        BY <1>1, <1>2, <1>4, AssociatedElsewhere DEF TypeInv, TypeOK
    <2>2. Same(i)
        BY <1>1, <2>1 DEF Same
    <2> QED BY <1>1, <1>4, <2>2, OtherHost
<1>5. CASE i = target[l]
    <2>1. blame[i] \subseteq blame'[i] /\ (Up(i) => Misnamed(i)' \/ Overtaken(l) = {})
            /\ (Up(i) => Overtaken(l) # {})
        BY <1>1, <1>5 DEF Overtaken, Up, Misnamed, TypeInv, TypeOK
    <2>2. /\ HasEip(i) => HasEip(i)'
          /\ HasEip(i)' \/ pc'[l] = "abandon"
        BY <1>2, <1>5, AssociatedElsewhere DEF HasEip
    <2>3. (Lacks(i) => Lacks(i)') /\ (Halted(i) => Halted(i)') /\ (Rotated(i)' <=> Rotated(i))
            /\ (Up(i)' <=> Up(i)) /\ (Housed(i) => Housed(i)')
        BY <1>1, <1>3, <2>1, <2>2 DEF Lacks, Halted, Rotated, Up, Housed
    <2>4. HasEip(i)' => Housed(i)'
        BY DEF Housed
    <2>5. Health(i)'
        BY <1>1, <1>3, <1>5, <2>1, <2>2, <2>3, <2>4 DEF Fit, Health
    <2>6. Named(i)'
        BY <1>1, <2>1, <2>3 DEF Fit, Named
    <2> QED BY <2>5, <2>6 DEF Fit
<1> QED BY <1>4, <1>5

LEMMA RestartFits ==
    ASSUME TypeInv, NEW l \in Lambda, NEW i \in Instance, Fit(i), Restart(l)
    PROVE  Fit(i)'
<1> USE DEF hostVars, bootVars, eipVars
<1>1. /\ pc[l] = "restart" /\ phase[target[l]] # "gone" /\ Alone(l) /\ pc'[l] \in {"idle", "next"} /\ target'[l] \notin Instance
      /\ UNCHANGED <<phase, owner, boot, hostname, late, blame>>
      /\ postfix' = [postfix EXCEPT ![target[l]] = "running"]
      /\ postfix \in [Instance -> {"stopped", "running"}]
    BY LeaveEffect DEF Restart, TypeInv, TypeOK
<1>2. CASE i # target[l]
    <2>1. Same(i)
        BY <1>1, <1>2 DEF Same
    <2> QED BY <1>1, <1>2, <2>1, OtherHost
<1>3. CASE i = target[l]
    <2>1. \A k \in Lambda : k # l => (Rotating(k, i)' <=> Rotating(k, i)) /\ pc'[k] = pc[k]
                                    /\ new'[k] = new[k] /\ target'[k] = target[k]
        BY <1>1 DEF Alone, Rotating
    <2>2. Rotating(l, i) /\ ~Rotating(l, i)' /\ postfix'[i] = "running"
        BY <1>1, <1>3 DEF Rotating, MidRotation
    <2>3. Health(i)'
        BY <1>1, <1>3, <2>1, <2>2 DEF Fit, Health, HasEip, Lacks, Up, Housed, Rotated
    <2>4. Named(i)'
        BY <1>1, <1>3, <2>1 DEF Fit, Named, Misnamed, Up
    <2> QED BY <2>3, <2>4 DEF Fit
<1> QED BY <1>2, <1>3

LEMMA DisassociateFits ==
    ASSUME TypeInv, NEW l \in Lambda, NEW i \in Instance, Fit(i), Disassociate(l)
    PROVE  Fit(i)'
<1> USE DEF hostVars, bootVars
<1> DEFINE old == owner[cur[l].addr]
<1>1. PICK tagged \in BOOLEAN :
        /\ Goto(l, IF tagged THEN "associate" ELSE "restart")
        /\ blame' = [h \in Instance |-> blame[h]
                        \cup (IF h = target[l] /\ ~tagged THEN {"untagged"} ELSE {})
                        \cup (IF h = old /\ h # target[l] THEN {"crossed"} ELSE {})]
    BY DEF Disassociate
<1>2. /\ pc[l] = "disassociate" /\ target[l] \in Instance
      /\ owner' = [owner EXCEPT ![cur[l].addr] = None]
      /\ UNCHANGED <<phase, boot, postfix, hostname, late, target, new>>
    BY DEF Disassociate, TypeInv, JobInv
<1>3. Alone(l) /\ pc'[l] = IF tagged THEN "associate" ELSE "restart"
    BY <1>1, <1>2 DEF Goto, TypeInv, TypeOK, Alone
<1>4. \A a \in Address : owner'[a] = i => owner[a] = i
    BY <1>2, NoneAssumption DEF TypeInv, TypeOK
<1>5. \A k \in Lambda : /\ Rotating(k, i)' <=> Rotating(k, i)
                        /\ k # l => pc'[k] = pc[k]
    BY <1>2, <1>3 DEF Alone, Rotating, MidRotation
<1>6. blame[i] \subseteq blame'[i] /\ (i = target[l] /\ ~tagged => "untagged" \in blame'[i])
        /\ (i = old /\ i # target[l] => "crossed" \in blame'[i])
        /\ (i # old /\ i # target[l] => blame'[i] = blame[i])
    BY <1>1
<1>7. Named(i)'
    BY <1>2, <1>3, <1>4, <1>6 DEF Fit, Named, Misnamed, Up, Alone
<1>8. CASE i = target[l]
    <2>2. Rotating(l, i) /\ Rotated(i)'
        BY <1>2, <1>3, <1>5, <1>8 DEF Rotating, Rotated, MidRotation
    <2>3. Health(i)'
        BY <1>2, <1>3, <1>5, <1>6, <1>8, <2>2 DEF Fit, Health, Lacks, Halted, Up, Housed
    <2> QED BY <1>7, <2>3 DEF Fit
<1>9. CASE i # target[l] /\ i = old
    <2>1. Health(i)'
        BY <1>2, <1>3, <1>5, <1>6, <1>9 DEF Fit, Health, Lacks, Halted, Up, Housed, Rotated
    <2> QED BY <1>7, <2>1 DEF Fit
<1>10. CASE i # target[l] /\ i # old
    <2>1. \A a \in Address : owner'[a] = i <=> owner[a] = i
        BY <1>2, <1>4, <1>10 DEF TypeInv, TypeOK
    <2>2. Same(i)
        BY <1>2, <1>6, <1>10, <2>1 DEF Same
    <2> QED BY <1>2, <1>3, <1>10, <2>2, OtherHost
<1> QED BY <1>8, <1>9, <1>10

LEMMA DisassociateFailsFits ==
    ASSUME TypeInv, NEW l \in Lambda, NEW i \in Instance, Fit(i), DisassociateFails(l)
    PROVE  Fit(i)'
<1> USE DEF hostVars, bootVars, eipVars
<1>1. /\ pc[l] = "disassociate" /\ pc'[l] = "restart" /\ Alone(l) /\ target[l] \in Instance
      /\ UNCHANGED <<phase, owner, boot, postfix, hostname, late, target, new>>
    <2>1. /\ pc[l] = "disassociate" /\ pc' = [pc EXCEPT ![l] = "restart"]
          /\ UNCHANGED <<phase, owner, boot, postfix, hostname, late, target, new>>
        BY DEF DisassociateFails, ToRestart, Goto
    <2>2. DOMAIN pc = Lambda /\ target[l] \in Instance
        BY <2>1 DEF TypeInv, TypeOK, JobInv
    <2> QED BY <2>1, <2>2 DEF Alone
<1>2. /\ \A h \in Instance : h # target[l] => blame'[h] = blame[h]
      /\ blame[target[l]] \subseteq blame'[target[l]]
      /\ HasEip(target[l]) \/ "stale" \in blame'[target[l]]
    <2>1. CASE AssociationHolds(l) /\ owner[cur[l].addr] = target[l]
        <3>1. blame' = blame /\ cur[l].addr \in Address
            BY <2>1 DEF DisassociateFails, TypeInv, TypeOK, Association
        <3> QED BY <2>1, <3>1 DEF HasEip
    <2>2. CASE ~(AssociationHolds(l) /\ owner[cur[l].addr] = target[l])
        <3>1. Blame(target[l], "stale")
            BY <2>2 DEF DisassociateFails
        <3> QED BY <1>1, <3>1 DEF Blame, TypeInv, TypeOK
    <2> QED BY <2>1, <2>2
<1>3. CASE i # target[l]
    <2>1. Same(i)
        BY <1>1, <1>2, <1>3 DEF Same
    <2> QED BY <1>1, <1>3, <2>1, OtherHost
<1>4. CASE i = target[l]
    <2>1. \A k \in Lambda : /\ Rotating(k, i)' <=> Rotating(k, i)
                            /\ k # l => pc'[k] = pc[k]
        BY <1>1 DEF Alone, Rotating, MidRotation
    <2>2. Rotating(l, i) /\ Rotated(i)'
        BY <1>1, <1>4, <2>1 DEF Rotating, Rotated, MidRotation
    <2>3. Health(i)'
        BY <1>1, <1>2, <1>4, <2>1, <2>2 DEF Fit, Health, HasEip, Lacks, Halted, Up, Housed
    <2>4. Named(i)'
        BY <1>1, <1>2, <1>4, <2>1 DEF Fit, Named, Misnamed, Up, Alone
    <2> QED BY <2>3, <2>4 DEF Fit
<1> QED BY <1>3, <1>4

LEMMA AssociateFits ==
    ASSUME TypeInv, NEW l \in Lambda, NEW i \in Instance, Fit(i), Associate(l), pc[l] = "associate"
    PROVE  Fit(i)'
<1> USE DEF hostVars, bootVars
<1>1. /\ target[l] \in Instance /\ pc'[l] = "hostname"
      /\ Alone(l) /\ UNCHANGED <<phase, boot, postfix, hostname, late, target, new>>
      /\ CanAssociate(l) /\ Associated(l)
    <2>1. Goto(l, "hostname") /\ UNCHANGED <<phase, boot, postfix, hostname, late, target, new>>
            /\ CanAssociate(l) /\ Associated(l)
        BY DEF Associate
    <2>2. target[l] \in Instance
        BY DEF TypeInv, JobInv
    <2> QED BY <2>1, <2>2 DEF Goto, TypeInv, TypeOK, Alone
<1>2. blame' = blame
    BY DEF Associate, Overtaken, TypeInv, TypeOK
<1>3. CASE i # target[l]
    <2>1. \A a \in Address : owner'[a] = i <=> owner[a] = i
        BY <1>1, <1>3, AssociatedElsewhere
    <2>2. Same(i)
        BY <1>1, <1>2, <2>1 DEF Same
    <2> QED BY <1>1, <1>3, <2>2, OtherHost
<1>4. CASE i = target[l]
    <2>1. HasEip(i)' /\ \A a \in Address : owner'[a] = i => a = new[l]
        BY <1>1, <1>4, AssociatedElsewhere
    <2>2. \A k \in Lambda : /\ Rotating(k, i)' <=> Rotating(k, i)
                            /\ k # l => pc'[k] = pc[k]
        BY <1>1 DEF Alone, Rotating, MidRotation
    <2>3. Rotating(l, i) /\ Rotated(i)'
        BY <1>1, <1>4, <2>2 DEF Rotating, Rotated, MidRotation
    <2>4. Housed(i)' /\ (Lacks(i)' <=> Lacks(i)) /\ (Up(i)' <=> Up(i)) /\ (Misnamed(i)' <=> Misnamed(i))
        BY <1>1, <1>2, <2>1 DEF Housed, Lacks, Up, Misnamed
    <2>5. Health(i)'
        BY <1>1, <1>2, <2>1, <2>2, <2>3, <2>4 DEF Fit, Health
    <2>6. Named(i)'
        <3>1. \A k \in Lambda : k # l /\ target[k] = i /\ pc[k] = "hostname" => Misnamed(i)
            BY <2>3 DEF Fit, Health, Rotating, Misnamed, MidRotation
        <3>2. pc'[l] = "hostname" /\ target'[l] = i
            BY <1>1, <1>4
        <3> QED BY <1>1, <1>2, <2>1, <2>2, <2>4, <3>1, <3>2 DEF Fit, Named
    <2> QED BY <2>5, <2>6 DEF Fit
<1> QED BY <1>3, <1>4

LEMMA UpdateHostnameFits ==
    ASSUME TypeInv, AddressInv, NEW l \in Lambda, NEW i \in Instance, Fit(i), UpdateHostname(l)
    PROVE  Fit(i)'
<1> USE DEF hostVars, bootVars, eipVars
<1>1. /\ pc[l] = "hostname" /\ target[l] \in Instance /\ new[l] \in Address
      /\ phase[target[l]] # "gone"
      /\ Alone(l) /\ pc'[l] \in {"idle", "next"} /\ target'[l] \notin Instance
      /\ UNCHANGED <<phase, owner, boot, late>>
      /\ postfix' = [postfix EXCEPT ![target[l]] = "running"]
    BY LeaveEffect DEF UpdateHostname, TypeInv, JobInv, MidRotation
<1>2. \/ hostname' = [hostname EXCEPT ![target[l]] = new[l]] /\ Repaired(l)
      \/ hostname' = hostname /\ Blame(target[l], "postconf")
    BY DEF UpdateHostname, NewName
<1>3. \A h \in Instance : h # target[l] =>
        blame'[h] = blame[h] /\ hostname'[h] = hostname[h] /\ postfix'[h] = postfix[h]
    BY <1>1, <1>2 DEF Repaired, Blame, TypeInv, TypeOK
<1>4. /\ postfix'[target[l]] = "running"
      /\ \/ hostname'[target[l]] = new[l] /\ blame'[target[l]] = blame[target[l]]
         \/ blame'[target[l]] = blame[target[l]] \cup {"postconf"}
         \/ /\ hostname'[target[l]] = new[l]
            /\ blame'[target[l]] = {} /\ owner[new[l]] = target[l] /\ ~RotatedByAnother(l)
            /\ \A c \in late : c.inst # target[l]
    <2>1. postfix'[target[l]] = "running"
        BY <1>1 DEF TypeInv, TypeOK
    <2>2. CASE hostname' = [hostname EXCEPT ![target[l]] = new[l]] /\ Repaired(l)
        BY <1>1, <2>1, <2>2 DEF Repaired, TypeInv, TypeOK
    <2>3. CASE Blame(target[l], "postconf")
        BY <1>1, <2>1, <2>3 DEF Blame, TypeInv, TypeOK
    <2> QED BY <1>2, <2>2, <2>3
<1>5. CASE i # target[l]
    <2>1. Same(i)
        BY <1>1, <1>3, <1>5 DEF Same
    <2> QED BY <1>1, <1>5, <2>1, OtherHost
<1>6. CASE i = target[l]
    <2>1. \A k \in Lambda : k # l => (Rotating(k, i)' <=> Rotating(k, i)) /\ pc'[k] = pc[k]
                                    /\ new'[k] = new[k] /\ target'[k] = target[k]
        BY <1>1 DEF Alone, Rotating
    <2>2. Rotating(l, i) /\ ~Rotating(l, i)'
        BY <1>1, <1>6 DEF Rotating, MidRotation
    <2>3. CASE /\ blame[i] \subseteq blame'[i]
               /\ hostname'[i] = new[l] \/ Misnamed(i)'
        <3>1. (Lacks(i) => Lacks(i)') /\ (HasEip(i)' <=> HasEip(i)) /\ (Up(i)' <=> Up(i))
            BY <1>1, <2>3 DEF Lacks, HasEip, Up
        <3>2. Housed(i) => Housed(i)'
            BY <1>1, <2>1, <2>3, <3>1 DEF Housed
        <3>3. HasEip(i) \/ Lacks(i)
            BY <1>1, <1>6, <2>2 DEF Fit, Health
        <3>4. Health(i)'
            <4>1. \A k \in Lambda : Rotating(k, i)' => Lacks(i)
                BY <2>1, <2>2 DEF Fit, Health, Lacks
            <4> QED BY <1>1, <1>4, <1>6, <2>1, <2>2, <2>3, <3>1, <3>2, <3>3, <4>1 DEF Fit, Health
        <3>5. Named(i)'
            BY <1>1, <1>6, <2>1, <2>3, <3>1 DEF Fit, Named, Misnamed
        <3> QED BY <3>4, <3>5 DEF Fit
    <2>4. CASE /\ hostname'[i] = new[l]
               /\ blame'[i] = {} /\ owner[new[l]] = i /\ ~RotatedByAnother(l)
               /\ \A c \in late : c.inst # i
        <3>1. \A k \in Lambda : ~Rotating(k, i)'
            BY <1>6, <2>1, <2>2, <2>4 DEF RotatedByAnother
        <3>2. HasEip(i)' /\ \A a \in Address : owner'[a] = i => a = new[l]
            <4>1. owner[new[l]] # None
                BY <1>6, <2>4, NoneAssumption
            <4> QED BY <1>1, <1>6, <2>4, <4>1 DEF HasEip, AddressInv
        <3>3. Health(i)'
            BY <1>1, <1>4, <1>6, <3>1, <3>2 DEF Health, Housed
        <3>4. \A k \in Lambda : ~(target'[k] = i /\ pc'[k] = "hostname")
            BY <3>1 DEF Rotating, MidRotation
        <3>5. Named(i)'
            BY <1>1, <1>6, <2>4, <3>2, <3>4 DEF Named
        <3> QED BY <3>3, <3>5 DEF Fit
    <2>5. "postconf" \in blame'[i] => Misnamed(i)'
        BY DEF Misnamed
    <2> QED BY <1>4, <1>6, <2>3, <2>4, <2>5
<1> QED BY <1>5, <1>6

LEMMA CompleteFits ==
    ASSUME TypeInv, NEW l \in Lambda, NEW i \in Instance, Fit(i), CompleteLifecycleAction(l)
    PROVE  Fit(i)'
<1> USE DEF hostVars, bootVars, eipVars
<1>1. /\ pc[l] \in {"continue", "abandon"} /\ target[l] \in Instance
      /\ Alone(l) /\ pc'[l] \in {"idle", "next"} /\ target'[l] \notin Instance
      /\ UNCHANGED <<boot, postfix, hostname, late, blame>>
    BY LeaveEffect DEF CompleteLifecycleAction, TypeInv, JobInv
<1>2. \/ UNCHANGED <<phase, owner>>
      \/ /\ pc[l] = "continue" /\ phase[target[l]] = "launching" /\ owner' = owner
         /\ phase' = [phase EXCEPT ![target[l]] = "launched"]
      \/ /\ phase' = [phase EXCEPT ![target[l]] = "gone"]
         /\ owner' = [a \in Address |-> IF owner[a] = target[l] THEN None ELSE owner[a]]
    BY DEF CompleteLifecycleAction, Terminate
<1>3. \A k \in Lambda : k # l => (Rotating(k, i)' <=> Rotating(k, i)) /\ pc'[k] = pc[k]
                                    /\ new'[k] = new[k] /\ target'[k] = target[k]
    BY <1>1 DEF Alone, Rotating
<1>4. ~Rotating(l, i) /\ ~Rotating(l, i)'
    BY <1>1 DEF Rotating, MidRotation
<1>5. phase \in [Instance -> {"absent", "launching", "launched", "old", "gone"}]
    BY DEF TypeInv, TypeOK
<1>6. CASE i # target[l]
    <2>1. phase'[i] = phase[i] /\ \A a \in Address : owner'[a] = i <=> owner[a] = i
        BY <1>1, <1>2, <1>5, <1>6, NoneAssumption
    <2>2. Same(i)
        BY <1>1, <2>1 DEF Same
    <2> QED BY <1>1, <1>6, <2>2, OtherHost
<1>7. CASE i = target[l] /\ UNCHANGED <<phase, owner>>
    <2>1. Health(i)'
        BY <1>1, <1>3, <1>4, <1>7 DEF Fit, Health, HasEip, Lacks, Halted, Up, Housed, Rotated
    <2>2. Named(i)'
        BY <1>1, <1>3, <1>7 DEF Fit, Named, Misnamed, Up
    <2> QED BY <2>1, <2>2 DEF Fit
<1>8. CASE /\ i = target[l] /\ pc[l] = "continue" /\ phase[i] = "launching" /\ owner' = owner
           /\ phase'[i] = "launched"
    <2>1. Health(i)'
        BY <1>1, <1>3, <1>4, <1>8 DEF Fit, Health, HasEip, Lacks, Halted, Up, Housed, Rotated
    <2>2. Named(i)'
        BY <1>1, <1>3, <1>8 DEF Fit, Named, Misnamed, Up
    <2> QED BY <2>1, <2>2 DEF Fit
<1>9. CASE i = target[l] /\ phase'[i] = "gone"
    <2>1. Health(i)'
        BY <1>1, <1>3, <1>4, <1>9 DEF Fit, Health, HasEip, Lacks, Halted, Up, Housed, Rotated
    <2>2. Named(i)'
        BY <1>1, <1>3, <1>9 DEF Fit, Named, Misnamed, Up
    <2> QED BY <2>1, <2>2 DEF Fit
<1>10. i = target[l] =>
        \/ UNCHANGED <<phase, owner>>
        \/ pc[l] = "continue" /\ phase[i] = "launching" /\ owner' = owner /\ phase'[i] = "launched"
        \/ phase'[i] = "gone"
    BY <1>2, <1>5
<1> QED BY <1>6, <1>7, <1>8, <1>9, <1>10

LEMMA RunLateFits ==
    ASSUME TypeInv, NEW c \in Command, NEW i \in Instance, Fit(i), RunLate(c)
    PROVE  Fit(i)'
<1> USE DEF bootVars, eipVars, jobVars
<1>1. /\ UNCHANGED <<phase, owner, boot, pc, target, new>> /\ c \in late /\ late' = late \ {c}
      /\ c.inst \in Instance
      /\ \A k \in Lambda : Rotating(k, i)' <=> Rotating(k, i)
    BY DEF RunLate, Command, Rotating
<1>2. /\ \A h \in Instance : h # c.inst =>
            blame'[h] = blame[h] /\ hostname'[h] = hostname[h] /\ postfix'[h] = postfix[h]
      /\ blame'[c.inst] = blame[c.inst] \cup {"late"}
      /\ c.cmd # "hostname" => hostname' = hostname
    BY <1>1 DEF RunLate, Blame, TypeInv, TypeOK
<1>3. CASE i # c.inst
    <2>1. Same(i)
        BY <1>1, <1>2, <1>3 DEF Same
    <2> QED BY <1>1, <2>1, FitFrame DEF Quiet, Busy
<1>4. CASE i = c.inst
    <2>1. Health(i)'
        BY <1>1, <1>2, <1>4 DEF Fit, Health, HasEip, Lacks, Halted, Up, Housed, Rotated
    <2>2. Named(i)'
        BY <1>1, <1>2, <1>4 DEF Fit, Named, Misnamed, Up
    <2> QED BY <2>1, <2>2 DEF Fit
<1> QED BY <1>3, <1>4

LEMMA Ec2Fits ==
    ASSUME TypeInv, NEW h \in Instance, NEW i \in Instance, Fit(i), Ec2(h)
    PROVE  Fit(i)'
<1> USE DEF hostVars, bootVars, eipVars, jobVars
<1>1. /\ UNCHANGED <<pc, target, new, boot, postfix, hostname, late, blame>>
      /\ \A k \in Lambda : Rotating(k, i)' <=> Rotating(k, i)
    BY DEF Ec2, Launch, HookTimesOut, GrowOld, Rotating
<1>2. phase \in [Instance -> {"absent", "launching", "launched", "old", "gone"}]
    BY DEF TypeInv, TypeOK
<1>3. CASE i # h
    <2>1. Same(i)
        BY <1>1, <1>3, NoneAssumption
           DEF Ec2, Launch, HookTimesOut, Terminate, GrowOld, Same, TypeInv, TypeOK
    <2> QED BY <1>1, <2>1, FitFrame DEF Quiet, Busy
<1>4. CASE i = h /\ (Launch(h) \/ GrowOld(h))
    <2>1. /\ owner' = owner /\ phase[i] # "gone" /\ phase'[i] \in {"launching", "old"}
          /\ phase[i] = "absent" \/ phase'[i] = "old"
        BY <1>2, <1>4 DEF Launch, GrowOld
    <2>2. phase[i] = "absent" => \A k \in Lambda : target[k] # i
        BY DEF TypeInv, JobInv
    <2>3. Health(i)'
        BY <1>1, <2>1, <2>2 DEF Fit, Health, HasEip, Lacks, Halted, Up, Housed, Rotated
    <2>4. Named(i)'
        BY <1>1, <2>1 DEF Fit, Named, Misnamed, Up
    <2> QED BY <2>3, <2>4 DEF Fit
<1>5. CASE i = h /\ HookTimesOut(h)
    <2>1. phase'[i] = "gone"
        BY <1>2, <1>5 DEF HookTimesOut, Terminate
    <2>2. Health(i)' /\ Named(i)'
        BY <1>1, <2>1 DEF Fit, Health, Named, Lacks, Up
    <2> QED BY <2>2 DEF Fit
<1> QED BY <1>3, <1>4, <1>5 DEF Ec2

\* Recipes that start Postfix while the host has another address than they looked for,
\* or while a rotation has stopped it, say so.
LEMMA RecipesFits ==
    ASSUME TypeInv, AddressInv, NEW h \in Instance, NEW i \in Instance, Fit(i), Recipes(h)
    PROVE  Fit(i)'
<1> USE DEF eipVars, jobVars
<1>1. /\ UNCHANGED <<pc, target, new, phase, owner, late>>
      /\ \A k \in Lambda : Rotating(k, i)' <=> Rotating(k, i)
    BY DEF Recipes, ReadName, Configure, Rotating
<1>2. Rotated(i)' <=> Rotated(i)
    BY <1>1 DEF Rotated
<1>3. CASE i # h
    <2>1. Same(i)
        BY <1>1, <1>3 DEF Recipes, ReadName, Configure, Blame, Same, TypeInv, TypeOK
    <2> QED BY <1>1, <2>1, FitFrame DEF Quiet, Busy
<1>4. CASE i = h /\ ReadName(h)
    <2>1. UNCHANGED <<postfix, hostname, blame>> /\ ~Up(i) /\ ~Up(i)'
        BY <1>4 DEF ReadName, Up, TypeInv, TypeOK
    <2>2. Health(i)' /\ Named(i)'
        BY <1>1, <1>2, <2>1 DEF Fit, Health, Named, HasEip, Lacks, Housed
    <2> QED BY <2>2 DEF Fit
<1>5. CASE i = h /\ Configure(h)
    <2>1. /\ postfix'[i] = "running" /\ hostname'[i] = bootName[i] /\ blame[i] \subseteq blame'[i]
          /\ (EipsOf(i) = {bootName[i]} /\ ~Rotated(i)) \/ "early" \in blame'[i]
        BY <1>5 DEF Configure, Blame, TypeInv, TypeOK
    <2>2. /\ HasEip(i)' <=> HasEip(i)
          /\ Lacks(i) => Lacks(i)'
          /\ Housed(i) => Housed(i)'
        BY <1>1, <2>1 DEF HasEip, Lacks, Housed
    <2>3. CASE "early" \in blame'[i]
        <3>1. Lacks(i)' /\ Misnamed(i)'
            BY <2>3 DEF Lacks, Misnamed
        <3>2. Health(i)'
            BY <1>1, <1>2, <2>1, <2>2, <3>1 DEF Fit, Health
        <3>3. Named(i)'
            BY <1>1, <2>1, <3>1 DEF Fit, Named
        <3> QED BY <3>2, <3>3 DEF Fit
    <2>4. CASE EipsOf(i) = {bootName[i]} /\ ~Rotated(i)
        <3>1. HasEip(i)' /\ \A a \in Address : owner'[a] = i => a = hostname'[i]
            BY <1>1, <2>1, <2>4 DEF EipsOf, HasEip
        <3>2. \A k \in Lambda : ~Rotating(k, i)' /\ ~(target[k] = i /\ pc[k] = "hostname")
            BY <1>1, <2>4 DEF Rotated, Rotating, MidRotation
        <3>3. Health(i)'
            BY <1>1, <1>2, <2>1, <2>2, <3>1, <3>2 DEF Fit, Health
        <3>4. Named(i)'
            BY <1>1, <2>1, <3>1, <3>2 DEF Fit, Named
        <3> QED BY <3>3, <3>4 DEF Fit
    <2> QED BY <2>1, <2>3, <2>4
<1> QED BY <1>3, <1>4, <1>5 DEF Recipes

-----------------------------------------------------------------------------
LEMMA AddressInit == Init => AddressInv
<1> SUFFICES ASSUME Init PROVE AddressInv
    OBVIOUS
<1> USE NoneAssumption DEF Init
<1>1. /\ owner \in [Address -> Instance \cup {None}]
      /\ phase \in [Instance -> {"absent", "old"}]
      /\ \A i \in Instance : Cardinality(EipsOf(i)) = IF phase[i] = "old" THEN 1 ELSE 0
    OBVIOUS
<1>2. \A i \in Instance : IsFiniteSet(EipsOf(i))
    BY PoolAssumption, FS_Subset DEF EipsOf
<1>3. ASSUME NEW a \in Address, NEW b \in Address, owner[a] = owner[b], owner[a] # None
      PROVE  a = b
    <2> DEFINE i == owner[a]
    <2>1. i \in Instance /\ a \in EipsOf(i) /\ b \in EipsOf(i)
        BY <1>1, <1>3 DEF EipsOf
    <2>2. Cardinality(EipsOf(i)) = 1
        BY <1>1, <1>2, <2>1, FS_EmptySet
    <2>3. PICK x : EipsOf(i) = {x}
        BY <1>2, <2>1, <2>2, FS_Singleton
    <2> QED BY <2>1, <2>3
<1>4. ASSUME NEW a \in Address, owner[a] \in Instance
      PROVE  phase[owner[a]] \notin {"absent", "gone"}
    <2>1. a \in EipsOf(owner[a])
        BY <1>4 DEF EipsOf
    <2>2. Cardinality(EipsOf(owner[a])) # 0
        BY <1>2, <1>4, <2>1, FS_EmptySet
    <2> QED BY <1>1, <1>4, <2>2
<1>5. \A l \in Lambda : cur[l].addr = None /\ listed[l] = {}
    BY DEF NoEip
<1> QED BY <1>3, <1>4, <1>5 DEF AddressInv

LEMMA FitInit == Init => \A i \in Instance : Fit(i)
<1> SUFFICES ASSUME Init, NEW i \in Instance PROVE Fit(i)
    OBVIOUS
<1>1. AddressInv /\ TypeInv
    BY AddressInit, TypeInit
<1>2. \A l \in Lambda : pc[l] = "idle"
    BY DEF Init
<1>3. phase[i] \in {"absent", "old"} /\ postfix[i] = (IF phase[i] = "old" THEN "running" ELSE "stopped")
      /\ (boot[i] = "done" => phase[i] = "old") /\ late = {}
    BY DEF Init
<1>4. phase[i] = "old" => HasEip(i)
    <2>1. phase[i] = "old" => Cardinality(EipsOf(i)) = 1
        BY DEF Init
    <2>2. Cardinality({}) = 0
        BY FS_EmptySet
    <2>3. phase[i] = "old" => EipsOf(i) # {}
        BY <2>1, <2>2
    <2> QED BY <2>3 DEF HasEip, EipsOf
<1>5. phase[i] = "old" => \A a \in Address : owner[a] = i => a = hostname[i]
    <2> SUFFICES ASSUME phase[i] = "old", NEW a \in Address, owner[a] = i PROVE a = hostname[i]
        OBVIOUS
    <2>1. hostname[i] = CHOOSE b \in Address : owner[b] = i
        BY DEF Init
    <2>2. hostname[i] \in Address /\ owner[hostname[i]] = i
        BY <2>1
    <2> QED BY <1>1, <2>2, NoneAssumption DEF AddressInv
<1>6. Health(i)
    BY <1>2, <1>3, <1>4 DEF Health, Rotating, Rotated, MidRotation, Up
<1>7. Named(i)
    BY <1>2, <1>3, <1>5 DEF Named, Up
<1> QED BY <1>6, <1>7 DEF Fit

LEMMA FitStep ==
    ASSUME TypeInv, AddressInv, [Next]_vars, NEW i \in Instance, Fit(i)
    PROVE  Fit(i)'
<1>1. ASSUME NEW l \in Lambda, Work(l) PROVE Fit(i)'
    <2>1. CASE \/ InvokeForLaunch(l) \/ InvokeForOne(l) \/ InvokeForAll(l) \/ LookUpOne(l)
               \/ NextHost(l) \/ Choose(l) \/ ChooseFails(l) \/ StopFails(l)
        BY <2>1, QuietSteps
    <2>2. CASE \/ DisassociateNothing(l) \/ RestartFails(l) \/ UpdateHostnameFails(l)
        BY <2>2, FailuresFit
    <2>3. CASE AssociateFails(l)
        BY <2>3, FailuresFit, AttachFits DEF AssociateFails
    <2>4. CASE Abort(l)
        BY <2>4, FailuresFit, EarlyEndFits
    <2>5. CASE \/ Stop(l) \/ Restart(l) \/ Disassociate(l) \/ DisassociateFails(l)
               \/ Associate(l) \/ UpdateHostname(l) \/ CompleteLifecycleAction(l)
        BY <2>5, StopFits, RestartFits, DisassociateFits, DisassociateFailsFits, AssociateFits,
           AttachFits, UpdateHostnameFits, CompleteFits DEF Associate
    <2> QED BY <1>1, <2>1, <2>2, <2>3, <2>4, <2>5 DEF Work
<1>2. ASSUME NEW c \in Command, RunLate(c) PROVE Fit(i)'
    BY <1>2, RunLateFits
<1>3. ASSUME NEW h \in Instance, Ec2(h) \/ Recipes(h) PROVE Fit(i)'
    BY <1>3, Ec2Fits, RecipesFits
<1>4. CASE UNCHANGED vars
    BY <1>4, FitFrame DEF vars, eipVars, hostVars, bootVars, jobVars, Same, Quiet, Busy
<1> QED BY <1>1, <1>2, <1>3, <1>4 DEF Next

LEMMA IInvInit == Init => IInv
BY TypeInit, AddressInit, FitInit DEF IInv

LEMMA IInvStep == IInv /\ [Next]_vars => IInv'
<1> SUFFICES ASSUME IInv, [Next]_vars PROVE IInv'
    OBVIOUS
<1>1. TypeInv'
    BY TypeStep DEF IInv
<1>2. AddressInv'
    BY AddressStep, AddressOthers DEF IInv, Next
<1>3. \A i \in Instance : Fit(i)'
    BY FitStep DEF IInv
<1> QED BY <1>1, <1>2, <1>3 DEF IInv

\* The inductive invariant: whatever is wrong with a host has left its cause in blame.
THEOREM Inductive == Spec => []IInv
BY IInvInit, IInvStep, PTL DEF Spec

-----------------------------------------------------------------------------
\* The invariants that the model checker verifies on small instances follow.
LEMMA AccountsFollow ==
    IInv => StoppedIsAccounted /\ RunningHasAddress /\ NameMatchesAddress /\ LaunchedHasAddress
<1> SUFFICES ASSUME IInv, NEW i \in Instance
             PROVE  /\ Serving(i) /\ postfix[i] = "stopped" /\ ~Rotated(i) =>
                        blame[i] \cap {"late", "aborted", "no address", "restart", "associate",
                                       "hostname"} # {}
                    /\ Serving(i) /\ postfix[i] = "running" /\ ~Rotated(i) /\ EipsOf(i) = {} =>
                        blame[i] \cap {"untagged", "crossed", "stale", "late", "early"} # {}
                    /\ Serving(i) /\ postfix[i] = "running" /\ ~Rotated(i)
                        /\ blame[i] \cap {"stale", "hostname", "associate", "aborted", "postconf",
                                           "early"} = {} =>
                        EipsOf(i) \subseteq {hostname[i]}
                    /\ phase[i] = "launched" /\ ~Rotated(i) /\ EipsOf(i) = {} =>
                        blame[i] \cap {"untagged", "crossed", "associate", "aborted"} # {}
    BY DEF StoppedIsAccounted, RunningHasAddress, NameMatchesAddress, LaunchedHasAddress
<1>1. Health(i) /\ Named(i)
    BY DEF IInv, Fit
<1>2. HasEip(i) <=> EipsOf(i) # {}
    BY DEF HasEip, EipsOf
<1>3. Halted(i) => blame[i] \cap {"late", "aborted", "no address", "restart", "associate",
                                  "hostname"} # {}
    BY DEF Halted
<1>4. Lacks(i) => blame[i] \cap {"untagged", "crossed", "stale", "late", "early"} # {}
    BY DEF Lacks
<1>5. blame[i] \cap {"stale", "hostname", "associate", "aborted", "postconf", "early"} = {} =>
        ~Misnamed(i)
    BY DEF Misnamed
<1>6. ~Rotated(i) => \A l \in Lambda : ~(target[l] = i /\ pc[l] \in {"hostname", "associate"})
    BY DEF Rotated, Rotating, MidRotation
<1>7. Serving(i) => Up(i)
    BY DEF Serving, Up
<1>8. Serving(i) /\ ~Rotated(i) /\ ~Misnamed(i) => EipsOf(i) \subseteq {hostname[i]}
    BY <1>1, <1>6, <1>7 DEF Named, EipsOf
<1>9. phase[i] = "launched" /\ ~Rotated(i) /\ EipsOf(i) = {} =>
        blame[i] \cap {"untagged", "crossed", "associate", "aborted"} # {}
    BY <1>1, <1>2, <1>6 DEF Health, Housed
<1>10. Serving(i) /\ ~Rotated(i) =>
        IF postfix[i] = "stopped" THEN Halted(i) ELSE HasEip(i) \/ Lacks(i)
    BY <1>1, <1>7 DEF Health
<1> QED BY <1>2, <1>3, <1>4, <1>5, <1>8, <1>9, <1>10

\* Every variable keeps its type.
THEOREM Typed == Spec => []TypeOK
<1>1. IInv => TypeOK
    BY DEF IInv, TypeInv
<1> QED BY <1>1, Inductive, PTL

\* A host on which nobody works has Postfix stopped only when a step failed that
\* rotate_eip has no remedy for.
THEOREM StoppedHostsAccounted == Spec => []StoppedIsAccounted
BY Inductive, AccountsFollow, PTL

\* A host on which nobody works sends mail without an address only after one of the
\* five mishaps that take or withhold it.
THEOREM RunningHostsHaveAddress == Spec => []RunningHasAddress
BY Inductive, AccountsFollow, PTL

\* A host on which nobody works sends mail under the name of its address, unless a late
\* hook, a failed or aborted rotation, a postconf that failed unseen or early recipes
\* gave it another.
THEOREM NamesMatch == Spec => []NameMatchesAddress
BY Inductive, AccountsFollow, PTL

\* A host that the launch hook let through has an address, unless a rotation by hand
\* has it in hand, failed or was aborted, or another took it.
THEOREM LaunchesHaveAddress == Spec => []LaunchedHasAddress
BY Inductive, AccountsFollow, PTL

\* The loss of an address by a step of an invocation.
LEMMA LossByWork ==
    ASSUME IInv, NEW l \in Lambda, Work(l), NEW a \in Address,
           owner[a] # None, owner'[a] # owner[a], phase[owner[a]] # "launching"
    PROVE  Disassociate(l) /\ cur[l].addr = a
<1> USE NoneAssumption DEF hostVars, bootVars, eipVars
<1>1. CASE Disassociate(l)
    BY <1>1 DEF Disassociate, IInv, TypeInv, TypeOK
<1>2. CASE CanAssociate(l) /\ Associated(l)
    BY <1>2 DEF Associated, CanAssociate, IInv, TypeInv, TypeOK
<1>3. CASE CompleteLifecycleAction(l)
    BY <1>3 DEF CompleteLifecycleAction, Terminate, IInv, TypeInv, TypeOK
<1>4. CASE owner' = owner
    BY <1>4
<1>5. \/ Disassociate(l) \/ CompleteLifecycleAction(l)
      \/ CanAssociate(l) /\ Associated(l)
      \/ owner' = owner
    BY DEF Work, InvokeForLaunch, InvokeForOne, InvokeForAll, Invoke, LookUpOne, NextHost, Choose,
        ChooseFails, Stop, StopFails, DisassociateFails, DisassociateNothing, Restart,
        RestartFails, Associate, AssociateFails, UpdateHostname, UpdateHostnameFails, Abort
<1> QED BY <1>1, <1>2, <1>3, <1>4, <1>5

LEMMA LossStep == IInv /\ [Next]_vars => [LossAccounted]_vars
<1> SUFFICES ASSUME IInv, Next, NEW a \in Address,
                    owner[a] # None, owner'[a] # owner[a], phase[owner[a]] # "launching"
             PROVE  /\ owner'[a] = None
                    /\ \E l \in Lambda :
                        /\ pc[l] = "disassociate" /\ pc'[l] # "disassociate" /\ cur[l].addr = a
                        /\ \/ target[l] = owner[a] /\ (kind[l] = "single" \/ phase[owner[a]] = "old")
                           \/ target[l] # owner[a] /\ seen[l][a] < cur[l].id
    BY DEF LossAccounted
<1>1. ASSUME NEW c \in Command, RunLate(c) PROVE FALSE
    BY <1>1 DEF RunLate, eipVars
<1>2. ASSUME NEW i \in Instance, Ec2(i) \/ Recipes(i) PROVE FALSE
    BY <1>2 DEF Ec2, Launch, HookTimesOut, GrowOld, Terminate, Recipes, ReadName, Configure,
                eipVars, IInv, TypeInv, TypeOK
<1>3. PICK l \in Lambda : Disassociate(l) /\ cur[l].addr = a
    <2>1. PICK l \in Lambda : Work(l)
        BY <1>1, <1>2 DEF Next
    <2> QED BY <2>1, LossByWork
<1>4. /\ owner' = [owner EXCEPT ![a] = None] /\ AssociationHolds(l)
      /\ pc[l] = "disassociate" /\ pc'[l] # "disassociate"
    BY <1>3 DEF Disassociate, Goto, IInv, TypeInv, TypeOK
<1>5. owner[a] \in Instance /\ owner'[a] = None /\ phase[owner[a]] \notin {"absent", "gone"}
    BY <1>4 DEF IInv, TypeInv, TypeOK, AddressInv
<1>6. /\ kind[l] \in {"single", "all"} /\ target[l] \in Instance
      /\ kind[l] = "all" => phase[target[l]] \in {"old", "gone"}
    BY <1>4 DEF IInv, TypeInv, JobInv, MidRotation
<1>7. target[l] # owner[a] => seen[l][a] < cur[l].id
    <2>1. /\ ReadOf(l, target[l], a) /\ seen[l][a] <= cur[l].id
          /\ uses[a] = cur[l].id
        BY <1>3, <1>4 DEF IInv, AddressInv, AssociationHolds
    <2>2. seen[l][a] \in Nat /\ cur[l].id \in Nat
        BY DEF IInv, TypeInv, TypeOK, Association
    <2>3. seen[l][a] = uses[a] => owner[a] = target[l]
        BY <1>5, <2>1, NoneAssumption DEF ReadOf
    <2> QED BY <2>1, <2>2, <2>3
<1> QED BY <1>3, <1>4, <1>5, <1>6, <1>7

\* A host past its launch loses its address only to a rotation of its own, or to one
\* that had read the address when it was another host's, and looked it up after it had
\* passed to this one.
THEOREM LossesAccounted == Spec => LossIsAccounted
BY Inductive, LossStep, PTL DEF Spec, LossIsAccounted
-----------------------------------------------------------------------------
(***************************************************************************)
(* The work left.  No property of a run says that an invocation ends;     *)
(* what the code can promise is that it never goes round in circles,       *)
(* whatever fails and whatever the others do with the pool.                *)
(***************************************************************************)
Weight(label) ==
    CASE label = "choose" -> 8
      [] label = "stop" -> 7
      [] label = "disassociate" -> 6
      [] label \in {"attach", "associate"} -> 5
      [] label \in {"restart", "hostname"} -> 4
      [] label \in {"continue", "abandon"} -> 3
      [] label = "next" -> 1
      [] OTHER -> 0

\* A listed host costs its place in the schedule and a rotation, nine steps at most.
Left(l) == 9 * Cardinality(listed[l]) + Weight(pc[l])

Listings == Instance \X (Address \cup {None})

Starts(l) == InvokeForLaunch(l) \/ InvokeForOne(l) \/ InvokeForAll(l)

\* Each step of an invocation that has begun takes some of its work away.
LeftShrinks ==
    [][\A l \in Lambda :
        /\ Work(l) /\ ~Starts(l) => Left(l)' < Left(l)
        /\ ~Work(l) => Left(l)' = Left(l)]_vars

\* The work left is a number, and no more than the schedule's longest list takes.
LeftIsBounded == \A l \in Lambda : Left(l) \in 0..(9 * Cardinality(Listings) + 8)

LEMMA Weights ==
    ASSUME NEW label
    PROVE  /\ label = "choose" => Weight(label) = 8
           /\ label = "stop" => Weight(label) = 7
           /\ label = "disassociate" => Weight(label) = 6
           /\ label \in {"attach", "associate"} => Weight(label) = 5
           /\ label \in {"restart", "hostname"} => Weight(label) = 4
           /\ label \in {"continue", "abandon"} => Weight(label) = 3
           /\ label = "next" => Weight(label) = 1
           /\ label = "idle" => Weight(label) = 0
           /\ Weight(label) \in 0..8
BY DEF Weight

LEMMA ListsAreFinite ==
    ASSUME NEW S \in SUBSET Listings
    PROVE  /\ IsFiniteSet(S) /\ Cardinality(S) \in Nat /\ Cardinality(Listings) \in Nat
           /\ Cardinality(S) <= Cardinality(Listings)
<1>1. IsFiniteSet(Address \cup {None})
    BY PoolAssumption, FS_AddElement
<1>2. IsFiniteSet(Listings)
    BY <1>1, PoolAssumption, FS_Product DEF Listings
<1> QED BY <1>2, FS_Subset, FS_CardinalityType

\* What a step does to the list and the place of its invocation.
Ends(l) == listed'[l] = {} /\ pc'[l] = "idle"

Keeps(l) == listed'[l] = listed[l]

LEMMA WorkMoves ==
    ASSUME TypeOK, NEW l \in Lambda, Work(l), ~Starts(l)
    PROVE  /\ pc[l] # "idle"
           /\ \/ Ends(l)
              \/ /\ pc[l] = "next" /\ pc'[l] \in {"next", "choose"}
                 /\ \E item \in listed[l] : listed'[l] = listed[l] \ {item}
              \/ /\ Keeps(l)
                 /\ \/ pc[l] = "choose" /\ pc'[l] \in {"attach", "stop", "abandon"}
                    \/ pc[l] = "stop" /\ pc'[l] \in {"disassociate", "next"}
                    \/ pc[l] = "disassociate" /\ pc'[l] \in {"associate", "restart"}
                    \/ pc[l] \in {"restart", "hostname"} /\ pc'[l] = "next"
                    \/ pc[l] \in {"attach", "associate"}
                        /\ pc'[l] \in {"continue", "abandon", "hostname", "next"}
<1> USE DEF TypeOK, Goto, Ends, Keeps, ToRestart
<1>1. CASE LookUpOne(l) \/ NextHost(l)
    BY <1>1 DEF LookUpOne, NextHost, Takes, Skips, Raises, End
<1>2. CASE Choose(l) \/ ChooseFails(l)
    BY <1>2 DEF Choose, ChooseFails, End
<1>3. CASE Stop(l) \/ StopFails(l)
    BY <1>3 DEF Stop, StopFails, Return, End
<1>4. CASE Disassociate(l) \/ DisassociateFails(l) \/ DisassociateNothing(l)
    BY <1>4 DEF Disassociate, DisassociateFails, DisassociateNothing, End
<1>5. CASE Restart(l) \/ RestartFails(l)
    BY <1>5 DEF Restart, RestartFails, Return, End
<1>6. CASE Associate(l) \/ AssociateFails(l)
    BY <1>6 DEF Associate, AssociateFails, Return, End
<1>7. CASE UpdateHostname(l) \/ UpdateHostnameFails(l)
    BY <1>7 DEF UpdateHostname, UpdateHostnameFails, Return, End
<1>8. CASE CompleteLifecycleAction(l) \/ Abort(l)
    BY <1>8 DEF CompleteLifecycleAction, Abort, End
<1> QED BY <1>1, <1>2, <1>3, <1>4, <1>5, <1>6, <1>7, <1>8 DEF Work, Starts

LEMMA WorkWorks ==
    ASSUME TypeOK, NEW l \in Lambda, Work(l), ~Starts(l)
    PROVE  Left(l)' < Left(l)
<1>1. PICK u, w : u = pc[l] /\ w = pc'[l]
    OBVIOUS
<1>2. PICK S \in SUBSET Listings : S = listed[l]
    BY DEF TypeOK, Listings
<1>3. Cardinality(S) \in Nat /\ IsFiniteSet(S)
    BY ListsAreFinite
<1>4. Left(l) = 9 * Cardinality(S) + Weight(u)
    BY <1>1, <1>2 DEF Left
<1>5. Weight(u) \in 0..8 /\ Weight(w) \in 0..8
    BY Weights
<1>6. CASE Ends(l)
    <2>1. Cardinality({}) = 0 /\ Weight(w) = 0
        BY <1>1, <1>6, FS_EmptySet, Weights DEF Ends
    <2>2. Left(l)' = 9 * Cardinality({}) + Weight(w)
        BY <1>1, <1>6 DEF Left, Ends
    <2>3. Weight(u) > 0
        <3>1. u \in {"next", "choose", "stop", "attach", "continue", "abandon"} \cup MidRotation
            BY <1>1, WorkMoves DEF TypeOK
        <3> QED BY <3>1, Weights DEF MidRotation
    <2> QED BY <1>3, <1>4, <1>5, <2>1, <2>2, <2>3
<1>7. CASE pc[l] = "next" /\ \E item \in listed[l] : listed'[l] = listed[l] \ {item}
    <2>1. PICK item \in S : listed'[l] = S \ {item}
        BY <1>2, <1>7
    <2>2. Cardinality(S \ {item}) = Cardinality(S) - 1
        BY <1>3, FS_RemoveElement
    <2>3. Left(l)' = 9 * Cardinality(S \ {item}) + Weight(w)
        BY <1>1, <2>1 DEF Left
    <2>4. Weight(u) = 1
        BY <1>1, <1>7, Weights
    <2> QED BY <1>3, <1>4, <1>5, <2>2, <2>3, <2>4
<1>8. CASE Keeps(l) /\ ~Ends(l) /\ pc[l] # "next"
    <2>1. Left(l)' = 9 * Cardinality(S) + Weight(w)
        BY <1>1, <1>2, <1>8 DEF Left, Keeps
    <2>2. \/ u = "choose" /\ w \in {"attach", "stop", "abandon"}
          \/ u = "stop" /\ w \in {"disassociate", "next"}
          \/ u = "disassociate" /\ w \in {"associate", "restart"}
          \/ u \in {"restart", "hostname"} /\ w = "next"
          \/ u \in {"attach", "associate"} /\ w \in {"continue", "abandon", "hostname", "next"}
        BY <1>1, <1>8, WorkMoves
    <2>3. Weight(w) < Weight(u)
        BY <2>2, Weights
    <2> QED BY <1>3, <1>4, <1>5, <2>1, <2>3
<1> QED BY <1>6, <1>7, <1>8, WorkMoves

\* The steps of others leave an invocation where it is.
LEMMA OthersRest ==
    ASSUME TypeOK, Next, NEW l \in Lambda, ~Work(l)
    PROVE  Left(l)' = Left(l)
<1>1. listed'[l] = listed[l] /\ pc'[l] = pc[l]
    <2>1. ASSUME NEW k \in Lambda, Work(k) PROVE listed'[l] = listed[l] /\ pc'[l] = pc[l]
        <3>1. k # l
            BY <2>1
        <3> USE <3>1 DEF TypeOK, Goto, ToRestart
        <3>2. CASE Starts(k)
            BY <3>2 DEF Starts, InvokeForLaunch, InvokeForOne, InvokeForAll, Invoke, Reads
        <3>3. CASE LookUpOne(k) \/ NextHost(k) \/ Choose(k) \/ ChooseFails(k)
            BY <3>3 DEF LookUpOne, NextHost, Takes, Skips, Raises, Choose, ChooseFails, End
        <3>4. CASE Stop(k) \/ StopFails(k) \/ Restart(k) \/ RestartFails(k)
            BY <3>4 DEF Stop, StopFails, Restart, RestartFails, Return, End
        <3>5. CASE Disassociate(k) \/ DisassociateFails(k) \/ DisassociateNothing(k)
            BY <3>5 DEF Disassociate, DisassociateFails, DisassociateNothing, End
        <3>6. CASE Associate(k) \/ AssociateFails(k)
            BY <3>6 DEF Associate, AssociateFails, Return, End
        <3>7. CASE UpdateHostname(k) \/ UpdateHostnameFails(k)
            BY <3>7 DEF UpdateHostname, UpdateHostnameFails, Return, End
        <3>8. CASE CompleteLifecycleAction(k) \/ Abort(k)
            BY <3>8 DEF CompleteLifecycleAction, Abort, End
        <3> QED BY <2>1, <3>2, <3>3, <3>4, <3>5, <3>6, <3>7, <3>8 DEF Work, Starts
    <2>2. ASSUME NEW c \in Command, RunLate(c) PROVE UNCHANGED jobVars
        BY <2>2 DEF RunLate
    <2>3. ASSUME NEW i \in Instance, Ec2(i) \/ Recipes(i) PROVE UNCHANGED jobVars
        BY <2>3 DEF Ec2, Launch, HookTimesOut, GrowOld, Recipes, ReadName, Configure
    <2> QED BY <2>1, <2>2, <2>3 DEF Next, jobVars
<1> QED BY <1>1 DEF Left

LEMMA LeftTyped == TypeOK => LeftIsBounded
<1> SUFFICES ASSUME TypeOK, NEW l \in Lambda
             PROVE  Left(l) \in 0..(9 * Cardinality(Listings) + 8)
    BY DEF LeftIsBounded
<1>1. PICK S \in SUBSET Listings : S = listed[l]
    BY DEF TypeOK, Listings
<1>2. Cardinality(S) \in Nat /\ Cardinality(Listings) \in Nat
      /\ Cardinality(S) <= Cardinality(Listings)
    BY <1>1, ListsAreFinite
<1>3. PICK w \in 0..8 : w = Weight(pc[l])
    BY Weights
<1>4. Left(l) = 9 * Cardinality(S) + w
    BY <1>1, <1>3 DEF Left
<1> QED BY <1>2, <1>4

\* An invocation ends after at most nine steps for each host on the schedule's list and
\* eight more: no failure and no address that has changed hands makes it start over.
THEOREM InvocationsRunDown == Spec => []LeftIsBounded /\ LeftShrinks
<1>1. IInv /\ Next =>
        \A l \in Lambda : /\ Work(l) /\ ~Starts(l) => Left(l)' < Left(l)
                          /\ ~Work(l) => Left(l)' = Left(l)
    BY WorkWorks, OthersRest DEF IInv, TypeInv
<1>2. IInv => LeftIsBounded
    BY LeftTyped DEF IInv, TypeInv
<1> QED BY <1>1, <1>2, Inductive, PTL DEF Spec, LeftShrinks
=============================================================================
