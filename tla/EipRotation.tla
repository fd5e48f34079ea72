----------------------------- MODULE EipRotation -----------------------------
(***************************************************************************)
(* The EIP rotation lambda, xgemail_eip_rotation.py.  It gives a launching *)
(* delivery host its first Elastic IP address, and exchanges the address   *)
(* of a serving host for a cleaner one: Postfix is stopped, the old        *)
(* address released, the new one associated, and Postfix started again     *)
(* under the reverse name of the new address.  Several invocations (launch *)
(* hooks, SSM automations, the schedule) run at once over one pool.        *)
(*                                                                         *)
(* A new host meanwhile runs its recipes, which configure Postfix with the *)
(* name of the address that they find.                                     *)
(*                                                                         *)
(* EC2, the SSM service and the AutoScaling group are external and         *)
(* modelled from how the code uses them; what the commands do on the host  *)
(* is in their documents (ssm-postfix-service.tf, ssm-update-hostname.tf). *)
(* Definitions named ...Fault are plausible mistakes in the code that show *)
(* what the properties tell apart; nothing else refers to them.            *)
(***************************************************************************)
EXTENDS Naturals, FiniteSets

CONSTANTS
    Instance,    \* the delivery hosts of one type; ids are never used again
    Address,     \* the Elastic IP addresses tagged for that type
    Lambda,      \* invocations that may run at the same time
    None,
    MaxCalls,    \* bound: invocations
    MaxFaults    \* bound: calls that fail, time out or answer late

ASSUME NoneAssumption == None \notin Instance \cup Address

ASSUME PoolAssumption == IsFiniteSet(Instance) /\ IsFiniteSet(Address)

ASSUME BoundAssumption == MaxCalls \in Nat /\ MaxFaults \in Nat

VARIABLES
    \* EC2 and the AutoScaling group
    phase,      \* phase[i]: how far the host is; "launched" up to 1800 s of age
    owner,      \* owner[a]: the host a is associated with
    uses,       \* uses[a]: associations of a so far; the last one is the association id
    \* the hosts
    boot,       \* boot[i]: how far the recipes are
    bootName,   \* bootName[i]: the address whose name they found; None: a plain public one
    postfix,    \* postfix[i]: what monit was last told to do with Postfix
    hostname,   \* hostname[i]: the address whose reverse name is myhostname
    late,       \* SSM commands that were given up on and may still run
    \* the invocations
    pc, kind,
    target,     \* the host worked on
    listed,     \* the hosts to come, with the public address that was read of each
    cur,        \* lookup_eip's answer: an address and the association it had
    new,        \* the address chosen for the target
    \* bookkeeping
    seen,       \* seen[l]: uses when the invocation read the hosts' addresses
    blame,      \* blame[i]: what went wrong at i that nothing has repaired yet
    calls, faults

bootVars == <<boot, bootName>>
hostVars == <<bootVars, postfix, hostname, late>>
jobVars == <<pc, kind, target, listed, cur, new, seen>>
eipVars == <<owner, uses>>
vars == <<phase, eipVars, hostVars, jobVars, blame, calls, faults>>

NoEip == [addr |-> None, id |-> 0]
Association == [addr : Address \cup {None}, id : Nat]
Command == [cmd : {"stop", "start", "hostname"}, inst : Instance,
            addr : Address \cup {None}]
Cause == {"late", "stale", "crossed", "aborted", "no address", "untagged",
          "restart", "associate", "hostname", "postconf", "early"}

\* Where an invocation has stopped Postfix on its target and has yet to start it.
MidRotation == {"disassociate", "restart", "associate", "hostname"}

EipsOf(i) == {a \in Address : owner[a] = i}
Free == {a \in Address : owner[a] = None}
Rotating(l, i) == target[l] = i /\ pc[l] \in MidRotation
Rotated(i) == \E l \in Lambda : Rotating(l, i)
RotatedByAnother(l) == \E k \in Lambda \ {l} : Rotating(k, target[l])

-----------------------------------------------------------------------------
Init ==
    /\ phase \in [Instance -> {"absent", "old"}]
    /\ owner \in [Address -> Instance \cup {None}]
    /\ \A i \in Instance : Cardinality(EipsOf(i)) = IF phase[i] = "old" THEN 1 ELSE 0
    /\ uses = [a \in Address |-> 0]
    /\ boot = [i \in Instance |-> IF phase[i] = "old" THEN "done" ELSE "booting"]
    /\ bootName = [i \in Instance |-> None]
    /\ postfix = [i \in Instance |-> IF phase[i] = "old" THEN "running" ELSE "stopped"]
    /\ hostname = [i \in Instance |-> IF phase[i] = "old"
                                      THEN CHOOSE a \in Address : owner[a] = i ELSE None]
    /\ late = {}
    /\ pc = [l \in Lambda |-> "idle"]
    /\ kind = [l \in Lambda |-> "none"]
    /\ target = [l \in Lambda |-> None]
    /\ listed = [l \in Lambda |-> {}]
    /\ cur = [l \in Lambda |-> NoEip]
    /\ new = [l \in Lambda |-> None]
    /\ seen = [l \in Lambda |-> [a \in Address |-> 0]]
    /\ blame = [i \in Instance |-> {}]
    /\ calls = 0
    /\ faults = 0

Goto(l, label) == pc' = [pc EXCEPT ![l] = label]

Fault == faults < MaxFaults /\ faults' = faults + 1

Blame(i, cause) == blame' = [blame EXCEPT ![i] = @ \cup {cause}]

\* The invocation ends: with a result, or with an exception that nothing catches.
End(l) ==
    /\ Goto(l, "idle")
    /\ kind' = [kind EXCEPT ![l] = "none"]
    /\ target' = [target EXCEPT ![l] = None]
    /\ listed' = [listed EXCEPT ![l] = {}]
    /\ cur' = [cur EXCEPT ![l] = NoEip]
    /\ new' = [new EXCEPT ![l] = None]
    /\ seen' = [seen EXCEPT ![l] = [a \in Address |-> 0]]

\* rotate_eip returns; the schedule goes on with its next host.
Return(l) ==
    \/ kind[l] # "all" /\ End(l)
    \/ /\ kind[l] = "all"
       /\ Goto(l, "next")
       /\ target' = [target EXCEPT ![l] = None]
       /\ cur' = [cur EXCEPT ![l] = NoEip]
       /\ new' = [new EXCEPT ![l] = None]
       /\ UNCHANGED <<kind, listed, seen>>

Invoke(l, k, label) ==
    /\ pc[l] = "idle" /\ calls < MaxCalls
    /\ calls' = calls + 1
    /\ Goto(l, label)
    /\ kind' = [kind EXCEPT ![l] = k]
    /\ UNCHANGED <<phase, eipVars, hostVars, cur, new, blame, faults>>

\* A launch hook event; it may be delivered more than once.
InvokeForLaunch(l) ==
    /\ Invoke(l, "launch", "choose")
    /\ \E i \in Instance : phase[i] = "launching" /\ target' = [target EXCEPT ![l] = i]
    /\ UNCHANGED <<listed, seen>>

\* What EC2 shows as the public address of a running host.
IsListed(i, a) ==
    /\ phase[i] \notin {"absent", "gone"}
    /\ IF EipsOf(i) = {} THEN a = None ELSE a \in EipsOf(i)

Reads(l, items) ==
    /\ listed' = [listed EXCEPT ![l] = items]
    /\ seen' = [seen EXCEPT ![l] = uses]
    /\ UNCHANGED target

\* The SSM automation names a host, whatever its state or its age, and
\* rotate_single_eip reads its public address.
InvokeForOne(l) ==
    /\ Invoke(l, "single", "next")
    /\ \E i \in Instance, a \in Address \cup {None} : IsListed(i, a) /\ Reads(l, {<<i, a>>})

\* The schedule lists the running hosts with their public addresses.
InvokeForAll(l) ==
    /\ Invoke(l, "all", "next")
    /\ Reads(l, {item \in Instance \X (Address \cup {None}) : IsListed(item[1], item[2])})

SkipsNobodyFault(i) == FALSE

\* The host was launched at most 1800 seconds ago.
RecentlyDeployed(i) == phase[i] # "old"

Known(a) == IF a = None THEN NoEip ELSE [addr |-> a, id |-> uses[a]]

\* lookup_eip: the association that the address has by now.  For an address that is no
\* EIP it returns None, and so it does when EC2 answers an error.
LooksUp(a, answer) ==
    \/ answer = Known(a) /\ UNCHANGED faults
    \/ answer = NoEip /\ a # None /\ Fault

Takes(l, item, answer) ==
    /\ listed' = [listed EXCEPT ![l] = @ \ {item}]
    /\ target' = [target EXCEPT ![l] = item[1]]
    /\ cur' = [cur EXCEPT ![l] = answer]
    /\ Goto(l, "choose")
    /\ UNCHANGED <<kind, new, seen>>

Skips(l, item) ==
    /\ listed' = [listed EXCEPT ![l] = @ \ {item}]
    /\ UNCHANGED <<pc, kind, target, cur, new, seen>>

\* A host without any public address makes describe_addresses raise.
Raises(l, item) == item[2] = None /\ End(l) /\ UNCHANGED faults

\* rotate_single_eip goes on with whatever lookup_eip returned.
LookUpOne(l) ==
    /\ pc[l] = "next" /\ kind[l] = "single"
    /\ \E item \in listed[l] :
        \/ \E answer \in {NoEip, Known(item[2])} :
            LooksUp(item[2], answer) /\ Takes(l, item, answer)
        \/ Raises(l, item)
    /\ UNCHANGED <<phase, eipVars, hostVars, blame, calls>>

\* The schedule's loop: recent hosts are skipped, and those that lookup_eip returns None for.
NextHost(l) ==
    /\ pc[l] = "next" /\ kind[l] = "all"
    /\ \/ listed[l] = {} /\ End(l) /\ UNCHANGED faults
       \/ \E item \in listed[l] : RecentlyDeployed(item[1]) /\ Skips(l, item) /\ UNCHANGED faults
       \/ \E item \in listed[l] :
            /\ ~RecentlyDeployed(item[1])
            /\ \/ LooksUp(item[2], NoEip) /\ Skips(l, item)
               \/ item[2] # None /\ Takes(l, item, Known(item[2])) /\ UNCHANGED faults
               \/ Raises(l, item)
    /\ UNCHANGED <<phase, eipVars, hostVars, blame, calls>>

\* get_clean_eip: the first unassociated address in an order by tags that others
\* keep changing.  An SSM automation may name any address instead.
Choose(l) ==
    /\ pc[l] = "choose"
    /\ \E a \in Free \cup (IF kind[l] = "single" THEN Address ELSE {}) :
        new' = [new EXCEPT ![l] = a]
    /\ Goto(l, IF kind[l] = "launch" THEN "attach" ELSE "stop")
    /\ UNCHANGED <<phase, eipVars, hostVars, kind, target, listed, cur, seen, blame, calls, faults>>

\* No address is free, or EC2 or the reverse lookup fails: initial_eip returns
\* False, rotate_eip raises before it has changed anything.
ChooseFails(l) ==
    /\ pc[l] = "choose"
    /\ (Free = {} /\ UNCHANGED faults) \/ Fault
    /\ \/ kind[l] = "launch" /\ Goto(l, "abandon") /\ UNCHANGED <<kind, target, listed, cur, new, seen>>
       \/ kind[l] # "launch" /\ End(l)
    /\ UNCHANGED <<phase, eipVars, hostVars, blame, calls>>

\* A command is not run, or is still running when the waiter gives up on it.
GivenUp(l, command) ==
    late' \in {late, late \cup {command}} /\ UNCHANGED <<bootVars, postfix, hostname>>

\* No command is run on a host that is gone, and one may fail while the recipes have
\* not set the host up.
SsmFails(i) == IF phase[i] = "gone" \/ boot[i] # "done" THEN UNCHANGED faults ELSE Fault

AddressedFault(l, c) == [cmd |-> c, inst |-> new[l], addr |-> None]

Ssm(l, c) == [cmd |-> c, inst |-> target[l], addr |-> IF c = "hostname" THEN new[l] ELSE None]

Stop(l) ==
    /\ pc[l] = "stop" /\ phase[target[l]] # "gone"
    /\ postfix' = [postfix EXCEPT ![target[l]] = "stopped"]
    /\ IF RotatedByAnother(l) THEN Blame(target[l], "stale") ELSE UNCHANGED blame
    /\ Goto(l, "disassociate")
    /\ UNCHANGED <<phase, eipVars, bootVars, hostname, late, kind, target, listed, cur, new, seen,
                   calls, faults>>

\* send_command fails and rotate_eip returns; or the waiter gives up and, the
\* WaiterError having no "message", an AttributeError ends the invocation.
StopFails(l) ==
    /\ pc[l] = "stop"
    /\ SsmFails(target[l])
    /\ Return(l) \/ End(l)
    /\ GivenUp(l, Ssm(l, "stop"))
    /\ UNCHANGED <<phase, eipVars, blame, calls>>

\* The association id that lookup_eip found still exists.
AssociationHolds(l) == owner[cur[l].addr] # None /\ uses[cur[l].addr] = cur[l].id

\* The address goes back to the pool; without its "detached" tag, that counts as
\* a failure.
Disassociate(l) ==
    /\ pc[l] = "disassociate" /\ cur[l].addr # None /\ AssociationHolds(l)
    /\ owner' = [owner EXCEPT ![cur[l].addr] = None]
    /\ \E tagged \in BOOLEAN :
        /\ IF tagged THEN UNCHANGED faults ELSE Fault
        /\ Goto(l, IF tagged THEN "associate" ELSE "restart")
        /\ blame' = [i \in Instance |-> blame[i]
                        \cup (IF i = target[l] /\ ~tagged THEN {"untagged"} ELSE {})
                        \cup (IF i = owner[cur[l].addr] /\ i # target[l] THEN {"crossed"} ELSE {})]
    /\ UNCHANGED <<phase, uses, hostVars, kind, target, listed, cur, new, seen, calls>>

StaysStoppedFault(l) == Return(l)

ToRestart(l) == Goto(l, "restart") /\ UNCHANGED <<kind, target, listed, cur, new, seen>>

\* EC2 answers an error: often because the address has changed hands since it was
\* looked up.
DisassociateFails(l) ==
    /\ pc[l] = "disassociate" /\ cur[l].addr # None
    /\ IF AssociationHolds(l) THEN Fault ELSE UNCHANGED faults
    /\ IF AssociationHolds(l) /\ owner[cur[l].addr] = target[l]
       THEN UNCHANGED blame ELSE Blame(target[l], "stale")
    /\ ToRestart(l)
    /\ UNCHANGED <<phase, eipVars, hostVars, calls>>

\* The host had no EIP: eip['PublicIp'] raises outside the try.
DisassociateNothing(l) ==
    /\ pc[l] = "disassociate" /\ cur[l].addr = None
    /\ Blame(target[l], "no address")
    /\ End(l)
    /\ UNCHANGED <<phase, eipVars, hostVars, calls, faults>>

Restart(l) ==
    /\ pc[l] = "restart" /\ phase[target[l]] # "gone"
    /\ postfix' = [postfix EXCEPT ![target[l]] = "running"]
    /\ Return(l)
    /\ UNCHANGED <<phase, eipVars, bootVars, hostname, late, blame, calls, faults>>

RestartFails(l) ==
    /\ pc[l] = "restart"
    /\ SsmFails(target[l])
    /\ Return(l) \/ End(l)
    /\ GivenUp(l, Ssm(l, "start"))
    /\ Blame(target[l], "restart")
    /\ UNCHANGED <<phase, eipVars, calls>>

ReassociateFault(l) == phase[target[l]] # "gone"

\* AllowReassociation=False: the address must be free; a host has room for one.
CanAssociate(l) ==
    owner[new[l]] = None /\ EipsOf(target[l]) = {} /\ phase[target[l]] # "gone"

Associated(l) ==
    /\ owner' = [owner EXCEPT ![new[l]] = target[l]]
    /\ uses' = [uses EXCEPT ![new[l]] = @ + 1]

\* A launch hook may be overtaken: by its own timeout and another invocation, or by
\* recipes that have already configured Postfix without the address.
Overtaken(l) ==
    IF pc[l] # "attach" THEN {}
    ELSE IF phase[target[l]] # "launching" THEN {"stale"}
    ELSE IF boot[target[l]] = "done" THEN {"early"} ELSE {}

Associate(l) ==
    /\ pc[l] \in {"attach", "associate"} /\ CanAssociate(l)
    /\ Associated(l)
    /\ Goto(l, IF pc[l] = "attach" THEN "continue" ELSE "hostname")
    /\ blame' = [blame EXCEPT ![target[l]] = @ \cup Overtaken(l)]
    /\ UNCHANGED <<phase, hostVars, kind, target, listed, cur, new, seen, calls, faults>>

\* EC2 answers an error, or its answer is lost after the address was associated.
AssociateFails(l) ==
    /\ pc[l] \in {"attach", "associate"}
    /\ \/ ~CanAssociate(l) /\ UNCHANGED <<eipVars, faults>>
       \/ Fault /\ UNCHANGED eipVars
       \/ CanAssociate(l) /\ Fault /\ Associated(l)
    /\ \/ /\ pc[l] = "attach"
          /\ Goto(l, "abandon")
          /\ blame' = [blame EXCEPT ![target[l]] = @ \cup Overtaken(l)]
          /\ UNCHANGED <<kind, target, listed, cur, new, seen>>
       \/ /\ pc[l] = "associate"
          /\ Blame(target[l], "associate")
          /\ Return(l)
    /\ UNCHANGED <<phase, hostVars, calls>>

\* A rotation that comes to its end with its address in place repairs what earlier
\* ones left behind, unless others are still at work.
Repaired(l) ==
    blame' = [blame EXCEPT ![target[l]] =
                IF /\ owner[new[l]] = target[l] /\ ~RotatedByAnother(l)
                   /\ \A c \in late : c.inst # target[l]
                THEN {} ELSE @]

OldNameFault(l) == hostname[target[l]]

\* myhostname becomes the reverse name of the new address.
NewName(l) == new[l]

\* postconf, and then monit starts Postfix: the script does not stop at a failed postconf,
\* and its status is that of monit.
UpdateHostname(l) ==
    /\ pc[l] = "hostname" /\ phase[target[l]] # "gone"
    /\ \/ /\ hostname' = [hostname EXCEPT ![target[l]] = NewName(l)]
          /\ Repaired(l)
          /\ UNCHANGED faults
       \/ /\ Blame(target[l], "postconf")
          /\ SsmFails(target[l])
          /\ UNCHANGED hostname
    /\ postfix' = [postfix EXCEPT ![target[l]] = "running"]
    /\ Return(l)
    /\ UNCHANGED <<phase, eipVars, bootVars, late, calls>>

\* The command fails or is given up on, or only monit fails.
UpdateHostnameFails(l) ==
    /\ pc[l] = "hostname"
    /\ SsmFails(target[l])
    /\ \/ (Return(l) \/ End(l)) /\ GivenUp(l, Ssm(l, "hostname"))
       \/ /\ End(l)
          /\ hostname' = [hostname EXCEPT ![target[l]] = NewName(l)]
          /\ UNCHANGED <<bootVars, postfix, late>>
    /\ Blame(target[l], "hostname")
    /\ UNCHANGED <<phase, eipVars, calls>>

\* The host is terminated, and EC2 releases its address.
Terminate(i) ==
    /\ phase' = [phase EXCEPT ![i] = "gone"]
    /\ owner' = [a \in Address |-> IF owner[a] = i THEN None ELSE owner[a]]
    /\ UNCHANGED uses

\* complete_lifecycle_action; a hook that is completed already answers an error,
\* which is logged.
CompleteLifecycleAction(l) ==
    /\ pc[l] \in {"continue", "abandon"}
    /\ IF phase[target[l]] # "launching" THEN UNCHANGED <<phase, eipVars, faults>>
       ELSE \/ Fault /\ UNCHANGED <<phase, eipVars>>
            \/ /\ pc[l] = "continue"
               /\ phase' = [phase EXCEPT ![target[l]] = "launched"]
               /\ UNCHANGED <<eipVars, faults>>
            \/ pc[l] = "abandon" /\ Terminate(target[l]) /\ UNCHANGED faults
    /\ End(l)
    /\ UNCHANGED <<hostVars, blame, calls>>

\* The lambda's own timeout ends the invocation anywhere.
Abort(l) ==
    /\ pc[l] # "idle"
    /\ Fault
    /\ IF pc[l] \in MidRotation THEN Blame(target[l], "aborted") ELSE UNCHANGED blame
    /\ End(l)
    /\ UNCHANGED <<phase, eipVars, hostVars, calls>>

\* A command that was given up on runs after all.
RunLate(c) ==
    /\ c \in late
    /\ late' = late \ {c}
    /\ postfix' = [postfix EXCEPT ![c.inst] = IF c.cmd = "stop" THEN "stopped" ELSE "running"]
    /\ \/ c.cmd = "hostname" /\ hostname' = [hostname EXCEPT ![c.inst] = c.addr]
       \/ UNCHANGED hostname
    /\ Blame(c.inst, "late")
    /\ UNCHANGED <<phase, eipVars, bootVars, jobVars, calls, faults>>

\* The AutoScaling group starts a host, and gives its launch hook up when the
\* heartbeat timeout ends; the default result is ABANDON.
Launch(i) ==
    /\ phase[i] = "absent"
    /\ phase' = [phase EXCEPT ![i] = "launching"]
    /\ UNCHANGED <<eipVars, hostVars, jobVars, blame, calls, faults>>

HookTimesOut(i) ==
    /\ phase[i] = "launching"
    /\ Terminate(i)
    /\ UNCHANGED <<hostVars, jobVars, blame, calls, faults>>

GrowOld(i) ==
    /\ phase[i] = "launched"
    /\ phase' = [phase EXCEPT ![i] = "old"]
    /\ UNCHANGED <<eipVars, hostVars, jobVars, blame, calls, faults>>

\* The recipes run from the boot on, beside the launch hook.  They look for the name
\* of whatever public address the host has at that time.
ReadName(i) ==
    /\ boot[i] = "booting" /\ phase[i] \notin {"absent", "gone"}
    /\ \E a \in Address \cup {None} : IsListed(i, a) /\ bootName' = [bootName EXCEPT ![i] = a]
    /\ boot' = [boot EXCEPT ![i] = "named"]
    /\ UNCHANGED <<phase, eipVars, postfix, hostname, late, jobVars, blame, calls, faults>>

\* They configure Postfix with it and start it: too early, unless the address is still
\* the host's and nobody is exchanging it.
Configure(i) ==
    /\ boot[i] = "named" /\ phase[i] # "gone"
    /\ hostname' = [hostname EXCEPT ![i] = bootName[i]]
    /\ postfix' = [postfix EXCEPT ![i] = "running"]
    /\ boot' = [boot EXCEPT ![i] = "done"]
    /\ bootName' = [bootName EXCEPT ![i] = None]
    /\ IF EipsOf(i) = {bootName[i]} /\ ~Rotated(i) THEN UNCHANGED blame ELSE Blame(i, "early")
    /\ UNCHANGED <<phase, eipVars, late, jobVars, calls, faults>>

Work(l) ==
    \/ InvokeForLaunch(l) \/ InvokeForOne(l) \/ InvokeForAll(l) \/ LookUpOne(l) \/ NextHost(l)
    \/ Choose(l) \/ ChooseFails(l) \/ Stop(l) \/ StopFails(l)
    \/ Disassociate(l) \/ DisassociateFails(l) \/ DisassociateNothing(l)
    \/ Restart(l) \/ RestartFails(l) \/ Associate(l) \/ AssociateFails(l)
    \/ UpdateHostname(l) \/ UpdateHostnameFails(l)
    \/ CompleteLifecycleAction(l) \/ Abort(l)

Ec2(i) == Launch(i) \/ HookTimesOut(i) \/ GrowOld(i)

Recipes(i) == ReadName(i) \/ Configure(i)

Next ==
    \/ \E l \in Lambda : Work(l)
    \/ \E c \in Command : RunLate(c)
    \/ \E i \in Instance : Ec2(i) \/ Recipes(i)

Spec == Init /\ [][Next]_vars

-----------------------------------------------------------------------------
(***************************************************************************)
(* Properties.                                                             *)
(***************************************************************************)

Serving(i) == phase[i] \in {"launched", "old"} /\ boot[i] = "done"

\* Type invariant: every variable holds the kind of value the code gives it.
TypeOK ==
    /\ phase \in [Instance -> {"absent", "launching", "launched", "old", "gone"}]
    /\ owner \in [Address -> Instance \cup {None}]
    /\ uses \in [Address -> Nat]
    /\ boot \in [Instance -> {"booting", "named", "done"}]
    /\ bootName \in [Instance -> Address \cup {None}]
    /\ postfix \in [Instance -> {"stopped", "running"}]
    /\ hostname \in [Instance -> Address \cup {None}]
    /\ late \subseteq Command
    /\ pc \in [Lambda -> {"idle", "next", "choose", "stop", "attach", "continue", "abandon"}
                            \cup MidRotation]
    /\ kind \in [Lambda -> {"none", "launch", "single", "all"}]
    /\ target \in [Lambda -> Instance \cup {None}]
    /\ listed \in [Lambda -> SUBSET (Instance \X (Address \cup {None}))]
    /\ cur \in [Lambda -> Association]
    /\ new \in [Lambda -> Address \cup {None}]
    /\ seen \in [Lambda -> [Address -> Nat]]
    /\ blame \in [Instance -> SUBSET Cause]
    /\ calls \in 0..MaxCalls /\ faults \in 0..MaxFaults

\* No host is left with Postfix told to stop unless a step failed for which rotate_eip
\* has no remedy: a failed disassociation, by itself, is made good.
StoppedIsAccounted ==
    \A i \in Instance :
        Serving(i) /\ postfix[i] = "stopped" /\ ~Rotated(i) =>
            blame[i] \cap {"late", "aborted", "no address", "restart", "associate",
                           "hostname"} # {}

\* No host sends mail without one of the addresses unless the address was
\* released for it and could not be tagged, was released by the rotation of
\* another host, rotations of the host ran into each other or into the past, or
\* its recipes were at work before it had the address or while it lost it.
RunningHasAddress ==
    \A i \in Instance :
        Serving(i) /\ postfix[i] = "running" /\ ~Rotated(i) /\ EipsOf(i) = {} =>
            blame[i] \cap {"untagged", "crossed", "stale", "late", "early"} # {}

\* A host that sends mail presents the reverse name of the address it sends from, unless
\* a hook came too late for it, a rotation failed after the association or was aborted,
\* postconf failed under a command that was reported as Success, or the recipes
\* configured Postfix with the name of another address.
NameMatchesAddress ==
    \A i \in Instance :
        Serving(i) /\ postfix[i] = "running" /\ ~Rotated(i)
            /\ blame[i] \cap {"stale", "hostname", "associate", "aborted", "postconf", "early"} = {} =>
            EipsOf(i) \subseteq {hostname[i]}

\* A host that the launch hook put in service has an address to start with, unless a
\* rotation that an operator started, and that asks nothing of the host's age, has it in
\* hand, failed or was aborted.
LaunchedHasAddress ==
    \A i \in Instance :
        phase[i] = "launched" /\ ~Rotated(i) /\ EipsOf(i) = {} =>
            blame[i] \cap {"untagged", "crossed", "associate", "aborted"} # {}

\* A host in service loses its address only to a rotation of its own (the scheduled
\* one leaves young hosts alone), or to one of another host which had the address when
\* it was read, and lost it to this host before it was looked up.
LossAccounted ==
    \A a \in Address :
        owner[a] # None /\ owner'[a] # owner[a] /\ phase[owner[a]] # "launching" =>
            /\ owner'[a] = None
            /\ \E l \in Lambda :
                /\ pc[l] = "disassociate" /\ pc'[l] # "disassociate" /\ cur[l].addr = a
                /\ \/ target[l] = owner[a] /\ (kind[l] = "single" \/ phase[owner[a]] = "old")
                   \/ target[l] # owner[a] /\ seen[l][a] < cur[l].id

LossIsAccounted == [][LossAccounted]_vars
=============================================================================
