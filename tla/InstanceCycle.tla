---------------------------- MODULE InstanceCycle ----------------------------
(***************************************************************************)
(* xdelivery-instances-cycle.py: after a deployment, the outdated hosts    *)
(* are terminated through their AutoScaling groups, in chunks; for each    *)
(* chunk the script waits until the old hosts are terminated and the new   *)
(* ones are running, healthy and in service.                               *)
(*                                                                         *)
(* The AutoScaling groups (one host each), EC2 and the load balancer are   *)
(* external and modelled from how the script uses them.  Definitions named *)
(* ...Fault are plausible mistakes in the code that show what the          *)
(* properties tell apart; nothing else refers to them.                     *)
(***************************************************************************)
EXTENDS Naturals, FiniteSets

CONSTANTS
    Group,       \* AutoScaling groups
    Term,        \* --term: "the max number of instances to terminate at once"
    MaxFaults    \* bound: failed calls, waiters that give up, hosts that die

ASSUME GroupAssumption == IsFiniteSet(Group)

ASSUME TermAssumption == Term \in Nat \ {0}

ASSUME BoundAssumption == MaxFaults \in Nat

VARIABLES
    old,        \* old[g]: the outdated host of g
    new,        \* new[g]: the host that replaces it
    wants,      \* groups whose desired capacity is still one
    pc,
    queue,      \* termination_queue, without the chunks begun
    chunk, todo,\* tq, and those of it still to be terminated
    watched,    \* groups whose new host has the id that get_new_instance found
    faults,
    \* bookkeeping
    cycled,     \* groups whose host the script terminated
    skipped,    \* groups of chunks whose termination was not awaited
    troubled,   \* groups in which a host died by itself
    unlisted    \* groups whose outdated host was not running when listed

scriptVars == <<pc, queue, chunk, todo, watched>>
noteVars == <<cycled, skipped, troubled, unlisted>>
vars == <<old, new, wants, scriptVars, faults, noteVars>>

Stages == <<"none", "pending", "running", "ok", "in service">>
Stage == {Stages[k] : k \in 1..5}
AtLeast(g, k) == \E j \in k..5 : new[g] = Stages[j]

Init ==
    /\ old \in [Group -> {"starting", "in service"}]
    /\ new = [g \in Group |-> "none"]
    /\ wants = Group
    /\ pc = "list"
    /\ queue = {} /\ chunk = {} /\ todo = {}
    /\ watched = {}
    /\ faults = 0
    /\ cycled = {} /\ skipped = {} /\ troubled = {} /\ unlisted = {}

Fault == faults < MaxFaults /\ faults' = faults + 1

-----------------------------------------------------------------------------
\* The script.

\* get_instances finds the running hosts; build_check keeps the outdated ones.
List ==
    /\ pc = "list"
    /\ queue' = {g \in Group : old[g] = "in service"}
    /\ unlisted' = {g \in Group : old[g] = "starting"}
    /\ pc' = "chunk"
    /\ UNCHANGED <<old, new, wants, chunk, todo, watched, faults, cycled, skipped, troubled>>

OneMoreFault == Term + 1

ChunkSize == Term

\* termination_control: the next --term instances, or what is left.
NextChunk ==
    /\ pc = "chunk" /\ queue # {}
    /\ \E tq \in SUBSET queue :
        /\ Cardinality(tq) = ChunkSize \/ (tq = queue /\ Cardinality(tq) < ChunkSize)
        /\ chunk' = tq /\ todo' = tq
        /\ queue' = queue \ tq
    /\ pc' = "terminate"
    /\ UNCHANGED <<old, new, wants, watched, faults, noteVars>>

Complete ==
    /\ pc = "chunk" /\ queue = {}
    /\ pc' = "complete"
    /\ UNCHANGED <<old, new, wants, queue, chunk, todo, watched, faults, noteVars>>

DecrementsFault(g) == wants \ {g}

\* ShouldDecrementDesiredCapacity=False: the group will start another host.
WantsAfter(g) == wants

Terminate(g) ==
    /\ pc = "terminate" /\ g \in todo /\ old[g] = "in service"
    /\ old' = [old EXCEPT ![g] = "draining"]
    /\ wants' = WantsAfter(g)
    /\ cycled' = cycled \cup {g}
    /\ todo' = todo \ {g}
    /\ UNCHANGED <<new, pc, queue, chunk, watched, faults, skipped, troubled, unlisted>>

\* A ClientError is logged and forgotten; it is the answer for a host that died.
TerminateFails(g) ==
    /\ pc = "terminate" /\ g \in todo
    /\ (old[g] # "in service" /\ UNCHANGED faults) \/ Fault
    /\ todo' = todo \ {g}
    /\ UNCHANGED <<old, new, wants, pc, queue, chunk, watched, noteVars>>

AllTerminated ==
    /\ pc = "terminate" /\ todo = {}
    /\ \A g \in chunk : old[g] = "terminated"
    /\ pc' = "new"
    /\ UNCHANGED <<old, new, wants, queue, chunk, todo, watched, faults, noteVars>>

\* wait_for_instance_terminated returns False, and the loop goes on with the next
\* chunk: the hosts drain for longer than the waiter waits, or were never terminated.
WaitTerminatedGivesUp ==
    /\ pc = "terminate" /\ todo = {}
    /\ Fault \/ ((\A g \in chunk : old[g] # "draining")
                    /\ (\E g \in chunk : old[g] = "in service") /\ UNCHANGED faults)
    /\ skipped' = skipped \cup chunk
    /\ pc' = "chunk"
    /\ UNCHANGED <<old, new, wants, queue, chunk, todo, watched, cycled, troubled, unlisted>>

\* get_new_instance loops until each group shows another instance id.
GetNewInstances ==
    /\ pc = "new" /\ \A g \in chunk : new[g] # "none"
    /\ watched' = chunk
    /\ pc' = "running"
    /\ UNCHANGED <<old, new, wants, queue, chunk, todo, faults, noteVars>>

\* One of the three waiters sees what it waits for at all hosts of the chunk.
Wait(label, k, next) ==
    /\ pc = label
    /\ chunk \subseteq watched /\ \A g \in chunk : AtLeast(g, k)
    /\ pc' = next
    /\ UNCHANGED <<old, new, wants, queue, chunk, todo, watched, faults, noteVars>>

IgnoredFault == "chunk"

UncaughtFault == "raised"

\* "NOT running", "status NOT OK", "NOT in service": exit(1).
OnWaiterError == "exit 1"

\* A new host is gone, the waiter gives up or its call fails.
WaiterError ==
    /\ pc \in {"running", "ok", "in service"}
    /\ (~(chunk \subseteq watched) /\ UNCHANGED faults) \/ Fault
    /\ pc' = OnWaiterError
    /\ UNCHANGED <<old, new, wants, queue, chunk, todo, watched, noteVars>>

Script ==
    \/ List \/ NextChunk \/ Complete
    \/ \E g \in Group : Terminate(g) \/ TerminateFails(g)
    \/ AllTerminated \/ WaitTerminatedGivesUp \/ GetNewInstances
    \/ Wait("running", 3, "ok") \/ Wait("ok", 4, "in service")
    \/ Wait("in service", 5, "chunk") \/ WaiterError

-----------------------------------------------------------------------------
\* The AutoScaling groups.

OldStarts(g) ==
    /\ old[g] = "starting"
    /\ old' = [old EXCEPT ![g] = "in service"]
    /\ UNCHANGED <<new, wants, scriptVars, faults, noteVars>>

\* The terminating hook has let the host go.
Drained(g) ==
    /\ old[g] = "draining"
    /\ old' = [old EXCEPT ![g] = "terminated"]
    /\ UNCHANGED <<new, wants, scriptVars, faults, noteVars>>

Launch(g) ==
    /\ old[g] \in {"draining", "terminated"} /\ new[g] = "none" /\ g \in wants
    /\ new' = [new EXCEPT ![g] = "pending"]
    /\ UNCHANGED <<old, wants, scriptVars, faults, noteVars>>

Progress(g) ==
    /\ \E k \in 2..4 :
        /\ new[g] = Stages[k]
        /\ new' = [new EXCEPT ![g] = Stages[k + 1]]
    /\ UNCHANGED <<old, wants, scriptVars, faults, noteVars>>

\* A host fails its health checks, is terminated and will be replaced.
HostDies(g) ==
    /\ Fault
    /\ \/ old[g] \in {"starting", "in service"}
            /\ old' = [old EXCEPT ![g] = "terminated"] /\ UNCHANGED new
       \/ new[g] # "none" /\ new' = [new EXCEPT ![g] = "none"] /\ UNCHANGED old
    /\ watched' = watched \ {g}
    /\ troubled' = troubled \cup {g}
    /\ UNCHANGED <<wants, pc, queue, chunk, todo, cycled, skipped, unlisted>>

Advance(g) == OldStarts(g) \/ Drained(g) \/ Launch(g) \/ Progress(g)

Next == Script \/ \E g \in Group : Advance(g) \/ HostDies(g)

Spec == Init /\ [][Next]_vars

\* The script runs; a group that wants a host gets one, and hooks end.
Fairness == WF_vars(Script) /\ \A g \in Group : WF_vars(Advance(g))

FairSpec == Spec /\ Fairness

-----------------------------------------------------------------------------
(***************************************************************************)
(* Properties.                                                             *)
(***************************************************************************)

\* Type invariant: every variable holds the kind of value the code gives it.
TypeOK ==
    /\ old \in [Group -> {"starting", "in service", "draining", "terminated"}]
    /\ new \in [Group -> Stage]
    /\ pc \in {"list", "chunk", "terminate", "new", "running", "ok", "in service",
               "complete", "exit 1"}
    /\ queue \subseteq Group /\ chunk \subseteq Group /\ todo \subseteq chunk
    /\ \A s \in {wants, watched, cycled, skipped, troubled, unlisted} : s \subseteq Group
    /\ faults \in 0..MaxFaults

\* At most --term hosts are out of service because of the script, not counting the
\* chunks whose termination it gave up on and the hosts that died by themselves.
AtMostTermDown ==
    Cardinality({g \in cycled \ (skipped \cup troubled) : new[g] # "in service"}) <= Term

\* "Complete!": every host is new and in service, except in the chunks that were
\* given up on, in groups with a dead host, and where a host had yet to start when
\* the script listed the running ones.
CompleteMeansReplaced ==
    pc = "complete" =>
        \A g \in Group \ (skipped \cup troubled \cup unlisted) : new[g] = "in service"

\* The script ends, with success or exit(1): no waiter waits for ever, and
\* get_new_instance is not left looking for a host that never comes.
CycleEnds == <>(pc \in {"complete", "exit 1"})
=============================================================================
