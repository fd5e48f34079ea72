-------------------------- MODULE InstanceCycleProofs --------------------------
(***************************************************************************)
(* Theorems about InstanceCycle, for every finite set of groups, every     *)
(* chunk size and every number of failures.                                *)
(***************************************************************************)
EXTENDS InstanceCycle, FiniteSetTheorems, TLAPS

LEMMA StageNames ==
    /\ Stages[1] = "none" /\ Stages[2] = "pending" /\ Stages[3] = "running"
    /\ Stages[4] = "ok" /\ Stages[5] = "in service"
    /\ Stage = {"none", "pending", "running", "ok", "in service"}
<1>1. /\ Stages[1] = "none" /\ Stages[2] = "pending" /\ Stages[3] = "running"
      /\ Stages[4] = "ok" /\ Stages[5] = "in service"
    BY DEF Stages
<1>2. 1..5 = {1, 2, 3, 4, 5}
    OBVIOUS
<1> QED BY <1>1, <1>2 DEF Stage

LEMMA FaultKeeps == faults \in 0..MaxFaults /\ Fault => faults' \in 0..MaxFaults
BY BoundAssumption DEF Fault

-----------------------------------------------------------------------------
\* Where the script is between taking a chunk and being done with it.
Working == {"terminate", "new", "running", "ok", "in service", "exit 1"}

\* The chunks part the listed groups, and a chunk has at most Term of them.
Parted ==
    /\ queue \cap (chunk \cup cycled) = {}
    /\ unlisted \cap (queue \cup chunk \cup cycled) = {}
    /\ Cardinality(chunk) <= Term
    /\ pc = "list" => queue = {} /\ chunk = {} /\ cycled = {}
    /\ pc = "complete" => queue = {}

\* Every listed group is ahead of the script, in its hands, behind it with a new host
\* in service, or has an excuse.
Covered ==
    /\ pc = "list" => \A g \in Group : old[g] \in {"starting", "in service"} \/ g \in troubled
    /\ pc # "list" => \A g \in Group :
        \/ g \in skipped \cup troubled \cup unlisted \cup queue
        \/ pc \in Working /\ g \in chunk
        \/ new[g] = "in service"

IInv == TypeOK /\ Parted /\ Covered

LEMMA IInvInit == Init => IInv
<1> SUFFICES ASSUME Init PROVE IInv
    OBVIOUS
<1>1. TypeOK
    <2>1. new \in [Group -> Stage] /\ old \in [Group -> {"starting", "in service"}]
        <3>1. "none" \in Stage
            BY StageNames
        <3> QED BY <3>1 DEF Init
    <2>2. faults \in 0..MaxFaults
        <3>1. faults = 0
            BY DEF Init
        <3> QED BY <3>1, BoundAssumption
    <2> QED BY <2>1, <2>2 DEF Init, TypeOK
<1>2. Parted
    <2>1. Cardinality({}) <= Term
        BY FS_EmptySet, TermAssumption
    <2> QED BY <2>1 DEF Init, Parted
<1>3. Covered
    BY DEF Init, Covered
<1> QED BY <1>1, <1>2, <1>3 DEF IInv

\* The script's own steps.
LEMMA ScriptStep ==
    ASSUME IInv, Script
    PROVE  IInv'
<1> USE DEF noteVars
<1>1. TypeOK /\ Parted /\ Covered
    BY DEF IInv
<1>2. CASE List
    <2>1. TypeOK'
        BY <1>1, <1>2 DEF List, TypeOK
    <2>2. Parted'
        BY <1>1, <1>2 DEF List, Parted
    <2>3. Covered'
        BY <1>1, <1>2 DEF List, Covered
    <2> QED BY <2>1, <2>2, <2>3 DEF IInv
<1>3. CASE NextChunk
    <2>1. PICK tq \in SUBSET queue :
            /\ Cardinality(tq) = ChunkSize \/ (tq = queue /\ Cardinality(tq) < ChunkSize)
            /\ chunk' = tq /\ todo' = tq
            /\ queue' = queue \ tq
        BY <1>3 DEF NextChunk
    <2>2. /\ pc = "chunk" /\ pc' = "terminate"
          /\ UNCHANGED <<old, new, wants, watched, faults, noteVars>>
        BY <1>3 DEF NextChunk
    <2>3. Cardinality(tq) <= Term
        <3>1. tq \subseteq Group
            BY <1>1 DEF TypeOK
        <3>2. Cardinality(tq) \in Nat
            BY <3>1, GroupAssumption, FS_Subset, FS_CardinalityType
        <3> QED BY <2>1, <3>2, TermAssumption DEF ChunkSize
    <2>4. TypeOK'
        BY <1>1, <2>1, <2>2 DEF TypeOK
    <2>5. Parted'
        BY <1>1, <2>1, <2>2, <2>3 DEF Parted
    <2>6. Covered'
        BY <1>1, <2>1, <2>2 DEF Covered, Working
    <2> QED BY <2>4, <2>5, <2>6 DEF IInv
<1>4. CASE Complete
    <2>1. TypeOK' /\ Parted' /\ Covered'
        BY <1>1, <1>4 DEF Complete, TypeOK, Parted, Covered, Working
    <2> QED BY <2>1 DEF IInv
<1>5. ASSUME NEW g \in Group, Terminate(g) PROVE IInv'
    <2>1. /\ pc = "terminate" /\ g \in todo /\ old' = [old EXCEPT ![g] = "draining"]
          /\ cycled' = cycled \cup {g} /\ todo' = todo \ {g} /\ wants' = wants
          /\ UNCHANGED <<new, pc, queue, chunk, watched, faults, skipped, troubled, unlisted>>
        BY <1>5 DEF Terminate, WantsAfter
    <2>2. TypeOK'
        <3>1. TypeOK
            BY <1>1
        <3>2. old' \in [Group -> {"starting", "in service", "draining", "terminated"}]
            BY <2>1, <3>1 DEF TypeOK
        <3>3. /\ cycled' \subseteq Group /\ todo' \subseteq chunk' /\ chunk' \subseteq Group
              /\ queue' \subseteq Group
            BY <2>1, <3>1 DEF TypeOK
        <3>4. /\ wants' \subseteq Group /\ watched' \subseteq Group /\ skipped' \subseteq Group
              /\ troubled' \subseteq Group /\ unlisted' \subseteq Group
            BY <2>1, <3>1 DEF TypeOK
        <3>5. new' \in [Group -> Stage] /\ faults' \in 0..MaxFaults /\ pc' = "terminate"
            BY <2>1, <3>1 DEF TypeOK
        <3> QED BY <3>2, <3>3, <3>4, <3>5 DEF TypeOK
    <2>3. Parted'
        BY <1>1, <2>1 DEF TypeOK, Parted
    <2>4. Covered /\ pc # "list" /\ UNCHANGED <<pc, new, queue, chunk, skipped, troubled, unlisted>>
        BY <1>1, <2>1
    <2>5. Covered'
        BY <2>4 DEF Covered
    <2> QED BY <2>2, <2>3, <2>5 DEF IInv
<1>6. ASSUME NEW g \in Group, TerminateFails(g) PROVE IInv'
    <2>1. TypeOK'
        BY <1>1, <1>6, FaultKeeps DEF TerminateFails, TypeOK
    <2>2. Parted' /\ Covered'
        BY <1>1, <1>6 DEF TerminateFails, Parted, Covered
    <2> QED BY <2>1, <2>2 DEF IInv
<1>7. CASE AllTerminated \/ GetNewInstances
    <2>1. TypeOK'
        BY <1>1, <1>7 DEF AllTerminated, GetNewInstances, TypeOK
    <2>2. Parted' /\ Covered'
        BY <1>1, <1>7 DEF AllTerminated, GetNewInstances, Parted, Covered, Working
    <2> QED BY <2>1, <2>2 DEF IInv
<1>8. CASE WaitTerminatedGivesUp
    <2>1. TypeOK'
        BY <1>1, <1>8, FaultKeeps DEF WaitTerminatedGivesUp, TypeOK
    <2>2. Parted' /\ Covered'
        BY <1>1, <1>8 DEF WaitTerminatedGivesUp, Parted, Covered, Working
    <2> QED BY <2>1, <2>2 DEF IInv
<1>9. CASE Wait("running", 3, "ok") \/ Wait("ok", 4, "in service")
    <2>1. TypeOK'
        BY <1>1, <1>9 DEF Wait, TypeOK
    <2>2. Parted' /\ Covered'
        BY <1>1, <1>9 DEF Wait, Parted, Covered, Working
    <2> QED BY <2>1, <2>2 DEF IInv
<1>10. CASE Wait("in service", 5, "chunk")
    <2>1. \A g \in chunk : new[g] = "in service"
        <3>1. \A g \in chunk : \E j \in 5..5 : new[g] = Stages[j]
            BY <1>10 DEF Wait, AtLeast
        <3>2. 5..5 = {5}
            OBVIOUS
        <3> QED BY <3>1, <3>2, StageNames
    <2>2. TypeOK'
        BY <1>1, <1>10 DEF Wait, TypeOK
    <2>3. Parted' /\ Covered'
        BY <1>1, <1>10, <2>1 DEF Wait, Parted, Covered, Working
    <2> QED BY <2>2, <2>3 DEF IInv
<1>11. CASE WaiterError
    <2>1. TypeOK'
        BY <1>1, <1>11, FaultKeeps DEF WaiterError, OnWaiterError, TypeOK
    <2>2. Parted' /\ Covered'
        BY <1>1, <1>11 DEF WaiterError, OnWaiterError, Parted, Covered, Working
    <2> QED BY <2>1, <2>2 DEF IInv
<1> QED BY <1>2, <1>3, <1>4, <1>5, <1>6, <1>7, <1>8, <1>9, <1>10, <1>11 DEF Script

\* A host in service stays so unless it dies by itself.
LEMMA GroupStep ==
    ASSUME IInv, NEW g \in Group, Advance(g) \/ HostDies(g)
    PROVE  IInv'
<1> USE DEF scriptVars, noteVars
<1>1. TypeOK /\ Parted /\ Covered
    BY DEF IInv
<1>2. UNCHANGED <<pc, queue, chunk, todo, wants, cycled, skipped, unlisted>>
    BY DEF Advance, OldStarts, Drained, Launch, Progress, HostDies
<1>3. CASE Advance(g)
    <2>1. /\ old' \in [Group -> {"starting", "in service", "draining", "terminated"}]
          /\ new' \in [Group -> Stage]
          /\ \A h \in Group : new[h] = "in service" => new'[h] = "in service"
          /\ \A h \in Group : old[h] \in {"starting", "in service"}
                                => old'[h] \in {"starting", "in service"}
          /\ UNCHANGED <<faults, watched, troubled>>
        <3>1. CASE OldStarts(g) \/ Drained(g)
            BY <1>1, <3>1 DEF OldStarts, Drained, TypeOK
        <3>2. CASE Launch(g)
            BY <1>1, <3>2, StageNames DEF Launch, TypeOK
        <3>3. CASE Progress(g)
            <4>1. PICK k \in {2, 3, 4} :
                    new[g] = Stages[k] /\ new' = [new EXCEPT ![g] = Stages[k + 1]]
                <5>1. 2..4 = {2, 3, 4}
                    OBVIOUS
                <5> QED BY <3>3, <5>1 DEF Progress
            <4>2. Stages[k + 1] \in Stage /\ new[g] # "in service"
                <5>1. /\ k = 2 => k + 1 = 3
                      /\ k = 3 => k + 1 = 4
                      /\ k = 4 => k + 1 = 5
                    OBVIOUS
                <5>2. CASE k = 2
                    BY <4>1, <5>1, <5>2, StageNames, Zenon
                <5>3. CASE k = 3
                    BY <4>1, <5>1, <5>3, StageNames, Zenon
                <5>4. CASE k = 4
                    BY <4>1, <5>1, <5>4, StageNames, Zenon
                <5> QED BY <5>2, <5>3, <5>4
            <4> QED BY <1>1, <3>3, <4>1, <4>2 DEF Progress, TypeOK
        <3> QED BY <1>3, <3>1, <3>2, <3>3 DEF Advance
    <2>2. TypeOK'
        BY <1>1, <1>2, <2>1 DEF TypeOK
    <2>3. Parted'
        BY <1>1, <1>2 DEF Parted
    <2>4. Covered'
        BY <1>1, <1>2, <2>1 DEF Covered
    <2> QED BY <2>2, <2>3, <2>4 DEF IInv
<1>4. CASE HostDies(g)
    <2>1. /\ \A h \in Group \ {g} : old'[h] = old[h] /\ new'[h] = new[h]
          /\ troubled' = troubled \cup {g} /\ watched' = watched \ {g}
        BY <1>1, <1>4 DEF HostDies, TypeOK
    <2>2. /\ old' \in [Group -> {"starting", "in service", "draining", "terminated"}]
          /\ new' \in [Group -> Stage]
        BY <1>1, <1>4, StageNames DEF HostDies, TypeOK
    <2>3. faults' \in 0..MaxFaults
        BY <1>1, <1>4, FaultKeeps DEF HostDies, TypeOK
    <2>4. troubled' \subseteq Group /\ watched' \subseteq Group
        BY <1>1, <2>1 DEF TypeOK
    <2>5. TypeOK'
        BY <1>1, <1>2, <2>2, <2>3, <2>4 DEF TypeOK
    <2>6. Parted'
        BY <1>1, <1>2 DEF Parted
    <2>7. Covered'
        BY <1>1, <1>2, <2>1 DEF Covered
    <2> QED BY <2>5, <2>6, <2>7 DEF IInv
<1> QED BY <1>3, <1>4

\* The inductive invariant: no listed group gets lost between the chunks.
THEOREM Inductive == Spec => []IInv
<1>1. Init => IInv
    BY IInvInit
<1>2. IInv /\ UNCHANGED vars => IInv'
    BY DEF IInv, TypeOK, Parted, Covered, vars, scriptVars, noteVars
<1>3. IInv /\ [Next]_vars => IInv'
    BY <1>2, ScriptStep, GroupStep DEF Next
<1> QED BY <1>1, <1>3, PTL DEF Spec

-----------------------------------------------------------------------------
\* Every variable keeps its type.
THEOREM Typed == Spec => []TypeOK
<1>1. IInv => TypeOK
    BY DEF IInv
<1> QED BY <1>1, Inductive, PTL

\* The script takes at most Term hosts out of service at a time.
THEOREM TermBoundsOutage == Spec => []AtMostTermDown
<1>1. IInv => AtMostTermDown
    <2> SUFFICES ASSUME IInv PROVE AtMostTermDown
        OBVIOUS
    <2> DEFINE down == {g \in cycled \ (skipped \cup troubled) : new[g] # "in service"}
    <2>1. down \subseteq chunk
        BY DEF IInv, TypeOK, Parted, Covered
    <2>2. IsFiniteSet(chunk)
        BY GroupAssumption, FS_Subset DEF IInv, TypeOK
    <2>3. /\ Cardinality(down) \in Nat /\ Cardinality(chunk) \in Nat
          /\ Cardinality(down) <= Cardinality(chunk)
        BY <2>1, <2>2, FS_Subset, FS_CardinalityType
    <2>4. Cardinality(chunk) <= Term
        BY DEF IInv, Parted
    <2> HIDE DEF down
    <2>5. Cardinality(down) <= Term
        BY <2>3, <2>4, TermAssumption
    <2> QED BY <2>5 DEF AtMostTermDown, down
<1> QED BY <1>1, Inductive, PTL

\* "Complete!" is the truth, but for the hosts that have an excuse.
THEOREM CompletionIsReplacement == Spec => []CompleteMeansReplaced
<1>1. IInv => CompleteMeansReplaced
    BY DEF IInv, Parted, Covered, Working, CompleteMeansReplaced
<1> QED BY <1>1, Inductive, PTL

-----------------------------------------------------------------------------
(***************************************************************************)
(* The work left.  The prover cannot conclude CycleEnds, which needs       *)
(* fairness, but it can show what remains of it for every set of groups:   *)
(* the script has no loop that it can go round for ever.                   *)
(***************************************************************************)
Weight(label) ==
    CASE label = "terminate" -> 6
      [] label = "new" -> 5
      [] label = "running" -> 4
      [] label = "ok" -> 3
      [] label = "in service" -> 2
      [] label = "chunk" -> 1
      [] OTHER -> 0

Total == 7 * Cardinality(Group) + 2

\* A listed group costs a chunk, that is six steps and its termination, at most.
Work ==
    IF pc = "list" THEN Total ELSE 7 * Cardinality(queue) + Cardinality(todo) + Weight(pc)

\* Each step of the script takes some of the work away, and no group adds to it,
\* whatever dies, comes late or is given up on.
WorkShrinks == [][(Script => Work' < Work) /\ (~Script => Work' = Work)]_vars

\* The work left is a number, and no more than what a list of all groups takes.
WorkIsBounded == Work \in 0..Total

LEMMA Weights ==
    /\ Weight("terminate") = 6 /\ Weight("new") = 5 /\ Weight("running") = 4
    /\ Weight("ok") = 3 /\ Weight("in service") = 2 /\ Weight("chunk") = 1
    /\ Weight("complete") = 0 /\ Weight("exit 1") = 0
BY DEF Weight

LEMMA Sizes ==
    ASSUME NEW S \in SUBSET Group
    PROVE  IsFiniteSet(S) /\ Cardinality(S) \in Nat /\ Cardinality(S) <= Cardinality(Group)
BY GroupAssumption, FS_Subset, FS_CardinalityType

LEMMA WorkTyped ==
    ASSUME TypeOK
    PROVE  /\ Cardinality(queue) \in Nat /\ Cardinality(todo) \in Nat /\ Weight(pc) \in Nat
           /\ Work \in Nat /\ Total \in Nat
<1>1. Cardinality(queue) \in Nat /\ Cardinality(todo) \in Nat /\ Cardinality(Group) \in Nat
    BY Sizes DEF TypeOK
<1>2. Weight(pc) \in Nat
    BY DEF Weight
<1> QED BY <1>1, <1>2 DEF Work, Total

\* A chunk that is not empty leaves the queue.
LEMMA ChunkLeaves ==
    ASSUME IInv, NEW tq \in SUBSET queue, queue # {},
           Cardinality(tq) = Term \/ (tq = queue /\ Cardinality(tq) < Term)
    PROVE  /\ Cardinality(tq) \in Nat \ {0} /\ Cardinality(queue \ tq) \in Nat
           /\ Cardinality(queue) = Cardinality(queue \ tq) + Cardinality(tq)
<1>1. tq \in SUBSET Group /\ (queue \ tq) \in SUBSET Group /\ queue \in SUBSET Group
    BY DEF IInv, TypeOK
<1>2. /\ IsFiniteSet(tq) /\ IsFiniteSet(queue \ tq) /\ IsFiniteSet(queue)
      /\ Cardinality(tq) \in Nat /\ Cardinality(queue \ tq) \in Nat
    BY <1>1, Sizes
<1>3. Cardinality(queue) # 0
    BY <1>2, FS_EmptySet
<1>4. Cardinality(tq) # 0
    BY <1>3, TermAssumption
<1>5. (queue \ tq) \cup tq = queue /\ (queue \ tq) \cap tq = {}
    OBVIOUS
<1>6. Cardinality((queue \ tq) \cup tq) =
        Cardinality(queue \ tq) + Cardinality(tq) - Cardinality((queue \ tq) \cap tq)
    BY <1>2, FS_Union
<1>7. Cardinality({}) = 0
    BY FS_EmptySet
<1>8. Cardinality(queue) = Cardinality(queue \ tq) + Cardinality(tq) - 0
    BY <1>5, <1>6, <1>7
<1> QED BY <1>2, <1>4, <1>8

\* A script step shortens the queue, the chunk or the rest of the way.
LEMMA ScriptWorks ==
    ASSUME IInv, IInv', Script
    PROVE  Work' < Work
<1>1. Cardinality(queue) \in Nat /\ Cardinality(todo) \in Nat
    BY WorkTyped DEF IInv
<1>2. Cardinality(queue') \in Nat /\ Cardinality(todo') \in Nat
    <2>1. queue' \in SUBSET Group /\ todo' \in SUBSET Group
        BY DEF IInv, TypeOK
    <2> QED BY <2>1, Sizes
<1>3. CASE List
    <2>1. pc = "list" /\ pc' = "chunk" /\ todo' = todo /\ queue' \in SUBSET Group
        BY <1>3 DEF List
    <2>2. Cardinality(queue') <= Cardinality(Group) /\ Cardinality(Group) \in Nat
        BY <2>1, Sizes
    <2>3. Work' = 7 * Cardinality(queue') + Cardinality(todo) + 1
        BY <2>1 DEF Work, Weight
    <2>4. Cardinality(todo) = 0
        BY <2>1, FS_EmptySet DEF IInv, Parted, TypeOK
    <2> QED BY <1>2, <2>1, <2>2, <2>3, <2>4 DEF Work, Total
<1>4. CASE NextChunk
    <2>1. PICK tq \in SUBSET queue :
            /\ Cardinality(tq) = Term \/ (tq = queue /\ Cardinality(tq) < Term)
            /\ todo' = tq /\ queue' = queue \ tq
        BY <1>4 DEF NextChunk, ChunkSize
    <2>2. pc = "chunk" /\ pc' = "terminate" /\ queue # {}
        BY <1>4 DEF NextChunk
    <2>3. /\ Cardinality(tq) \in Nat \ {0} /\ Cardinality(queue \ tq) \in Nat
          /\ Cardinality(queue) = Cardinality(queue \ tq) + Cardinality(tq)
        BY <2>1, <2>2, ChunkLeaves
    <2>4. Work' = 7 * Cardinality(queue \ tq) + Cardinality(tq) + 6
        BY <2>1, <2>2 DEF Work, Weight
    <2>5. Work = 7 * Cardinality(queue) + Cardinality(todo) + 1
        BY <2>2 DEF Work, Weight
    <2> QED BY <1>1, <2>3, <2>4, <2>5
<1>5. CASE \E g \in Group : Terminate(g) \/ TerminateFails(g)
    <2>1. PICK g \in todo : todo' = todo \ {g} /\ UNCHANGED <<pc, queue>> /\ pc # "list"
        BY <1>5 DEF Terminate, TerminateFails
    <2>2. Cardinality(todo') = Cardinality(todo) - 1
        <3>1. IsFiniteSet(todo)
            BY Sizes DEF IInv, TypeOK
        <3> QED BY <2>1, <3>1, FS_RemoveElement
    <2>3. Work' = 7 * Cardinality(queue) + Cardinality(todo') + Weight(pc)
        BY <2>1 DEF Work
    <2>4. Work = 7 * Cardinality(queue) + Cardinality(todo) + Weight(pc)
        BY <2>1 DEF Work
    <2>5. Weight(pc) \in Nat
        BY DEF Weight
    <2> QED BY <1>1, <1>2, <2>2, <2>3, <2>4, <2>5
<1>6. ASSUME UNCHANGED <<queue, todo>>, pc # "list", pc' # "list", Weight(pc') < Weight(pc)
      PROVE  Work' < Work
    <2>1. Work' = 7 * Cardinality(queue) + Cardinality(todo) + Weight(pc')
        BY <1>6 DEF Work
    <2>2. Work = 7 * Cardinality(queue) + Cardinality(todo) + Weight(pc)
        BY <1>6 DEF Work
    <2>3. Weight(pc) \in Nat /\ Weight(pc') \in Nat
        BY DEF Weight
    <2> QED BY <1>1, <1>6, <2>1, <2>2, <2>3
<1>7. CASE Complete \/ AllTerminated \/ WaitTerminatedGivesUp \/ GetNewInstances \/ WaiterError
    <2>1. UNCHANGED <<queue, todo>>
        BY <1>7 DEF Complete, AllTerminated, WaitTerminatedGivesUp, GetNewInstances, WaiterError
    <2>2. \/ pc = "chunk" /\ pc' = "complete"
          \/ pc = "terminate" /\ pc' \in {"new", "chunk"}
          \/ pc = "new" /\ pc' = "running"
          \/ pc \in {"running", "ok", "in service"} /\ pc' = "exit 1"
        BY <1>7 DEF Complete, AllTerminated, WaitTerminatedGivesUp, GetNewInstances, WaiterError,
                    OnWaiterError
    <2>3. pc # "list" /\ pc' # "list"
        BY <2>2
    <2>4. \/ Weight(pc) = 1 /\ Weight(pc') = 0
          \/ Weight(pc) = 6 /\ (Weight(pc') = 5 \/ Weight(pc') = 1)
          \/ Weight(pc) = 5 /\ Weight(pc') = 4
          \/ (Weight(pc) = 4 \/ Weight(pc) = 3 \/ Weight(pc) = 2) /\ Weight(pc') = 0
        BY <2>2, Weights, Zenon
    <2>5. Weight(pc') < Weight(pc)
        BY <2>4
    <2> QED BY <1>6, <2>1, <2>3, <2>5
<1>8. CASE \/ Wait("running", 3, "ok") \/ Wait("ok", 4, "in service")
           \/ Wait("in service", 5, "chunk")
    <2>1. UNCHANGED <<queue, todo>>
        BY <1>8 DEF Wait
    <2>2. \/ pc = "running" /\ pc' = "ok"
          \/ pc = "ok" /\ pc' = "in service"
          \/ pc = "in service" /\ pc' = "chunk"
        BY <1>8 DEF Wait
    <2>3. pc # "list" /\ pc' # "list"
        BY <2>2
    <2>4. \/ Weight(pc) = 4 /\ Weight(pc') = 3
          \/ Weight(pc) = 3 /\ Weight(pc') = 2
          \/ Weight(pc) = 2 /\ Weight(pc') = 1
        BY <2>2, Weights, Zenon
    <2>5. Weight(pc') < Weight(pc)
        BY <2>4
    <2> QED BY <1>6, <2>1, <2>3, <2>5
<1> QED BY <1>3, <1>4, <1>5, <1>7, <1>8 DEF Script

\* The script runs at most 7 steps for each group and 2 more: none of its waits can
\* send it back to a chunk it has done or a host it has terminated.
THEOREM ScriptRunsDown == Spec => []WorkIsBounded /\ WorkShrinks
<1>1. IInv /\ IInv' /\ Next => (Script => Work' < Work) /\ (~Script => Work' = Work)
    <2> SUFFICES ASSUME IInv, IInv', Next, ~Script PROVE Work' = Work
        BY ScriptWorks
    <2>1. UNCHANGED <<pc, queue, todo>>
        BY DEF Next, Advance, HostDies, OldStarts, Drained, Launch, Progress, scriptVars
    <2> QED BY <2>1 DEF Work
<1>2. Init => WorkIsBounded
    <2> SUFFICES ASSUME Init PROVE WorkIsBounded
        OBVIOUS
    <2>1. Work = Total
        BY DEF Init, Work
    <2>2. Total \in Nat
        BY Sizes DEF Total
    <2> QED BY <2>1, <2>2 DEF WorkIsBounded
<1>3. IInv /\ IInv' /\ WorkIsBounded /\ [Next]_vars => WorkIsBounded'
    <2> SUFFICES ASSUME IInv, IInv', WorkIsBounded, [Next]_vars PROVE WorkIsBounded'
        OBVIOUS
    <2>1. Work' = Work \/ Work' < Work
        <3>1. CASE UNCHANGED vars
            BY <3>1 DEF vars, scriptVars, Work
        <3>2. CASE Next
            BY <1>1, <3>2
        <3> QED BY <3>1, <3>2
    <2>2. Work' \in Nat
        <3>1. queue' \in SUBSET Group /\ todo' \in SUBSET Group
            BY DEF IInv, TypeOK
        <3>2. Cardinality(queue') \in Nat /\ Cardinality(todo') \in Nat
            BY <3>1, Sizes
        <3>3. Weight(pc') \in Nat
            BY DEF Weight
        <3> QED BY <3>2, <3>3, Sizes DEF Work, Total
    <2>3. Total \in Nat /\ Work \in Nat
        BY WorkTyped DEF IInv
    <2> QED BY <2>1, <2>2, <2>3 DEF WorkIsBounded
<1> QED BY <1>1, <1>2, <1>3, Inductive, PTL DEF Spec, WorkShrinks
=============================================================================
