--------------------------- MODULE EbsVolumesProofs ---------------------------
(***************************************************************************)
(* Theorems about EbsVolumes, for every set of hosts and volumes and every *)
(* number of retries and failures.                                         *)
(***************************************************************************)
EXTENDS EbsVolumes, FiniteSetTheorems, TLAPS

Alive(h) == life[h] \in {"up", "leaving"}

\* What an attempt to install knows: its volume, the record it read, what it mounted.
HostInv(h) ==
    /\ life[h] = "absent" => pc[h] = "fetch"
    /\ pc[h] # "failed" => failed[h] <= MaxRetries
    /\ Alive(h) /\ pc[h] = "create" => base[h] = None
    /\ Alive(h) /\ pc[h] \in {"attach", "pvs", "create_lv", "mount", "store"} =>
        set[h] \in Volume /\ (base[h] = None \/ base[h] = set[h])
    /\ Alive(h) /\ pc[h] = "store" =>
        /\ mounted[h] \in Volume
        /\ mounted[h] = set[h] \/ "left over" \in blame[mounted[h]]
    /\ mounted[h] \in Volume => layer[mounted[h]] = "fs"

\* Mail is on a file system, and what has become of the record is known.
RecordInv ==
    /\ \A v \in mail : layer[v] = "fs"
    /\ MailIsRecorded
    /\ RecordedIsFormatted

IInv == TypeOK /\ (\A h \in Host : HostInv(h)) /\ RecordInv

\* No step takes a file system away or forgets a cause.
Grows ==
    /\ \A v \in Volume : layer[v] = "fs" => layer'[v] = "fs"
    /\ \A v \in Volume : blame[v] \subseteq blame'[v]

\* The step is h's alone.
Only(h) ==
    \A g \in Host \ {h} :
        /\ life'[g] = life[g] /\ pc'[g] = pc[g] /\ failed'[g] = failed[g]
        /\ set'[g] = set[g] /\ mounted'[g] = mounted[g] /\ base'[g] = base[g]

LEMMA HostFrame ==
    ASSUME IInv, NEW h \in Host, Only(h), Grows, HostInv(h)'
    PROVE  \A g \in Host : HostInv(g)'
<1> SUFFICES ASSUME NEW g \in Host \ {h} PROVE HostInv(g)'
    OBVIOUS
<1>1. HostInv(g)
    BY DEF IInv
<1> QED BY <1>1 DEF HostInv, Alive, Only, Grows

LEMMA RecordFrame ==
    ASSUME IInv, Grows, UNCHANGED <<mail, recorded>>
    PROVE  RecordInv'
<1>1. mail \subseteq Volume /\ recorded \in Volume \cup {None} /\ RecordInv
    BY DEF IInv, TypeOK
<1>2. \A v \in mail' : layer'[v] = "fs"
    BY <1>1 DEF RecordInv, Grows
<1>3. MailIsRecorded'
    BY <1>1 DEF RecordInv, MailIsRecorded, Grows
<1>4. RecordedIsFormatted'
    BY <1>1 DEF RecordInv, RecordedIsFormatted, Grows
<1> QED BY <1>2, <1>3, <1>4 DEF RecordInv

LEMMA FaultKeeps == faults \in 0..MaxFaults /\ Fault => faults' \in 0..MaxFaults
BY BoundAssumption DEF Fault

LEMMA IInvInit == Init => IInv
<1> SUFFICES ASSUME Init PROVE IInv
    OBVIOUS
<1>1. TypeOK
    BY BoundAssumption DEF Init, TypeOK
<1>2. ASSUME NEW h \in Host PROVE HostInv(h)
    BY BoundAssumption, NoneAssumption DEF Init, HostInv, Alive
<1>3. RecordInv
    BY DEF Init, RecordInv, MailIsRecorded, RecordedIsFormatted
<1> QED BY <1>1, <1>2, <1>3 DEF IInv

-----------------------------------------------------------------------------
\* install raises: whatever the attempt has mounted stays, its knowledge is lost.
LEMMA RaiseStep ==
    ASSUME IInv, NEW h \in Host,
           \/ CreateVolumeSetRaises(h) \/ AttachVolumeSetRaises(h) \/ CreateFileSystemRaises(h)
           \/ MountRaises(h) \/ StoreVolumeSetRaises(h)
    PROVE  IInv'
<1> USE DEF volumeVars
<1>1. TypeOK /\ HostInv(h)
    BY DEF IInv
<1>2. /\ Alive(h) /\ pc[h] \notin {"failed", "fetch", "serving"}
      /\ Raise(h) /\ UNCHANGED <<recorded, attached, devices, mail, blame>>
    BY DEF CreateVolumeSetRaises, AttachVolumeSetRaises, CreateFileSystemRaises, MountRaises,
           StoreVolumeSetRaises, At, Alive
<1>3. /\ created \subseteq created' /\ created' \subseteq Volume
      /\ layer' \in [Volume -> {"raw", "pv", "lv", "fs"}]
      /\ \A v \in Volume : layer[v] = "fs" => layer'[v] = "fs"
    <2>1. CASE CreateFileSystemRaises(h)
        BY <1>1, <2>1 DEF TypeOK, CreateFileSystemRaises, PvCreateWorks
    <2>2. CASE ~CreateFileSystemRaises(h)
        BY <1>1, <2>2 DEF TypeOK, CreateVolumeSetRaises, AttachVolumeSetRaises, MountRaises,
                          StoreVolumeSetRaises
    <2> QED BY <2>1, <2>2
<1>4. /\ mounted' \in [Host -> Volume \cup {None}]
      /\ \A g \in Host \ {h} : mounted'[g] = mounted[g]
      /\ mounted'[h] = mounted[h] \/ layer'[mounted'[h]] = "fs"
    <2>1. CASE MountRaises(h)
        <3>1. mounted' = mounted \/ \E v \in Devices(h) :
                layer[v] = "fs" /\ mounted' = [mounted EXCEPT ![h] = v]
            BY <2>1 DEF MountRaises
        <3>2. Devices(h) \subseteq Volume /\ layer' = layer
            BY <1>1, <2>1 DEF MountRaises, Devices, TypeOK
        <3>3. mounted \in [Host -> Volume \cup {None}]
            BY <1>1 DEF TypeOK
        <3> QED BY <3>1, <3>2, <3>3
    <2>2. CASE ~MountRaises(h)
        BY <1>1, <2>2 DEF TypeOK, CreateVolumeSetRaises, AttachVolumeSetRaises,
                          CreateFileSystemRaises, StoreVolumeSetRaises
    <2> QED BY <2>1, <2>2
<1>5. faults' \in 0..MaxFaults
    BY <1>1, FaultKeeps DEF TypeOK, CreateVolumeSetRaises, AttachVolumeSetRaises,
                            CreateFileSystemRaises, MountRaises, StoreVolumeSetRaises
<1>6. /\ life' = life
      /\ failed' = [failed EXCEPT ![h] = failed[h] + 1]
      /\ pc' = [pc EXCEPT ![h] = IF failed[h] < MaxRetries THEN "fetch" ELSE "failed"]
      /\ set' = [set EXCEPT ![h] = None] /\ base' = [base EXCEPT ![h] = None]
    BY <1>2 DEF Raise, RetriesLeft, Goto, Forget
<1>7. failed[h] \in 0..MaxRetries
    <2>1. failed[h] \in 0..(MaxRetries + 1) /\ failed[h] <= MaxRetries
        BY <1>1, <1>2 DEF TypeOK, HostInv
    <2> QED BY <2>1, BoundAssumption
<1>8. TypeOK'
    <2>1. failed' \in [Host -> 0..(MaxRetries + 1)]
        BY <1>1, <1>6, <1>7, BoundAssumption DEF TypeOK
    <2> QED BY <1>1, <1>2, <1>3, <1>4, <1>5, <1>6, <2>1 DEF TypeOK
<1>9. HostInv(h)'
    <2>1. failed'[h] = failed[h] + 1 /\ pc'[h] = IF failed[h] < MaxRetries THEN "fetch" ELSE "failed"
        BY <1>1, <1>6 DEF TypeOK
    <2>2. pc'[h] # "failed" => failed'[h] <= MaxRetries
        BY <1>7, <2>1, BoundAssumption
    <2>3. pc'[h] \in {"fetch", "failed"} /\ life'[h] # "absent"
        BY <1>2, <1>6, <2>1 DEF Alive
    <2>4. mounted'[h] \in Volume => layer'[mounted'[h]] = "fs"
        BY <1>1, <1>3, <1>4 DEF HostInv
    <2> QED BY <2>2, <2>3, <2>4 DEF HostInv
<1>10. Only(h) /\ Grows
    BY <1>1, <1>2, <1>3, <1>4, <1>6 DEF Only, Grows, TypeOK
<1>11. RecordInv'
    BY <1>2, <1>10, RecordFrame
<1> QED BY <1>8, <1>9, <1>10, <1>11, HostFrame DEF IInv

\* The steps before the mount.
LEMMA PrepareStep ==
    ASSUME IInv, NEW h \in Host,
           \/ Fetch(h) \/ CreateVolumeSet(h) \/ AttachVolumeSet(h) \/ Pvs(h) \/ CreateFileSystem(h)
    PROVE  IInv'
<1> USE DEF volumeVars
<1>1. TypeOK /\ HostInv(h)
    BY DEF IInv
<1>2. /\ Alive(h) /\ pc[h] \in {"fetch", "create", "attach", "pvs", "create_lv"}
      /\ UNCHANGED <<life, failed, mounted, recorded, devices, faults, mail, blame>>
    BY DEF Fetch, CreateVolumeSet, AttachVolumeSet, Pvs, CreateFileSystem, At, Alive
<1>3. /\ TypeOK' /\ Only(h) /\ pc'[h] \in {"create", "attach", "pvs", "create_lv", "mount"}
      /\ \A v \in Volume : layer[v] = "fs" => layer'[v] = "fs"
      /\ pc'[h] = "create" => base'[h] = None
      /\ pc'[h] # "create" => set'[h] \in Volume /\ (base'[h] = None \/ base'[h] = set'[h])
    <2>1. CASE Fetch(h)
        <3>1. /\ set' = [set EXCEPT ![h] = recorded] /\ base' = [base EXCEPT ![h] = recorded]
              /\ pc' = [pc EXCEPT ![h] = IF recorded = None THEN "create" ELSE "attach"]
              /\ UNCHANGED <<created, attached, layer>>
            BY <2>1 DEF Fetch, FetchVolumeSet, Goto
        <3>2. recorded \in created \cup {None}
            BY <1>1 DEF TypeOK
        <3> QED BY <1>1, <1>2, <3>1, <3>2, NoneAssumption DEF TypeOK, Only
    <2>2. CASE CreateVolumeSet(h)
        <3>1. PICK v \in Volume \ created :
                created' = created \cup {v} /\ set' = [set EXCEPT ![h] = v]
            BY <2>2 DEF CreateVolumeSet
        <3>2. /\ pc[h] = "create" /\ pc' = [pc EXCEPT ![h] = "attach"]
              /\ UNCHANGED <<base, attached, layer>>
            BY <2>2 DEF CreateVolumeSet, At, Goto
        <3>3. base[h] = None
            BY <1>1, <1>2, <3>2 DEF HostInv
        <3> QED BY <1>1, <1>2, <3>1, <3>2, <3>3 DEF TypeOK, Only
    <2>3. CASE AttachVolumeSet(h)
        <3>1. /\ pc[h] = "attach" /\ pc' = [pc EXCEPT ![h] = "pvs"]
              /\ attached' = [attached EXCEPT ![set[h]] = h]
              /\ UNCHANGED <<set, base, created, layer>>
            BY <2>3 DEF AttachVolumeSet, AfterAttach, At, Goto
        <3>2. set[h] \in Volume /\ (base[h] = None \/ base[h] = set[h])
            BY <1>1, <1>2, <3>1 DEF HostInv
        <3>3. devices \subseteq {v \in Volume : attached'[v] # None}
            BY <1>1, <3>1, <3>2, NoneAssumption DEF TypeOK
        <3> QED BY <1>1, <1>2, <3>1, <3>2, <3>3 DEF TypeOK, Only
    <2>4. CASE Pvs(h)
        <3>1. /\ pc[h] = "pvs" /\ UNCHANGED <<set, base, created, attached, layer>>
              /\ \/ pc' = [pc EXCEPT ![h] = "create_lv"]
                 \/ pc' = [pc EXCEPT ![h] = "mount"]
            BY <2>4 DEF Pvs, At, Goto
        <3>2. set[h] \in Volume /\ (base[h] = None \/ base[h] = set[h])
            BY <1>1, <1>2, <3>1 DEF HostInv
        <3> QED BY <1>1, <1>2, <3>1, <3>2 DEF TypeOK, Only
    <2>5. CASE CreateFileSystem(h)
        <3>1. /\ pc[h] = "create_lv" /\ UNCHANGED <<set, base, created, attached>>
              /\ pc' = [pc EXCEPT ![h] = "mount"] /\ layer' = [layer EXCEPT ![set[h]] = "fs"]
            BY <2>5 DEF CreateFileSystem, At, Goto
        <3>2. set[h] \in Volume /\ (base[h] = None \/ base[h] = set[h])
            BY <1>1, <1>2, <3>1 DEF HostInv
        <3> QED BY <1>1, <1>2, <3>1, <3>2 DEF TypeOK, Only
    <2> QED BY <2>1, <2>2, <2>3, <2>4, <2>5
<1>4. HostInv(h)'
    BY <1>1, <1>2, <1>3 DEF HostInv, Alive, TypeOK
<1>5. Grows
    BY <1>2, <1>3 DEF Grows
<1>6. RecordInv'
    BY <1>2, <1>5, RecordFrame
<1> QED BY <1>3, <1>4, <1>5, <1>6, HostFrame DEF IInv

\* The mount, and the store that makes the volume findable.
LEMMA MountStep ==
    ASSUME IInv, NEW h \in Host, Mount(h)
    PROVE  IInv'
<1> USE DEF volumeVars
<1>1. TypeOK /\ HostInv(h)
    BY DEF IInv
<1>2. /\ Alive(h) /\ pc[h] = "mount" /\ pc' = [pc EXCEPT ![h] = "store"]
      /\ UNCHANGED <<life, failed, set, base, recorded, created, attached, devices, layer,
                     faults, mail>>
    BY DEF Mount, At, Alive, Goto
<1>3. PICK v \in Volume :
        /\ layer[v] = "fs" /\ mounted' = [mounted EXCEPT ![h] = v]
        /\ blame' = [blame EXCEPT ![v] = IF v = set[h] THEN @ ELSE @ \cup {"left over"}]
    BY <1>1 DEF Mount, Devices, TypeOK
<1>4. TypeOK'
    BY <1>1, <1>2, <1>3 DEF TypeOK, Cause
<1>5. Only(h) /\ Grows
    BY <1>1, <1>2, <1>3 DEF Only, Grows, TypeOK
<1>6. HostInv(h)'
    <2>1. /\ mounted'[h] = v /\ pc'[h] = "store"
          /\ v = set[h] \/ "left over" \in blame'[v]
        BY <1>1, <1>2, <1>3 DEF TypeOK
    <2> QED BY <1>1, <1>2, <1>3, <2>1 DEF HostInv, Alive
<1>7. RecordInv'
    BY <1>2, <1>5, RecordFrame
<1> QED BY <1>4, <1>5, <1>6, <1>7, HostFrame DEF IInv

LEMMA SkipRetryStep ==
    ASSUME IInv, NEW h \in Host, SkipRetry(h)
    PROVE  IInv'
<1> USE DEF volumeVars
<1>1. TypeOK /\ HostInv(h) /\ RecordInv
    BY DEF IInv
<1>2. /\ Alive(h) /\ pc[h] = "fetch" /\ pc' = [pc EXCEPT ![h] = "serving"]
      /\ mounted[h] \in Volume /\ layer[mounted[h]] = "fs"
      /\ mail' = mail \cup {mounted[h]}
      /\ set' = [set EXCEPT ![h] = None] /\ base' = [base EXCEPT ![h] = None]
      /\ UNCHANGED <<life, failed, mounted, recorded, created, attached, devices, layer, faults>>
    BY <1>1 DEF SkipRetry, Serve, Forget, At, Alive, Goto, TypeOK, HostInv
<1>3. blame' = [blame EXCEPT ![mounted[h]] =
                    IF recorded = mounted[h] THEN @ ELSE @ \cup {"not stored"}]
    BY DEF SkipRetry
<1>4. TypeOK'
    BY <1>1, <1>2, <1>3 DEF TypeOK, Cause
<1>5. Only(h) /\ Grows
    BY <1>1, <1>2, <1>3 DEF Only, Grows, TypeOK
<1>6. HostInv(h)'
    BY <1>1, <1>2 DEF HostInv, Alive, TypeOK
<1>7. RecordInv'
    <2>1. recorded = mounted[h] \/ blame'[mounted[h]] # {}
        BY <1>1, <1>2, <1>3 DEF TypeOK
    <2>2. MailIsRecorded'
        BY <1>1, <1>2, <1>5, <2>1 DEF RecordInv, MailIsRecorded, Grows, TypeOK
    <2>3. RecordedIsFormatted'
        BY <1>1, <1>2, <1>5 DEF RecordInv, RecordedIsFormatted, Grows
    <2> QED BY <1>1, <1>2, <2>2, <2>3 DEF RecordInv
<1> QED BY <1>4, <1>5, <1>6, <1>7, HostFrame DEF IInv

LEMMA StoreStep ==
    ASSUME IInv, NEW h \in Host, StoreVolumeSet(h)
    PROVE  IInv'
<1> USE DEF volumeVars
<1>1. TypeOK /\ HostInv(h) /\ RecordInv
    BY DEF IInv
<1>2. /\ Alive(h) /\ pc[h] = "store" /\ pc' = [pc EXCEPT ![h] = "serving"]
      /\ recorded' = set[h] /\ mail' = mail \cup {mounted[h]}
      /\ set' = [set EXCEPT ![h] = None] /\ base' = [base EXCEPT ![h] = None]
      /\ UNCHANGED <<life, failed, mounted, created, attached, devices, layer, faults>>
    BY DEF StoreVolumeSet, Serve, Forget, At, Alive, Goto
<1>3. /\ set[h] \in Volume /\ set[h] \in created /\ set[h] # None
      /\ base[h] = None \/ base[h] = set[h]
      /\ mounted[h] \in Volume /\ layer[mounted[h]] = "fs"
      /\ mounted[h] = set[h] \/ "left over" \in blame[mounted[h]]
    BY <1>1, <1>2, NoneAssumption DEF HostInv, TypeOK
<1>4. blame' = IF recorded \in {None, set[h]} THEN blame
               ELSE [blame EXCEPT ![recorded] = @ \cup {"overwritten"}]
    BY <1>3 DEF StoreVolumeSet
<1>5. TypeOK'
    BY <1>1, <1>2, <1>3, <1>4 DEF TypeOK, Cause
<1>6. Only(h) /\ Grows
    BY <1>1, <1>2, <1>4 DEF Only, Grows, TypeOK
<1>7. HostInv(h)'
    BY <1>1, <1>2 DEF HostInv, Alive, TypeOK
<1>8. RecordInv'
    <2>1. recorded \in Volume /\ recorded # set[h] => blame'[recorded] # {}
        BY <1>1, <1>4, NoneAssumption DEF TypeOK
    <2>2. MailIsRecorded'
        <3> SUFFICES ASSUME NEW v \in mail' PROVE recorded' = v \/ blame'[v] # {}
            BY DEF MailIsRecorded
        <3>1. v \in Volume /\ blame[v] \subseteq blame'[v]
            BY <1>1, <1>2, <1>3, <1>6 DEF TypeOK, Grows
        <3>2. CASE v = mounted[h]
            BY <1>2, <1>3, <3>1, <3>2
        <3>3. CASE v \in mail
            BY <1>1, <1>2, <2>1, <3>1, <3>3 DEF RecordInv, MailIsRecorded
        <3> QED BY <1>2, <3>2, <3>3
    <2>3. RecordedIsFormatted'
        <3>1. mounted[h] = set[h] => layer'[recorded'] = "fs"
            BY <1>2, <1>3
        <3>2. mounted[h] # set[h] => \E v \in Volume : "left over" \in blame'[v]
            BY <1>3, <1>6 DEF Grows
        <3> QED BY <3>1, <3>2 DEF RecordedIsFormatted
    <2> QED BY <1>1, <1>2, <1>3, <2>2, <2>3 DEF RecordInv
<1> QED BY <1>5, <1>6, <1>7, <1>8, HostFrame DEF IInv

\* The group and EC2.
LEMMA OthersStep ==
    ASSUME IInv, NEW h \in Host,
           \/ Launch(h) \/ Terminate(h) \/ Gone(h)
           \/ \E v \in Volume : DeviceAppears(v)
           \/ UNCHANGED vars
    PROVE  IInv'
<1> USE DEF volumeVars, hostVars
<1>1. TypeOK /\ HostInv(h)
    BY DEF IInv
<1>2. UNCHANGED <<pc, failed, recorded, created, layer, faults, mail, blame>>
    BY DEF Launch, Terminate, Gone, DeviceAppears, vars
<1>3. Grows
    BY <1>2 DEF Grows
<1>4. CASE Launch(h) \/ Terminate(h)
    <2>1. TypeOK'
        BY <1>1, <1>4 DEF TypeOK, Launch, Terminate
    <2>2. Only(h) /\ HostInv(h)'
        BY <1>1, <1>4 DEF Launch, Terminate, Only, HostInv, Alive, TypeOK
    <2> QED BY <1>2, <1>3, <2>1, <2>2, RecordFrame, HostFrame DEF IInv
<1>5. CASE Gone(h)
    <2>1. /\ life' = [life EXCEPT ![h] = "gone"] /\ mounted' = [mounted EXCEPT ![h] = None]
          /\ set' = [set EXCEPT ![h] = None] /\ base' = [base EXCEPT ![h] = None]
          /\ attached' = [v \in Volume |-> IF attached[v] = h THEN None ELSE attached[v]]
          /\ devices' = {v \in devices : attached[v] # h}
        BY <1>5 DEF Gone, Forget
    <2>2. TypeOK'
        BY <1>1, <1>2, <2>1 DEF TypeOK
    <2>3. Only(h) /\ HostInv(h)'
        BY <1>1, <1>2, <2>1, NoneAssumption DEF Only, HostInv, Alive, TypeOK
    <2> QED BY <1>2, <1>3, <2>2, <2>3, RecordFrame, HostFrame DEF IInv
<1>6. CASE (\E v \in Volume : DeviceAppears(v)) \/ UNCHANGED vars
    <2>1. TypeOK'
        BY <1>1, <1>6 DEF TypeOK, DeviceAppears, vars
    <2>2. Only(h) /\ HostInv(h)'
        BY <1>1, <1>6 DEF DeviceAppears, vars, Only, HostInv, Alive
    <2> QED BY <1>2, <1>3, <2>1, <2>2, RecordFrame, HostFrame DEF IInv
<1> QED BY <1>4, <1>5, <1>6

\* Without any host, nothing happens but what does not matter.
LEMMA NoHostStep ==
    ASSUME IInv, Host = {}, (\E v \in Volume : DeviceAppears(v)) \/ UNCHANGED vars
    PROVE  IInv'
<1> USE DEF volumeVars, hostVars
<1>1. UNCHANGED <<hostVars, recorded, created, attached, layer, faults, mail, blame>>
    BY DEF DeviceAppears, vars
<1>2. TypeOK'
    BY <1>1 DEF IInv, TypeOK, DeviceAppears, vars
<1>3. RecordInv'
    BY <1>1, RecordFrame DEF Grows
<1> QED BY <1>2, <1>3 DEF IInv

LEMMA IInvStep == IInv /\ [Next]_vars => IInv'
<1> SUFFICES ASSUME IInv, [Next]_vars PROVE IInv'
    OBVIOUS
<1>1. ASSUME NEW h \in Host, Install(h) PROVE IInv'
    BY <1>1, PrepareStep, RaiseStep, MountStep, SkipRetryStep, StoreStep DEF Install
<1>2. ASSUME NEW h \in Host, Launch(h) \/ Terminate(h) \/ Gone(h) PROVE IInv'
    BY <1>2, OthersStep
<1>3. CASE (\E v \in Volume : DeviceAppears(v)) \/ UNCHANGED vars
    BY <1>3, OthersStep, NoHostStep
<1> QED BY <1>1, <1>2, <1>3 DEF Next

\* The inductive invariant: what is mounted is a file system, and a record is replaced
\* only by that of the same volume, or leaves a cause.
THEOREM Inductive == Spec => []IInv
BY IInvInit, IInvStep, PTL DEF Spec

-----------------------------------------------------------------------------
\* Every variable keeps its type.
THEOREM Typed == Spec => []TypeOK
<1>1. IInv => TypeOK
    BY DEF IInv
<1> QED BY <1>1, Inductive, PTL

\* A volume with mail is the recorded one, unless one of three mishaps befell it.
THEOREM MailStaysRecorded == Spec => []MailIsRecorded
<1>1. IInv => MailIsRecorded
    BY DEF IInv, RecordInv
<1> QED BY <1>1, Inductive, PTL

\* The record leads to a file system, unless a retry mounted a left-over volume.
THEOREM RecordLeadsToFileSystem == Spec => []RecordedIsFormatted
<1>1. IInv => RecordedIsFormatted
    BY DEF IInv, RecordInv
<1> QED BY <1>1, Inductive, PTL

\* No step formats a volume with mail on it.
THEOREM MailIsNeverFormatted == Spec => NeverFormatsMail
<1>1. IInv /\ [Next]_vars => [\A v \in mail : layer'[v] = layer[v]]_vars
    <2> SUFFICES ASSUME IInv, Next, NEW v \in mail PROVE layer'[v] = layer[v]
        OBVIOUS
    <2>1. layer[v] = "fs"
        BY DEF IInv, RecordInv
    <2>2. CASE \E h \in Host : CreateFileSystem(h) \/ CreateFileSystemRaises(h)
        BY <2>1, <2>2 DEF IInv, TypeOK, CreateFileSystem, CreateFileSystemRaises, PvCreateWorks
    <2>3. CASE ~ \E h \in Host : CreateFileSystem(h) \/ CreateFileSystemRaises(h)
        BY <2>3 DEF Next, Install, Fetch, SkipRetry, CreateVolumeSet, CreateVolumeSetRaises,
            AttachVolumeSet, AttachVolumeSetRaises, Pvs, Mount, MountRaises, StoreVolumeSet,
            StoreVolumeSetRaises, Launch, Terminate, Gone, DeviceAppears, volumeVars
    <2> QED BY <2>2, <2>3
<1> QED BY <1>1, Inductive, PTL DEF Spec, NeverFormatsMail

-----------------------------------------------------------------------------
(***************************************************************************)
(* The volumes nothing leads to.  Each step that leaves one behind adds a  *)
(* failed attempt, an interrupted host or an overwritten record.           *)
(***************************************************************************)

\* An attempt holds no volume before it has one and after it is over.
HoldsNothing(h) == pc[h] \in {"fetch", "create", "serving", "failed"} => set[h] = None

\* The orphans that no overwritten record explains.
Stray == Orphans \ Overwritten

OrphanInv ==
    /\ \A h \in Host : HoldsNothing(h)
    /\ Cardinality(Stray) <= Cardinality(Failures) + Cardinality(Interrupted)

Attempts == Host \X (1..(MaxRetries + 1))

LEMMA FiniteParts ==
    ASSUME NEW S, S \subseteq Volume \/ S \subseteq Host \/ S \subseteq Attempts
    PROVE  IsFiniteSet(S) /\ Cardinality(S) \in Nat
<1>1. IsFiniteSet(1..(MaxRetries + 1))
    BY FS_Interval, BoundAssumption
<1>2. IsFiniteSet(Attempts)
    BY <1>1, FS_Product, FiniteAssumption DEF Attempts
<1>3. IsFiniteSet(S)
    BY <1>2, FS_Subset, FiniteAssumption
<1> QED BY <1>3, FS_CardinalityType

\* The bound survives a step that explains every stray it adds.
LEMMA BoundKept ==
    ASSUME NEW S \in SUBSET Volume, NEW F \in SUBSET Attempts, NEW I \in SUBSET Host,
           NEW T \in SUBSET Volume, NEW G \in SUBSET Attempts, NEW J \in SUBSET Host,
           Cardinality(S) <= Cardinality(F) + Cardinality(I),
           F \subseteq G, I \subseteq J,
           \/ T \subseteq S
           \/ (\E v : T \subseteq S \cup {v}) /\ (F # G \/ I # J)
    PROVE  Cardinality(T) <= Cardinality(G) + Cardinality(J)
<1>1. /\ Cardinality(S) \in Nat /\ Cardinality(T) \in Nat /\ Cardinality(F) \in Nat
      /\ Cardinality(G) \in Nat /\ Cardinality(I) \in Nat /\ Cardinality(J) \in Nat
      /\ IsFiniteSet(S) /\ IsFiniteSet(T) /\ IsFiniteSet(G) /\ IsFiniteSet(J)
    BY FiniteParts
<1>2. /\ Cardinality(F) <= Cardinality(G) /\ (F # G => Cardinality(F) < Cardinality(G))
      /\ Cardinality(I) <= Cardinality(J) /\ (I # J => Cardinality(I) < Cardinality(J))
    <2>1. Cardinality(F) <= Cardinality(G) /\ (Cardinality(F) = Cardinality(G) => F = G)
        BY <1>1, FS_Subset
    <2>2. Cardinality(I) <= Cardinality(J) /\ (Cardinality(I) = Cardinality(J) => I = J)
        BY <1>1, FS_Subset
    <2> QED BY <1>1, <2>1, <2>2
<1>3. CASE T \subseteq S
    <2>1. Cardinality(T) <= Cardinality(S)
        BY <1>1, <1>3, FS_Subset
    <2> QED BY <1>1, <1>2, <2>1
<1>4. ASSUME NEW v, T \subseteq S \cup {v}, F # G \/ I # J
      PROVE  Cardinality(T) <= Cardinality(G) + Cardinality(J)
    <2>1. /\ IsFiniteSet(S \cup {v})
          /\ Cardinality(S \cup {v}) = IF v \in S THEN Cardinality(S) ELSE Cardinality(S) + 1
        BY <1>1, FS_AddElement
    <2>2. Cardinality(T) <= Cardinality(S \cup {v})
        BY <1>4, <2>1, FS_Subset
    <2>3. Cardinality(T) <= Cardinality(S) + 1
        BY <1>1, <2>1, <2>2
    <2> QED BY <1>1, <1>2, <1>4, <2>3
<1> QED BY <1>3, <1>4

LEMMA PartsTyped ==
    ASSUME TypeOK
    PROVE  Stray \subseteq Volume /\ Failures \subseteq Attempts /\ Interrupted \subseteq Host
BY DEF TypeOK, Stray, Orphans, Failures, Attempts, Interrupted

LEMMA OrphanInit == Init => OrphanInv
<1> SUFFICES ASSUME Init PROVE OrphanInv
    OBVIOUS
<1>1. TypeOK
    BY IInvInit DEF IInv
<1>2. Stray = {}
    BY DEF Init, Stray, Orphans
<1>3. Cardinality(Stray) = 0
    BY <1>2, FS_EmptySet
<1>4. \A h \in Host : HoldsNothing(h)
    BY DEF Init, HoldsNothing
<1>5. Cardinality(Failures) \in Nat /\ Cardinality(Interrupted) \in Nat
    BY <1>1, PartsTyped, FiniteParts
<1> QED BY <1>3, <1>4, <1>5 DEF OrphanInv

\* The step explains the strays it adds.
Explained ==
    /\ Failures \subseteq Failures' /\ Interrupted \subseteq Interrupted'
    /\ \/ Stray' \subseteq Stray
       \/ /\ \E v : Stray' \subseteq Stray \cup {v}
          /\ Failures # Failures' \/ Interrupted # Interrupted'

LEMMA OrphanStep ==
    ASSUME TypeOK, TypeOK', OrphanInv, Explained, \A h \in Host : HoldsNothing(h)'
    PROVE  OrphanInv'
<1>1. /\ Stray \subseteq Volume /\ Failures \subseteq Attempts /\ Interrupted \subseteq Host
      /\ Cardinality(Stray) <= Cardinality(Failures) + Cardinality(Interrupted)
    BY PartsTyped DEF OrphanInv
<1>2. Stray' \subseteq Volume /\ Failures' \subseteq Attempts /\ Interrupted' \subseteq Host
    BY DEF TypeOK, Stray, Orphans, Failures, Attempts, Interrupted
<1>3. PICK S, F, I : S = Stray /\ F = Failures /\ I = Interrupted
    OBVIOUS
<1>4. PICK T, G, J : T = Stray' /\ G = Failures' /\ J = Interrupted'
    OBVIOUS
<1>5. /\ S \in SUBSET Volume /\ F \in SUBSET Attempts /\ I \in SUBSET Host
      /\ T \in SUBSET Volume /\ G \in SUBSET Attempts /\ J \in SUBSET Host
      /\ F \subseteq G /\ I \subseteq J
      /\ T \subseteq S \/ ((\E v : T \subseteq S \cup {v}) /\ (F # G \/ I # J))
    BY <1>1, <1>2, <1>3, <1>4 DEF Explained
<1>6. Cardinality(S) <= Cardinality(F) + Cardinality(I)
    BY <1>1, <1>3
<1>7. Cardinality(T) <= Cardinality(G) + Cardinality(J)
    BY <1>5, <1>6, BoundKept
<1> QED BY <1>4, <1>7 DEF OrphanInv

\* An attempt that raises drops the one volume it knows of, or has just created.
LEMMA RaiseExplained ==
    ASSUME IInv, IInv', OrphanInv, NEW h \in Host,
           \/ CreateVolumeSetRaises(h) \/ AttachVolumeSetRaises(h) \/ CreateFileSystemRaises(h)
           \/ MountRaises(h) \/ StoreVolumeSetRaises(h)
    PROVE  Explained /\ HoldsNothing(h)'
<1> USE DEF volumeVars
<1>1. TypeOK /\ HostInv(h) /\ HoldsNothing(h)
    BY DEF IInv, OrphanInv
<1>2. /\ Alive(h) /\ pc[h] # "failed" /\ UNCHANGED <<recorded, blame, life>>
      /\ failed' = [failed EXCEPT ![h] = failed[h] + 1]
      /\ pc' = [pc EXCEPT ![h] = IF failed[h] < MaxRetries THEN "fetch" ELSE "failed"]
      /\ set' = [set EXCEPT ![h] = None]
    BY DEF CreateVolumeSetRaises, AttachVolumeSetRaises, CreateFileSystemRaises, MountRaises,
           StoreVolumeSetRaises, At, Alive, Raise, RetriesLeft, Goto, Forget
<1>3. HoldsNothing(h)'
    BY <1>1, <1>2 DEF HoldsNothing, TypeOK
<1>4. failed[h] \in 0..MaxRetries
    <2>1. failed[h] \in 0..(MaxRetries + 1) /\ failed[h] <= MaxRetries
        BY <1>1, <1>2 DEF TypeOK, HostInv
    <2> QED BY <2>1, BoundAssumption
<1>5. Failures \subseteq Failures' /\ Failures # Failures'
    <2>1. \A g \in Host : failed'[g] = IF g = h THEN failed[h] + 1 ELSE failed[g]
        BY <1>1, <1>2 DEF TypeOK
    <2>2. \A g \in Host : failed[g] \in Nat
        BY <1>1, BoundAssumption DEF TypeOK
    <2>3. <<h, failed[h] + 1>> \in Failures' /\ <<h, failed[h] + 1>> \notin Failures
        BY <1>4, <2>1, BoundAssumption DEF Failures
    <2>4. \A a \in Attempts : a[2] <= failed[a[1]] => a[2] <= failed'[a[1]]
        BY <2>1, <2>2, BoundAssumption DEF Attempts
    <2> QED BY <2>3, <2>4 DEF Failures, Attempts
<1>6. Interrupted' = Interrupted
    BY <1>1, <1>2 DEF Interrupted, Alive, TypeOK
<1>7. \E v : created' \ {v} \subseteq created /\ (created' = created \/ set[h] = None)
    <2>1. CASE CreateVolumeSetRaises(h)
        BY <1>1, <2>1 DEF CreateVolumeSetRaises, At, HoldsNothing
    <2>2. CASE ~CreateVolumeSetRaises(h)
        BY <2>2 DEF AttachVolumeSetRaises, CreateFileSystemRaises, MountRaises,
                    StoreVolumeSetRaises
    <2> QED BY <2>1, <2>2
<1>8. \E v : Stray' \subseteq Stray \cup {v}
    <2>1. PICK v : created' \ {v} \subseteq created /\ (created' = created \/ set[h] = None)
        BY <1>7
    <2>2. None \notin created
        BY <1>1, NoneAssumption DEF TypeOK
    <2>3. \A g \in Host \ {h} : set'[g] = set[g]
        BY <1>1, <1>2 DEF TypeOK
    <2>4. None \notin created'
        BY NoneAssumption DEF IInv, TypeOK
    <2>5. CASE created' = created
        <3>1. Stray' \subseteq Stray \cup {set[h]}
            BY <1>2, <2>3, <2>5 DEF Stray, Orphans, Overwritten
        <3> QED BY <3>1
    <2>6. CASE set[h] = None
        <3>1. Stray' \subseteq Stray \cup {v}
            BY <1>2, <2>1, <2>3, <2>4, <2>6 DEF Stray, Orphans, Overwritten
        <3> QED BY <3>1
    <2> QED BY <2>1, <2>5, <2>6
<1> QED BY <1>3, <1>5, <1>6, <1>8 DEF Explained

\* The other steps of install: a volume it creates or takes up is held, and one whose
\* record it replaces is overwritten.
LEMMA InstallExplained ==
    ASSUME IInv, IInv', OrphanInv, NEW h \in Host,
           \/ Fetch(h) \/ SkipRetry(h) \/ CreateVolumeSet(h) \/ AttachVolumeSet(h) \/ Pvs(h)
           \/ CreateFileSystem(h) \/ Mount(h) \/ StoreVolumeSet(h)
    PROVE  Explained /\ HoldsNothing(h)'
<1> USE DEF volumeVars
<1>1. TypeOK /\ HostInv(h) /\ HoldsNothing(h) /\ None \notin created /\ None \notin created'
    BY NoneAssumption DEF IInv, OrphanInv, TypeOK
<1>2. Alive(h) /\ UNCHANGED <<failed, life>>
    BY DEF Fetch, SkipRetry, CreateVolumeSet, AttachVolumeSet, Pvs, CreateFileSystem, Mount,
           StoreVolumeSet, At, Alive
<1>3. Failures' = Failures
    BY <1>2 DEF Failures
<1>4. Interrupted' = Interrupted
    <2>1. \A g \in Host \ {h} : pc'[g] = pc[g]
        BY <1>1 DEF TypeOK, Fetch, SkipRetry, CreateVolumeSet, AttachVolumeSet, Pvs,
                    CreateFileSystem, Mount, StoreVolumeSet, Serve, Goto
    <2> QED BY <1>2, <2>1 DEF Interrupted, Alive
<1>5. Stray' \subseteq Stray /\ HoldsNothing(h)'
    <2>1. CASE Fetch(h)
        <3>1. /\ set' = [set EXCEPT ![h] = recorded] /\ set[h] = None
              /\ pc' = [pc EXCEPT ![h] = IF recorded = None THEN "create" ELSE "attach"]
              /\ UNCHANGED <<recorded, created, blame>>
            BY <1>1, <2>1 DEF Fetch, FetchVolumeSet, Goto, At, HoldsNothing
        <3> QED BY <1>1, <3>1 DEF TypeOK, Stray, Orphans, Overwritten, HoldsNothing
    <2>2. CASE SkipRetry(h)
        <3>1. /\ set' = [set EXCEPT ![h] = None] /\ set[h] = None
              /\ UNCHANGED <<recorded, created>>
              /\ mounted[h] \in Volume
              /\ blame' = [blame EXCEPT ![mounted[h]] =
                              IF recorded = mounted[h] THEN @ ELSE @ \cup {"not stored"}]
            BY <1>1, <2>2 DEF SkipRetry, Serve, Forget, At, HoldsNothing, TypeOK
        <3>2. set' = set
            BY <1>1, <3>1 DEF TypeOK
        <3>3. Overwritten \subseteq Overwritten'
            BY <1>1, <3>1 DEF TypeOK, Overwritten
        <3>4. Orphans' = Orphans
            BY <3>1, <3>2 DEF Orphans
        <3>5. HoldsNothing(h)'
            BY <3>1, <3>2 DEF HoldsNothing
        <3> QED BY <3>3, <3>4, <3>5 DEF Stray
    <2>3. CASE CreateVolumeSet(h)
        <3>1. PICK v \in Volume \ created :
                created' = created \cup {v} /\ set' = [set EXCEPT ![h] = v]
            BY <2>3 DEF CreateVolumeSet
        <3>2. /\ set[h] = None /\ UNCHANGED <<recorded, blame>>
              /\ pc' = [pc EXCEPT ![h] = "attach"]
            BY <1>1, <2>3 DEF CreateVolumeSet, At, Goto, HoldsNothing
        <3> QED BY <1>1, <3>1, <3>2 DEF TypeOK, Stray, Orphans, Overwritten, HoldsNothing
    <2>4. CASE AttachVolumeSet(h) \/ Pvs(h) \/ CreateFileSystem(h)
        <3>1. UNCHANGED <<set, recorded, created, blame>>
            BY <2>4 DEF AttachVolumeSet, Pvs, CreateFileSystem
        <3>2. pc'[h] \in {"pvs", "create_lv", "mount"}
            BY <1>1, <2>4 DEF AttachVolumeSet, AfterAttach, Pvs, CreateFileSystem, Goto, TypeOK
        <3> QED BY <3>1, <3>2 DEF Stray, Orphans, Overwritten, HoldsNothing
    <2>5. CASE Mount(h)
        <3>1. UNCHANGED <<set, recorded, created>> /\ pc'[h] = "store"
            BY <1>1, <2>5 DEF Mount, Goto, TypeOK
        <3>2. Overwritten \subseteq Overwritten'
            <4>1. PICK v \in Devices(h) :
                    blame' = [blame EXCEPT ![v] = IF v = set[h] THEN @ ELSE @ \cup {"left over"}]
                BY <2>5 DEF Mount
            <4> QED BY <1>1, <4>1 DEF TypeOK, Overwritten
        <3> QED BY <3>1, <3>2 DEF Stray, Orphans, HoldsNothing
    <2>6. CASE StoreVolumeSet(h)
        <3>1. /\ recorded' = set[h] /\ set' = [set EXCEPT ![h] = None] /\ UNCHANGED created
              /\ base[h] = None \/ base[h] = set[h]
              /\ blame' = IF recorded \in {None, set[h]} \/ recorded = base[h] THEN blame
                          ELSE [blame EXCEPT ![recorded] = @ \cup {"overwritten"}]
            BY <1>1, <1>2, <2>6 DEF StoreVolumeSet, Serve, Forget, At, HostInv
        <3>2. Overwritten \subseteq Overwritten'
            BY <1>1, <3>1 DEF TypeOK, Overwritten
        <3>3. recorded \in {None, set[h]} \/ recorded \in Overwritten'
            <4>1. recorded \notin {None, set[h]} => recorded \in Volume /\ recorded # base[h]
                BY <1>1, <3>1 DEF TypeOK
            <4> QED BY <1>1, <3>1, <4>1 DEF TypeOK, Overwritten
        <3>4. \A g \in Host \ {h} : set'[g] = set[g]
            BY <1>1, <3>1 DEF TypeOK
        <3>5. HoldsNothing(h)'
            BY <1>1, <3>1 DEF TypeOK, HoldsNothing
        <3> QED BY <1>1, <3>1, <3>2, <3>3, <3>4, <3>5 DEF Stray, Orphans
    <2> QED BY <2>1, <2>2, <2>3, <2>4, <2>5, <2>6
<1> QED BY <1>3, <1>4, <1>5 DEF Explained

\* A host that goes away drops the volume it was installing.
LEMMA GoneExplained ==
    ASSUME IInv, IInv', OrphanInv, NEW h \in Host, Gone(h)
    PROVE  Explained /\ HoldsNothing(h)'
<1> USE DEF volumeVars
<1>1. /\ TypeOK /\ HoldsNothing(h) /\ None \notin created
      /\ life[h] = "leaving" /\ life' = [life EXCEPT ![h] = "gone"]
      /\ set' = [set EXCEPT ![h] = None]
      /\ UNCHANGED <<pc, failed, recorded, created, blame>>
    BY NoneAssumption DEF IInv, OrphanInv, TypeOK, Gone, Forget
<1>2. Failures' = Failures /\ HoldsNothing(h)'
    BY <1>1 DEF Failures, HoldsNothing, TypeOK
<1>3. Interrupted' = IF pc[h] = "serving" THEN Interrupted ELSE Interrupted \cup {h}
    BY <1>1 DEF TypeOK, Interrupted
<1>4. h \notin Interrupted
    BY <1>1 DEF Interrupted
<1>5. \A g \in Host \ {h} : set'[g] = set[g]
    BY <1>1 DEF TypeOK
<1>6. Stray' \subseteq Stray \cup {set[h]}
    BY <1>1, <1>5 DEF Stray, Orphans, Overwritten
<1>7. pc[h] = "serving" => Stray' \subseteq Stray
    BY <1>1, <1>5 DEF HoldsNothing, Stray, Orphans, Overwritten
<1> QED BY <1>2, <1>3, <1>4, <1>6, <1>7 DEF Explained

LEMMA OrphanInvStep == IInv /\ IInv' /\ OrphanInv /\ [Next]_vars => OrphanInv'
<1> SUFFICES ASSUME IInv, IInv', OrphanInv, [Next]_vars PROVE OrphanInv'
    OBVIOUS
<1>1. TypeOK /\ TypeOK'
    BY DEF IInv
<1>2. ASSUME NEW h \in Host, Install(h) \/ Gone(h) PROVE OrphanInv'
    <2>1. Explained /\ HoldsNothing(h)'
        BY <1>2, RaiseExplained, InstallExplained, GoneExplained DEF Install
    <2>2. \A g \in Host \ {h} : pc'[g] = pc[g] /\ set'[g] = set[g]
        <3>1. CASE Install(h)
            <4>1. \E label : pc' = [pc EXCEPT ![h] = label]
                BY <3>1 DEF Install, Fetch, SkipRetry, CreateVolumeSet, AttachVolumeSet, Pvs,
                    CreateFileSystem, Mount, StoreVolumeSet, Serve, Goto, Raise,
                    CreateVolumeSetRaises, MountRaises, AttachVolumeSetRaises,
                    CreateFileSystemRaises, StoreVolumeSetRaises
            <4>2. set' = set \/ \E v : set' = [set EXCEPT ![h] = v]
                BY <3>1 DEF Install, Fetch, SkipRetry, CreateVolumeSet, AttachVolumeSet, Pvs,
                    CreateFileSystem, Mount, StoreVolumeSet, Serve, Forget, Raise,
                    CreateVolumeSetRaises, MountRaises, AttachVolumeSetRaises,
                    CreateFileSystemRaises, StoreVolumeSetRaises
            <4>3. ASSUME NEW label, pc' = [pc EXCEPT ![h] = label]
                  PROVE  \A g \in Host \ {h} : pc'[g] = pc[g]
                BY <1>1, <4>3 DEF TypeOK
            <4>4. ASSUME NEW v, set' = [set EXCEPT ![h] = v]
                  PROVE  \A g \in Host \ {h} : set'[g] = set[g]
                BY <1>1, <4>4 DEF TypeOK
            <4> QED BY <4>1, <4>2, <4>3, <4>4
        <3>2. CASE Gone(h)
            BY <1>1, <3>2 DEF TypeOK, Gone, Forget
        <3> QED BY <1>2, <3>1, <3>2
    <2>3. \A g \in Host : HoldsNothing(g)'
        BY <2>1, <2>2 DEF OrphanInv, HoldsNothing
    <2> QED BY <1>1, <2>1, <2>3, OrphanStep
<1>3. CASE (\E h \in Host : Launch(h) \/ Terminate(h)) \/ (\E v \in Volume : DeviceAppears(v))
           \/ UNCHANGED vars
    <2>1. /\ UNCHANGED <<pc, failed, set, recorded, created, blame>>
          /\ \A h \in Host : life'[h] = "gone" <=> life[h] = "gone"
        BY <1>1, <1>3 DEF TypeOK, Launch, Terminate, DeviceAppears, vars, hostVars, volumeVars
    <2>2. Explained
        BY <2>1 DEF Explained, Failures, Interrupted, Stray, Orphans, Overwritten
    <2>3. \A g \in Host : HoldsNothing(g)'
        BY <2>1 DEF OrphanInv, HoldsNothing
    <2> QED BY <1>1, <2>2, <2>3, OrphanStep
<1> QED BY <1>2, <1>3 DEF Next

\* Orphaned volumes do not pile up: each is explained by one failed attempt, one host
\* that went away before it served, or one overwritten record.
THEOREM OrphansStayFew == Spec => []OrphansAreFew
<1>1. IInv /\ OrphanInv => OrphansAreFew
    <2> SUFFICES ASSUME IInv, OrphanInv PROVE OrphansAreFew
        OBVIOUS
    <2>1. /\ Stray \subseteq Volume /\ Failures \subseteq Attempts /\ Interrupted \subseteq Host
          /\ Overwritten \subseteq Volume /\ Orphans \subseteq Volume
        BY PartsTyped DEF IInv, Overwritten, Orphans, TypeOK
    <2>2. /\ IsFiniteSet(Stray) /\ IsFiniteSet(Overwritten)
          /\ Cardinality(Stray) \in Nat /\ Cardinality(Overwritten) \in Nat
          /\ Cardinality(Failures) \in Nat /\ Cardinality(Interrupted) \in Nat
          /\ Cardinality(Orphans) \in Nat /\ Cardinality(Stray \cap Overwritten) \in Nat
        BY <2>1, FiniteParts
    <2>3. /\ IsFiniteSet(Stray \cup Overwritten)
          /\ Cardinality(Stray \cup Overwritten) =
                Cardinality(Stray) + Cardinality(Overwritten) - Cardinality(Stray \cap Overwritten)
        BY <2>2, FS_Union
    <2>4. Cardinality(Orphans) <= Cardinality(Stray \cup Overwritten)
        <3>1. Orphans \subseteq Stray \cup Overwritten
            BY DEF Stray
        <3> QED BY <2>3, <3>1, FS_Subset
    <2> QED BY <2>2, <2>3, <2>4 DEF OrphanInv, OrphansAreFew
<1>2. Spec => []OrphanInv
    BY OrphanInit, OrphanInvStep, Inductive, PTL DEF Spec
<1> QED BY <1>1, <1>2, Inductive, PTL
-----------------------------------------------------------------------------
(***************************************************************************)
(* The work left.  Nothing in the model says how long an installation may  *)
(* take; what the code can promise is that the retries of the recipe run   *)
(* out, whatever the other hosts do to the record and the volumes.         *)
(***************************************************************************)
Weight(label) ==
    CASE label = "fetch" -> 9
      [] label = "create" -> 8
      [] label = "attach" -> 7
      [] label = "pvs" -> 6
      [] label = "create_lv" -> 5
      [] label = "mount" -> 4
      [] label = "store" -> 3
      [] OTHER -> 0

\* An attempt that is still allowed costs ten steps at most.
Work(h) == 10 * (MaxRetries + 1 - failed[h]) + Weight(pc[h])

\* Each step of a host's installation takes some of its work away, and nothing that
\* other hosts do, EC2 does or the group does adds to it.
WorkShrinks ==
    [][\A h \in Host : (Install(h) => Work(h)' < Work(h)) /\ (~Install(h) => Work(h)' = Work(h))]_vars

\* The work left is a number, and no more than the attempts take.
WorkIsBounded == \A h \in Host : Work(h) \in 0..(10 * (MaxRetries + 1) + 9)

LEMMA Weights ==
    ASSUME NEW label
    PROVE  /\ label = "fetch" => Weight(label) = 9
           /\ label = "create" => Weight(label) = 8
           /\ label = "attach" => Weight(label) = 7
           /\ label = "pvs" => Weight(label) = 6
           /\ label = "create_lv" => Weight(label) = 5
           /\ label = "mount" => Weight(label) = 4
           /\ label = "store" => Weight(label) = 3
           /\ label \in {"serving", "failed"} => Weight(label) = 0
           /\ Weight(label) \in 0..9
BY DEF Weight

\* A step that moves on without failing, and a step that fails.
LEMMA InstallMoves ==
    ASSUME TypeOK, NEW h \in Host, Install(h)
    PROVE  \/ /\ failed'[h] = failed[h]
              /\ \/ pc[h] = "fetch" /\ pc'[h] \in {"create", "attach", "serving"}
                 \/ pc[h] = "create" /\ pc'[h] = "attach"
                 \/ pc[h] = "attach" /\ pc'[h] = "pvs"
                 \/ pc[h] = "pvs" /\ pc'[h] \in {"create_lv", "mount"}
                 \/ pc[h] = "create_lv" /\ pc'[h] = "mount"
                 \/ pc[h] = "mount" /\ pc'[h] = "store"
                 \/ pc[h] = "store" /\ pc'[h] = "serving"
           \/ /\ failed'[h] = failed[h] + 1 /\ pc'[h] \in {"fetch", "failed"}
<1> USE DEF TypeOK, At, Goto
<1>1. CASE Fetch(h) \/ SkipRetry(h)
    BY <1>1 DEF Fetch, SkipRetry, Serve
<1>2. CASE CreateVolumeSet(h)
    BY <1>2 DEF CreateVolumeSet
<1>3. CASE AttachVolumeSet(h)
    BY <1>3 DEF AttachVolumeSet, AfterAttach
<1>4. CASE Pvs(h) \/ CreateFileSystem(h)
    BY <1>4 DEF Pvs, CreateFileSystem
<1>5. CASE Mount(h)
    BY <1>5 DEF Mount
<1>6. CASE StoreVolumeSet(h)
    BY <1>6 DEF StoreVolumeSet, Serve
<1>7. CASE \/ CreateVolumeSetRaises(h) \/ AttachVolumeSetRaises(h)
           \/ CreateFileSystemRaises(h) \/ MountRaises(h) \/ StoreVolumeSetRaises(h)
    <2>1. Raise(h)
        BY <1>7 DEF CreateVolumeSetRaises, AttachVolumeSetRaises, CreateFileSystemRaises,
                    MountRaises, StoreVolumeSetRaises
    <2> QED BY <2>1 DEF Raise
<1> QED BY <1>1, <1>2, <1>3, <1>4, <1>5, <1>6, <1>7 DEF Install

LEMMA InstallWorks ==
    ASSUME TypeOK, NEW h \in Host, Install(h)
    PROVE  Work(h)' < Work(h)
<1>1. PICK f \in 0..(MaxRetries + 1) : f = failed[h]
    BY DEF TypeOK
<1>2. PICK u, w : u = pc[h] /\ w = pc'[h]
    OBVIOUS
<1>3. Work(h) = 10 * (MaxRetries + 1 - f) + Weight(u)
    BY <1>1, <1>2 DEF Work
<1>4. CASE failed'[h] = failed[h]
    <2>1. Work(h)' = 10 * (MaxRetries + 1 - f) + Weight(w)
        BY <1>1, <1>2, <1>4 DEF Work
    <2>2. Weight(u) \in Nat /\ Weight(w) \in Nat /\ Weight(w) < Weight(u)
        <3>1. failed[h] # failed[h] + 1
            BY <1>1, BoundAssumption
        <3> QED BY <1>2, <1>4, <3>1, InstallMoves, Weights
    <2> QED BY <1>3, <2>1, <2>2, BoundAssumption
<1>5. CASE failed'[h] = failed[h] + 1
    <2>1. Work(h)' = 10 * (MaxRetries + 1 - (f + 1)) + Weight(w)
        BY <1>1, <1>2, <1>5 DEF Work
    <2>2. Weight(u) \in 0..9 /\ Weight(w) \in 0..9
        BY Weights
    <2> QED BY <1>3, <2>1, <2>2, BoundAssumption
<1> QED BY <1>4, <1>5, InstallMoves

LEMMA WorkTyped == TypeOK => WorkIsBounded
<1> SUFFICES ASSUME TypeOK, NEW h \in Host PROVE Work(h) \in 0..(10 * (MaxRetries + 1) + 9)
    BY DEF WorkIsBounded
<1>1. PICK f \in 0..(MaxRetries + 1), w \in 0..9 : f = failed[h] /\ w = Weight(pc[h])
    BY Weights DEF TypeOK
<1>2. Work(h) = 10 * (MaxRetries + 1 - f) + w
    BY <1>1 DEF Work
<1> QED BY <1>2, BoundAssumption

LEMMA OthersRest ==
    ASSUME TypeOK, Next, NEW h \in Host, ~Install(h)
    PROVE  Work(h)' = Work(h)
<1>1. pc'[h] = pc[h] /\ failed'[h] = failed[h]
    <2>1. ASSUME NEW g \in Host, Install(g) PROVE pc'[h] = pc[h] /\ failed'[h] = failed[h]
        <3>1. g # h
            BY <2>1
        <3>2. CASE \/ CreateVolumeSetRaises(g) \/ AttachVolumeSetRaises(g)
                   \/ CreateFileSystemRaises(g) \/ MountRaises(g) \/ StoreVolumeSetRaises(g)
            <4>1. Raise(g)
                BY <3>2 DEF CreateVolumeSetRaises, AttachVolumeSetRaises, CreateFileSystemRaises,
                            MountRaises, StoreVolumeSetRaises
            <4> QED BY <3>1, <4>1 DEF Raise, Goto, TypeOK
        <3>3. CASE \/ Fetch(g) \/ SkipRetry(g) \/ CreateVolumeSet(g) \/ AttachVolumeSet(g)
                   \/ Pvs(g) \/ CreateFileSystem(g) \/ Mount(g) \/ StoreVolumeSet(g)
            BY <3>1, <3>3 DEF Fetch, SkipRetry, CreateVolumeSet, AttachVolumeSet, Pvs,
                    CreateFileSystem, Mount, StoreVolumeSet, Serve, Goto, TypeOK
        <3> QED BY <2>1, <3>2, <3>3 DEF Install
    <2>2. ASSUME NEW g \in Host, Launch(g) \/ Terminate(g) \/ Gone(g)
          PROVE  pc' = pc /\ failed' = failed
        BY <2>2 DEF Launch, Terminate, Gone
    <2>3. ASSUME NEW v \in Volume, DeviceAppears(v) PROVE pc' = pc /\ failed' = failed
        BY <2>3 DEF DeviceAppears, hostVars
    <2> QED BY <2>1, <2>2, <2>3 DEF Next
<1> QED BY <1>1 DEF Work

\* A host is in service, failed or gone after at most ten steps for each attempt that
\* the recipe allows and nine more: no host in its way makes it try for ever.
THEOREM InstallRunsDown == Spec => []WorkIsBounded /\ WorkShrinks
<1>1. IInv /\ Next =>
        \A h \in Host : (Install(h) => Work(h)' < Work(h)) /\ (~Install(h) => Work(h)' = Work(h))
    BY InstallWorks, OthersRest DEF IInv
<1>2. IInv => WorkIsBounded
    BY WorkTyped DEF IInv
<1> QED BY <1>1, <1>2, Inductive, PTL DEF Spec, WorkShrinks
=============================================================================
