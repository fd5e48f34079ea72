------------------------------ MODULE EbsVolumes ------------------------------
(***************************************************************************)
(* manage-ebs-volumes.py: "install" gives a delivery host the persistent   *)
(* volume of its volume set.  The set is looked up in SimpleDB, or a new   *)
(* volume is created; it is attached, formatted if LVM knows of no         *)
(* physical volume, mounted, and only then recorded in SimpleDB, so that   *)
(* the host that replaces this one finds the mail again.  Chef runs        *)
(* "install" again after a failure, unless the mount point is mounted.     *)
(*                                                                         *)
(* EC2, SimpleDB, LVM, Chef and the AutoScaling group are external and     *)
(* modelled from how the script and its recipe use them.  Definitions      *)
(* named ...Fault are plausible mistakes in the code that show what the    *)
(* properties tell apart; nothing else refers to them.                     *)
(***************************************************************************)
EXTENDS Naturals, FiniteSets

CONSTANTS
    Host,         \* the hosts of one volume set, each used once
    Volume,       \* the volumes EC2 may create
    None,
    MaxRetries,   \* the retries of the recipe
    MaxFaults     \* bound: calls and commands that fail

ASSUME NoneAssumption == None \notin Host \cup Volume

ASSUME FiniteAssumption == IsFiniteSet(Host) /\ IsFiniteSet(Volume)

ASSUME BoundAssumption == MaxRetries \in Nat /\ MaxFaults \in Nat

VARIABLES
    life,       \* life[h]: "up" until its replacement starts; "leaving" still runs
    pc,         \* pc[h]: where the recipe is
    failed,     \* failed[h]: attempts of install that raised
    set,        \* set[h]: volume_set of the running attempt
    mounted,    \* mounted[h]: the volume under the mount point
    recorded,   \* the volume set in SimpleDB
    created,    \* the volumes that exist
    attached,   \* attached[v]: the host
    devices,    \* the attached volumes whose device has appeared
    layer,      \* layer[v]: what is on the volume
    faults,
    \* bookkeeping
    base,       \* base[h]: the record when the attempt read it
    mail,       \* volumes that hosts in service have written mail to
    blame       \* blame[v]: why the record does not lead to v

hostVars == <<life, pc, failed, set, mounted, base>>
volumeVars == <<created, attached, devices, layer>>
vars == <<hostVars, recorded, volumeVars, faults, mail, blame>>

Cause == {"not stored", "left over", "overwritten"}

Init ==
    /\ life = [h \in Host |-> "absent"]
    /\ pc = [h \in Host |-> "fetch"]
    /\ failed = [h \in Host |-> 0]
    /\ set = [h \in Host |-> None]
    /\ mounted = [h \in Host |-> None]
    /\ recorded = None
    /\ created = {}
    /\ attached = [v \in Volume |-> None]
    /\ devices = {}
    /\ layer = [v \in Volume |-> "raw"]
    /\ faults = 0
    /\ base = [h \in Host |-> None]
    /\ mail = {}
    /\ blame = [v \in Volume |-> {}]

At(h, label) == life[h] \in {"up", "leaving"} /\ pc[h] = label

Goto(h, label) == pc' = [pc EXCEPT ![h] = label]

Fault == faults < MaxFaults /\ faults' = faults + 1

\* The devices LVM sees on h.
Devices(h) == {v \in devices : attached[v] = h}

\* The attempt is over.
Forget(h) == set' = [set EXCEPT ![h] = None] /\ base' = [base EXCEPT ![h] = None]

AlwaysFault(h) == TRUE

RetriesLeft(h) == failed[h] < MaxRetries

\* install raises; Chef tries again after retry_delay, or the recipe fails.
Raise(h) ==
    /\ failed' = [failed EXCEPT ![h] = @ + 1]
    /\ Goto(h, IF RetriesLeft(h) THEN "fetch" ELSE "failed")
    /\ Forget(h)
    /\ UNCHANGED life

\* The recipe goes on and the host takes up its service.
Serve(h, v) ==
    /\ Goto(h, "serving")
    /\ mail' = mail \cup {v}
    /\ Forget(h)

IgnoresRecordFault == None

\* The volume set that _fetch_volume_set finds.
FetchVolumeSet == recorded

Fetch(h) ==
    /\ At(h, "fetch") /\ mounted[h] = None
    /\ set' = [set EXCEPT ![h] = FetchVolumeSet]
    /\ base' = [base EXCEPT ![h] = recorded]
    /\ Goto(h, IF FetchVolumeSet = None THEN "create" ELSE "attach")
    /\ UNCHANGED <<life, failed, mounted, recorded, volumeVars, faults, mail, blame>>

\* not_if: a retry is skipped when the file system is mounted.
SkipRetry(h) ==
    /\ At(h, "fetch") /\ mounted[h] # None
    /\ Serve(h, mounted[h])
    /\ blame' = [blame EXCEPT ![mounted[h]] =
                    IF recorded = mounted[h] THEN @ ELSE @ \cup {"not stored"}]
    /\ UNCHANGED <<life, failed, mounted, recorded, volumeVars, faults>>

CreateVolumeSet(h) ==
    /\ At(h, "create")
    /\ \E v \in Volume \ created :
        /\ created' = created \cup {v}
        /\ set' = [set EXCEPT ![h] = v]
    /\ Goto(h, "attach")
    /\ UNCHANGED <<life, failed, mounted, base, recorded, attached, devices, layer,
                   faults, mail, blame>>

\* No volume is created, or the one that was never becomes available.
CreateVolumeSetRaises(h) ==
    /\ At(h, "create")
    /\ Fault
    /\ \/ UNCHANGED created
       \/ \E v \in Volume \ created : created' = created \cup {v}
    /\ Raise(h)
    /\ UNCHANGED <<mounted, recorded, attached, devices, layer, mail, blame>>

StoresFirstFault(h) == "store"

AfterAttach(h) == "pvs"

\* Skipped when attached already.  The device appears on the host a little later.
AttachVolumeSet(h) ==
    /\ At(h, "attach") /\ attached[set[h]] \in {None, h}
    /\ attached' = [attached EXCEPT ![set[h]] = h]
    /\ Goto(h, AfterAttach(h))
    /\ UNCHANGED <<life, failed, set, mounted, base, recorded, created, devices, layer,
                   faults, mail, blame>>

\* The volume is still attached to the host that is being replaced, or EC2 fails.
AttachVolumeSetRaises(h) ==
    /\ At(h, "attach")
    /\ (attached[set[h]] \notin {None, h} /\ UNCHANGED faults) \/ Fault
    /\ Raise(h)
    /\ UNCHANGED <<mounted, recorded, volumeVars, mail, blame>>

Pvs(h) ==
    /\ At(h, "pvs")
    /\ Goto(h, IF \A v \in Devices(h) : layer[v] = "raw" THEN "create_lv" ELSE "mount")
    /\ UNCHANGED <<life, failed, set, mounted, base, recorded, volumeVars, faults, mail, blame>>

ForcedFault(v) == v \in devices

\* pvcreate without -ff needs the device, and no physical volume on it.
PvCreateWorks(v) == v \in devices /\ layer[v] = "raw"

\* pvcreate, vgcreate, lvcreate, mkfs.
CreateFileSystem(h) ==
    /\ At(h, "create_lv") /\ PvCreateWorks(set[h])
    /\ layer' = [layer EXCEPT ![set[h]] = "fs"]
    /\ Goto(h, "mount")
    /\ UNCHANGED <<life, failed, set, mounted, base, recorded, created, attached, devices,
                   faults, mail, blame>>

CreateFileSystemRaises(h) ==
    /\ At(h, "create_lv")
    /\ \/ ~PvCreateWorks(set[h]) /\ UNCHANGED <<faults, layer>>
       \/ /\ PvCreateWorks(set[h]) /\ Fault
          /\ \E l \in {"raw", "pv", "lv"} : layer' = [layer EXCEPT ![set[h]] = l]
    /\ Raise(h)
    /\ UNCHANGED <<mounted, recorded, created, attached, devices, mail, blame>>

\* The logical volume that vgchange activated or lvcreate made is mounted, whichever
\* volume it is on; volume_info.json is written to it.
Mount(h) ==
    /\ At(h, "mount")
    /\ \E v \in Devices(h) :
        /\ layer[v] = "fs"
        /\ mounted' = [mounted EXCEPT ![h] = v]
        /\ blame' = [blame EXCEPT ![v] = IF v = set[h] THEN @ ELSE @ \cup {"left over"}]
    /\ Goto(h, "store")
    /\ UNCHANGED <<life, failed, set, base, recorded, volumeVars, faults, mail>>

\* There is no logical volume, or no file system on it, or a command fails; the
\* read/write test fails after the mount.
MountRaises(h) ==
    /\ At(h, "mount")
    /\ \/ /\ \/ \E v \in Devices(h) : layer[v] = "lv" /\ UNCHANGED faults
             \/ (\A v \in Devices(h) : layer[v] \in {"raw", "pv"}) /\ UNCHANGED faults
             \/ Fault
          /\ UNCHANGED mounted
       \/ /\ Fault
          /\ \E v \in Devices(h) : layer[v] = "fs" /\ mounted' = [mounted EXCEPT ![h] = v]
    /\ Raise(h)
    /\ UNCHANGED <<recorded, volumeVars, mail, blame>>

\* The volume set of the attempt is recorded; tagging follows and changes nothing.
StoreVolumeSet(h) ==
    /\ At(h, "store")
    /\ recorded' = set[h]
    /\ blame' = IF recorded \in {None, set[h]} \/ recorded = base[h] THEN blame
                ELSE [blame EXCEPT ![recorded] = @ \cup {"overwritten"}]
    /\ Serve(h, mounted[h])
    /\ UNCHANGED <<life, failed, mounted, volumeVars, faults>>

StoreVolumeSetRaises(h) ==
    /\ At(h, "store")
    /\ Fault
    /\ Raise(h)
    /\ UNCHANGED <<mounted, recorded, volumeVars, mail, blame>>

Install(h) ==
    \/ Fetch(h) \/ SkipRetry(h)
    \/ CreateVolumeSet(h) \/ CreateVolumeSetRaises(h)
    \/ AttachVolumeSet(h) \/ AttachVolumeSetRaises(h)
    \/ Pvs(h) \/ CreateFileSystem(h) \/ CreateFileSystemRaises(h)
    \/ Mount(h) \/ MountRaises(h)
    \/ StoreVolumeSet(h) \/ StoreVolumeSetRaises(h)

\* The device of an attached volume appears.
DeviceAppears(v) ==
    /\ attached[v] # None /\ v \notin devices
    /\ devices' = devices \cup {v}
    /\ UNCHANGED <<hostVars, recorded, created, attached, layer, faults, mail, blame>>

\* The group keeps one host; the one it replaces runs on until it is gone.
Launch(h) ==
    /\ life[h] = "absent" /\ \A g \in Host : life[g] # "up"
    /\ life' = [life EXCEPT ![h] = "up"]
    /\ UNCHANGED <<pc, failed, set, mounted, base, recorded, volumeVars, faults, mail, blame>>

Terminate(h) ==
    /\ life[h] = "up"
    /\ life' = [life EXCEPT ![h] = "leaving"]
    /\ UNCHANGED <<pc, failed, set, mounted, base, recorded, volumeVars, faults, mail, blame>>

\* The host ends, at any line of the script; its volumes are detached.
Gone(h) ==
    /\ life[h] = "leaving"
    /\ life' = [life EXCEPT ![h] = "gone"]
    /\ mounted' = [mounted EXCEPT ![h] = None]
    /\ Forget(h)
    /\ attached' = [v \in Volume |-> IF attached[v] = h THEN None ELSE attached[v]]
    /\ devices' = {v \in devices : attached[v] # h}
    /\ UNCHANGED <<pc, failed, recorded, created, layer, faults, mail, blame>>

Next ==
    \/ \E h \in Host : Install(h) \/ Launch(h) \/ Terminate(h) \/ Gone(h)
    \/ \E v \in Volume : DeviceAppears(v)

Spec == Init /\ [][Next]_vars

-----------------------------------------------------------------------------
(***************************************************************************)
(* Properties.                                                             *)
(***************************************************************************)

\* Type invariant: every variable holds the kind of value the code gives it.
TypeOK ==
    /\ life \in [Host -> {"absent", "up", "leaving", "gone"}]
    /\ pc \in [Host -> {"fetch", "create", "attach", "pvs", "create_lv", "mount", "store",
                        "serving", "failed"}]
    /\ failed \in [Host -> 0..(MaxRetries + 1)]
    /\ set \in [Host -> created \cup {None}]
    /\ mounted \in [Host -> Volume \cup {None}]
    /\ recorded \in created \cup {None}
    /\ created \subseteq Volume
    /\ attached \in [Volume -> Host \cup {None}]
    /\ devices \subseteq {v \in Volume : attached[v] # None}
    /\ layer \in [Volume -> {"raw", "pv", "lv", "fs"}]
    /\ faults \in 0..MaxFaults
    /\ base \in [Host -> Volume \cup {None}]
    /\ mail \subseteq Volume
    /\ blame \in [Volume -> SUBSET Cause]

\* The next host finds the volume with the mail, unless the store failed and the
\* retry was skipped, a retry mounted the volume of an earlier attempt, or two
\* hosts installed at the same time.
MailIsRecorded == \A v \in mail : recorded = v \/ blame[v] # {}

\* What a later host will find through the record holds a file system: the comment
\* on pvs rests on that.  It fails only after a retry that mounted a left-over volume.
RecordedIsFormatted ==
    recorded # None /\ layer[recorded] # "fs" =>
        \E v \in Volume : "left over" \in blame[v]

\* The volumes that no record leads to and no host is working on.
Orphans == created \ ({recorded} \cup {set[h] : h \in Host})

\* The attempts that raised, numbered for each host.
Failures == {a \in Host \X (1..(MaxRetries + 1)) : a[2] <= failed[a[1]]}

Interrupted == {h \in Host : life[h] = "gone" /\ pc[h] # "serving"}

Overwritten == {v \in Volume : "overwritten" \in blame[v]}

\* A volume that no record leads to and no host is working on is what is left of an
\* attempt that failed, a host that went away, or a record that was overwritten.
OrphansAreFew ==
    Cardinality(Orphans) <=
        Cardinality(Failures) + Cardinality(Interrupted) + Cardinality(Overwritten)

\* Mail is never formatted over, although pvs may run before the device appears and
\* then takes a volume full of mail for an empty one.
NeverFormatsMail == [][\A v \in mail : layer'[v] = layer[v]]_vars
=============================================================================
