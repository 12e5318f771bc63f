-------------------------- MODULE PlatcheckProofs ---------------------------
(***************************************************************************)
(* Proofs about platcheck, for any set of PCI functions, any host and any  *)
(* number of changes to it during a run.                                   *)
(***************************************************************************)
EXTENDS Platcheck, FiniteSetTheorems, TLAPS

-----------------------------------------------------------------------------
(* The inductive invariant.                                                *)

Statuses == {"PASS", "WARN", "FAIL", "SKIP"}
Walked   == {"iommu", "gpu_isolation"}
Walking  == {"groups", "class"}

Vendors == {"", "nvidia", "other"}
Classes == {"", "display", "audio", "bridge", "other"}

Record == [dev : Devices, group : Nat, vendor : Vendors, cls : Classes]
Scan   == [groups : SUBSET Nat, devs : SUBSET Devices, group : Nat, dev : Devices \cup {"none"},
           vendor : Vendors, ids : SUBSET Nat, found : SUBSET Record]

(* What the files of a plugged device of this kind say. *)
VendorOf(k) == IF k \in {"gpu", "gpu audio"} THEN "nvidia" ELSE "other"
ClassOf(k)  == IF k = "gpu" THEN "display" ELSE IF k = "gpu audio" THEN "audio" ELSE k

PlaceInv ==
  /\ host \in Host /\ changes \in Nat /\ opts \in Options
  /\ pc \in Walking \cup {"options", "check", "print", "exited"}
  /\ results \in Seq(Statuses) /\ scan \in Scan
  /\ pc = "options" => results = <<>>
  /\ pc \in Walking \cup {"check"} => Len(results) < Len(run_all)
  /\ pc \in Walking => This \in Walked
  /\ pc = "class" => scan.dev \in Devices
  /\ pc = "print" => Len(results) = Len(run_all)

(* A record holds what its device's files said, or nothing. *)
Recorded(f) ==
  /\ f.group = host.group[f.dev]
  /\ f.vendor \in {"", VendorOf(host.kind[f.dev])}
  /\ f.cls \in {"", ClassOf(host.kind[f.dev])}

ReadInv ==
  pc \in Walking =>
    /\ \A d \in scan.devs : host.group[d] = scan.group
    /\ pc = "class" => /\ host.group[scan.dev] = scan.group
                       /\ scan.vendor \in {"", VendorOf(host.kind[scan.dev])}
    /\ \A f \in scan.found : Recorded(f)

(* Where a device is on its way from the directory to the records. *)
Met(d) ==
  \/ \E f \in scan.found : f.dev = d
  \/ d \in scan.devs
  \/ pc = "class" /\ d = scan.dev
  \/ d \in host.present /\ host.group[d] \in scan.groups

ReadExactly(f) ==
  f.vendor = VendorOf(host.kind[f.dev]) /\ f.cls = ClassOf(host.kind[f.dev])

(* A walk over a host that has not changed misses and invents nothing. *)
WalkExact ==
  changes = 0 /\ pc \in Walking =>
    /\ \A g \in Nat : g \in scan.ids \cup scan.groups <=> \E d \in host.present : host.group[d] = g
    /\ \A d \in Devices : d \in host.present <=> Met(d)
    /\ pc = "class" => scan.vendor = VendorOf(host.kind[scan.dev])
    /\ \A f \in scan.found : ReadExactly(f)

(* The status a check has on a host that does not change. *)
Exact(id) ==
  CASE id = "kernel"        -> check_kernel
    [] id = "cpu_virt"      -> check_cpu_virt
    [] id = "kvm_device"    -> check_kvm_device
    [] id = "kvm_module"    -> check_kvm_module
    [] id = "nested_virt"   -> check_nested_virt
    [] id = "iommu"         -> IF host.present # {} THEN "PASS" ELSE "FAIL"
    [] id = "vfio"          -> check_vfio_modules
    [] id = "hugepages"     -> check_hugepages
    [] id = "gpu_isolation" -> Isolated(Considered(host.present))
    [] OTHER                -> check_confidential_computing

ResultsExact == changes = 0 => \A i \in DOMAIN results : results[i] = Exact(run_all[i])

PrintInv ==
  printed # <<>> =>
    /\ pc = "exited" /\ Len(results) = Len(run_all)
    /\ printed = IF opts.json THEN <<render_json>> ELSE <<render_text>>
    /\ exit = exit_code_for

PlatcheckInv == PlaceInv /\ ReadInv /\ WalkExact /\ ResultsExact /\ PrintInv

-----------------------------------------------------------------------------
(* Facts about the list of checks and the statuses.                        *)

(* The ten checks of run_all, none of them twice. *)
LEMMA RunAll ==
  /\ Len(run_all) = 10 /\ DOMAIN run_all = 1..10
  /\ \A i, j \in 1..10 : run_all[i] = run_all[j] => i = j
  /\ run_all[2] = "cpu_virt" /\ run_all[3] = "kvm_device" /\ run_all[4] = "kvm_module"
  /\ run_all[5] = "nested_virt" /\ run_all[6] = "iommu" /\ run_all[9] = "gpu_isolation"
<1>1. Len(run_all) = 10 /\ DOMAIN run_all = 1..10
  BY DEF run_all
<1>2. ASSUME NEW i \in 1..10, NEW j \in 1..10, run_all[i] = run_all[j]
      PROVE  i = j
  BY <1>2 DEF run_all
<1>3. /\ run_all[2] = "cpu_virt" /\ run_all[3] = "kvm_device" /\ run_all[4] = "kvm_module"
      /\ run_all[5] = "nested_virt" /\ run_all[6] = "iommu" /\ run_all[9] = "gpu_isolation"
  BY DEF run_all
<1> QED BY <1>1, <1>2, <1>3

(* Every check returns a status. *)
LEMMA CheckStatus ==
  /\ check_kernel \in Statuses /\ check_cpu_virt \in Statuses /\ check_kvm_device \in Statuses
  /\ check_kvm_module \in Statuses /\ check_nested_virt \in Statuses
  /\ check_vfio_modules \in Statuses /\ check_hugepages \in Statuses
  /\ check_confidential_computing \in Statuses
  /\ check_iommu \in Statuses /\ check_gpu_isolation \in Statuses
<1>1. /\ check_kernel \in Statuses /\ check_cpu_virt \in Statuses /\ check_kvm_device \in Statuses
      /\ check_kvm_module \in Statuses
  BY DEF Statuses, check_kernel, check_cpu_virt, check_kvm_device, check_kvm_module
<1>2. check_nested_virt \in Statuses
  BY DEF Statuses, check_nested_virt
<1>3. /\ check_vfio_modules \in Statuses /\ check_hugepages \in Statuses
      /\ check_confidential_computing \in Statuses /\ check_iommu \in Statuses
  BY DEF Statuses, check_vfio_modules, check_hugepages, check_confidential_computing, check_iommu
<1>4. check_gpu_isolation \in Statuses
  BY DEF Statuses, check_gpu_isolation
<1> QED BY <1>1, <1>2, <1>3, <1>4

(* The statuses of an unchanged host stay what they are. *)
LEMMA SameHost ==
  ASSUME host' = host
  PROVE  \A id : Exact(id)' = Exact(id)
BY DEF Exact, check_kernel, check_cpu_virt, cpuinfo_has_flags_line, cpu_has_flag, check_kvm_device,
       check_kvm_module, check_nested_virt, NestedReadable, check_vfio_modules, check_hugepages,
       check_confidential_computing, Loaded, Isolated, Foreign, Considered, StrayAudio

-----------------------------------------------------------------------------
(* The walk over the IOMMU groups.                                         *)

(* A GPU that is recognised is one, and what is taken for harmless is.     *)
LEMMA Recognised ==
  ASSUME PlaceInv, NEW f \in scan.found, Recorded(f)
  PROVE  /\ is_gpu(f) => host.kind[f.dev] = "gpu"
         /\ f.cls = "bridge" => host.kind[f.dev] = "bridge"
         /\ f.vendor = "nvidia" /\ f.cls = "audio" => host.kind[f.dev] = "gpu audio"
BY DEF PlaceInv, Scan, Record, Recorded, is_gpu, VendorOf, ClassOf

(* And the other way round, where everything could be read. *)
LEMMA RecognisedExactly ==
  ASSUME PlaceInv, NEW f \in scan.found, ReadExactly(f)
  PROVE  /\ is_gpu(f) <=> host.kind[f.dev] = "gpu"
         /\ f.cls = "bridge" <=> host.kind[f.dev] = "bridge"
         /\ f.vendor = "nvidia" /\ f.cls = "audio" <=> host.kind[f.dev] = "gpu audio"
BY DEF PlaceInv, Scan, Record, ReadExactly, is_gpu, VendorOf, ClassOf

(* What the code looks for in the group of a GPU.  An audio function that  *)
(* it overlooks and that is not stray is not alone: its GPU is there, too. *)
Told(d, devs) ==
  {e \in devs : e # d /\ host.group[e] = host.group[d] /\ host.kind[e] \notin {"bridge", "gpu audio"}}

LEMMA ForeignIsTold ==
  ASSUME NEW d, NEW devs
  PROVE  Foreign(d, Considered(devs)) # {} <=> Told(d, devs) # {}
<1>1. ASSUME NEW e \in Told(d, devs) PROVE e \in Foreign(d, Considered(devs))
  BY DEF Told, Foreign, Considered, StrayAudio
<1>2. ASSUME NEW e \in Foreign(d, Considered(devs)) PROVE \E o : o \in Told(d, devs)
  <2>1. CASE host.kind[e] # "gpu audio"
    BY <2>1 DEF Told, Foreign, Considered
  <2>2. CASE host.kind[e] = "gpu audio"
    <3>1. PICK g \in devs : /\ host.kind[g] = "gpu" /\ host.group[g] = host.group[e]
                            /\ host.card[g] = host.card[e]
      BY <2>2 DEF Foreign, Considered, StrayAudio
    <3>2. g # d /\ host.group[g] = host.group[d]
      BY <2>2, <3>1 DEF Foreign
    <3> QED BY <3>1, <3>2 DEF Told
  <2> QED BY <2>1, <2>2
<1> QED BY <1>1, <1>2

(* On a host that has not changed the walk ends with the right verdict. *)
LEMMA IsolationExact ==
  ASSUME PlaceInv, ReadInv, WalkExact, changes = 0, pc = "groups", scan.groups = {}, scan.devs = {}
  PROVE  check_gpu_isolation = Isolated(Considered(host.present))
<1> DEFINE gpus == {f \in scan.found : is_gpu(f)}
           devs == {d \in host.present : host.kind[d] = "gpu"}
<1>1. /\ \A f \in scan.found : f.dev \in Devices /\ f.group = host.group[f.dev] /\ ReadExactly(f)
      /\ \A d \in Devices : d \in host.present <=> \E f \in scan.found : f.dev = d
      /\ host.present \subseteq Devices
  BY DEF PlaceInv, ReadInv, WalkExact, Walking, Met, Recorded, Scan, Record, Host
<1>2. \A f \in scan.found :
        /\ f.dev \in host.present
        /\ is_gpu(f) <=> host.kind[f.dev] = "gpu"
        /\ f.cls = "bridge" <=> host.kind[f.dev] = "bridge"
        /\ f.vendor = "nvidia" /\ f.cls = "audio" <=> host.kind[f.dev] = "gpu audio"
  BY <1>1, RecognisedExactly
<1>3. gpus = {} <=> devs = {}
  <2>1. ASSUME NEW f \in gpus PROVE f.dev \in devs
    BY <1>2
  <2>2. ASSUME NEW d \in devs PROVE \E f : f \in gpus
    <3>1. PICK f \in scan.found : f.dev = d
      BY <1>1
    <3> QED BY <1>2, <3>1
  <2> QED BY <2>1, <2>2
<1>4. (\E f \in gpus : others(f) # {}) <=> (\E d \in devs : Told(d, host.present) # {})
  <2>1. ASSUME NEW f \in gpus, NEW o \in others(f)
        PROVE  \E d \in devs : Told(d, host.present) # {}
    <3>1. o.dev \in Told(f.dev, host.present) /\ f.dev \in devs
      BY <1>1, <1>2 DEF others, Told
    <3> QED BY <3>1
  <2>2. ASSUME NEW d \in devs, NEW e \in Told(d, host.present)
        PROVE  \E f \in gpus : others(f) # {}
    <3>1. PICK f \in scan.found : f.dev = d
      BY <1>1
    <3>2. PICK o \in scan.found : o.dev = e
      BY <1>1 DEF Told
    <3>3. f \in gpus /\ o \in others(f)
      BY <1>1, <1>2, <3>1, <3>2 DEF others, Told
    <3> QED BY <3>3
  <2> QED BY <2>1, <2>2
<1> HIDE DEF gpus, devs
<1>5. check_gpu_isolation = CASE gpus = {}                        -> "SKIP"
                              [] \E d \in gpus : others(d) # {}   -> "WARN"
                              [] OTHER                            -> "PASS"
  BY DEF check_gpu_isolation, gpus
<1>6. {d \in Considered(host.present) : host.kind[d] = "gpu"} = devs
  BY DEF Considered, StrayAudio, devs
<1>7. Isolated(Considered(host.present)) = CASE devs = {}                                     -> "SKIP"
                                             [] \E d \in devs : Told(d, host.present) # {}   -> "WARN"
                                             [] OTHER                                         -> "PASS"
  BY <1>6, ForeignIsTold DEF Isolated
<1> QED BY <1>3, <1>4, <1>5, <1>7

-----------------------------------------------------------------------------
(* The invariant holds initially and every step preserves it.              *)

(* The initial states. *)
LEMMA InitInv == Init => PlatcheckInv
<1> SUFFICES ASSUME Init PROVE PlatcheckInv
  OBVIOUS
<1>1. NoScan \in Scan /\ <<>> \in Seq(Statuses) /\ Len(<<>>) = 0
  BY DEF NoScan, Scan, Vendors
<1>2. PlaceInv
  BY <1>1, PlatcheckAssumption DEF Init, PlaceInv, Walking
<1> QED BY <1>1, <1>2 DEF Init, PlatcheckInv, ReadInv, WalkExact, ResultsExact, PrintInv, Walking

(* A step that adds a result. *)
LEMMA VerdictStep ==
  ASSUME PlatcheckInv, NEW s \in Statuses, pc \in {"check", "groups"}, Verdict(s),
         changes = 0 => s = Exact(This),
         UNCHANGED <<host, changes, opts, printed, exit>>
  PROVE  PlatcheckInv'
<1> USE DEF PlatcheckInv
<1>1. /\ results' = Append(results, s) /\ results' \in Seq(Statuses) /\ Len(results') = Len(results) + 1
      /\ Len(results) < 10 /\ Len(results) \in Nat
      /\ DOMAIN results' = 1..(Len(results) + 1) /\ DOMAIN results = 1..Len(results)
      /\ \A i \in 1..Len(results) : results'[i] = results[i]
      /\ results'[Len(results) + 1] = s
  BY RunAll DEF PlaceInv, Walking, Verdict
<1>2. pc' \in {"print", "check"} /\ (pc' = "print" <=> Len(results) + 1 = 10)
  BY RunAll DEF Verdict
<1>3. PlaceInv'
  <2>1. scan' \in Scan
    BY DEF Verdict, NoScan, Scan, Vendors
  <2> QED BY <1>1, <1>2, <2>1, RunAll DEF PlaceInv, Walking
<1>4. ReadInv' /\ WalkExact'
  BY <1>2 DEF ReadInv, WalkExact, Walking
<1>5. ResultsExact'
  BY <1>1, SameHost DEF ResultsExact, This
<1>6. PrintInv'
  BY DEF PrintInv
<1> QED BY <1>3, <1>4, <1>5, <1>6

(* A step of the program that leaves the results alone. *)
LEMMA SameResults ==
  ASSUME ResultsExact, PrintInv, UNCHANGED <<host, changes, opts, results, printed, exit>>, pc # "exited"
  PROVE  ResultsExact' /\ PrintInv'
BY SameHost DEF ResultsExact, PrintInv

(* parse_options. *)
LEMMA OptionsStep == PlatcheckInv /\ parse_options => PlatcheckInv'
<1> SUFFICES ASSUME PlatcheckInv, parse_options PROVE PlatcheckInv'
  OBVIOUS
<1> USE DEF PlatcheckInv
<1>1. /\ pc = "options" /\ pc' \in {"check", "exited"} /\ Len(results) = 0 /\ printed' = printed
      /\ UNCHANGED <<host, changes, opts, results, scan>>
  BY DEF parse_options, PlaceInv
<1>2. PlaceInv'
  BY <1>1, RunAll DEF PlaceInv, Walking
<1>3. ReadInv' /\ WalkExact'
  BY <1>1 DEF ReadInv, WalkExact, Walking
<1>4. PrintInv'
  BY <1>1 DEF PrintInv
<1>5. ResultsExact'
  BY <1>1, SameHost DEF ResultsExact
<1> QED BY <1>2, <1>3, <1>4, <1>5

(* The checks that read one thing at a time. *)
LEMMA CheckStep == PlatcheckInv /\ check => PlatcheckInv'
<1> SUFFICES ASSUME PlatcheckInv, check PROVE PlatcheckInv'
  OBVIOUS
<1> DEFINE s == CASE This = "kernel"      -> check_kernel
                  [] This = "cpu_virt"    -> check_cpu_virt
                  [] This = "kvm_device"  -> check_kvm_device
                  [] This = "kvm_module"  -> check_kvm_module
                  [] This = "nested_virt" -> check_nested_virt
                  [] This = "vfio"        -> check_vfio_modules
                  [] This = "hugepages"   -> check_hugepages
                  [] OTHER                -> check_confidential_computing
<1>1. Verdict(s) /\ pc = "check" /\ This \notin Walked /\ UNCHANGED <<host, changes, opts, printed, exit>>
  BY DEF check, Walked
<1>2. s \in Statuses
  BY CheckStatus
<1>3. s = Exact(This)
  BY <1>1 DEF Exact, Walked
<1> QED BY <1>1, <1>2, <1>3, VerdictStep

(* list_groups. *)
LEMMA ListGroupsStep == PlatcheckInv /\ list_groups => PlatcheckInv'
<1> SUFFICES ASSUME PlatcheckInv, list_groups PROVE PlatcheckInv'
  OBVIOUS
<1> USE DEF PlatcheckInv
<1> DEFINE G == {host.group[d] : d \in host.present}
<1>0. host.present \subseteq Devices /\ \A d \in Devices : host.group[d] \in Nat
  BY DEF PlaceInv, Host
<1>a. G \in SUBSET Nat
  BY <1>0
<1>1. \A g \in Nat : g \in G <=> \E d \in host.present : host.group[d] = g
  OBVIOUS
<1>2. \A d \in host.present : host.group[d] \in G
  OBVIOUS
<1>3. /\ scan' = [NoScan EXCEPT !.groups = G] /\ pc = "check" /\ pc' = "groups" /\ This \in Walked
      /\ UNCHANGED <<host, changes, opts, results, printed, exit>>
  BY DEF list_groups, Walked
<1> HIDE DEF G
<1>4. /\ scan'.groups = G /\ scan'.devs = {} /\ scan'.ids = {} /\ scan'.found = {}
      /\ scan' \in Scan
  BY <1>a, <1>3 DEF NoScan, Scan, Vendors
<1>5. PlaceInv'
  BY <1>3, <1>4 DEF PlaceInv, Walking, This
<1>6. ReadInv'
  BY <1>3, <1>4 DEF ReadInv
<1>7. WalkExact'
  BY <1>0, <1>1, <1>2, <1>3, <1>4 DEF WalkExact, Met
<1> QED BY <1>3, <1>5, <1>6, <1>7, SameResults

(* list_devices. *)
LEMMA ListDevicesStep == PlatcheckInv /\ list_devices => PlatcheckInv'
<1> SUFFICES ASSUME PlatcheckInv, list_devices PROVE PlatcheckInv'
  OBVIOUS
<1> USE DEF PlatcheckInv
<1>0. PICK g \in scan.groups :
        scan' = [scan EXCEPT !.groups = @ \ {g}, !.ids = @ \cup {g}, !.group = g, !.devs = InGroup(g)]
  BY DEF list_devices
<1>a. InGroup(g) \in SUBSET Devices /\ g \in Nat
  BY DEF InGroup, PlaceInv, Scan, Host
<1>1. /\ scan'.groups = scan.groups \ {g} /\ scan'.devs = InGroup(g) /\ scan'.ids = scan.ids \cup {g}
      /\ scan'.found = scan.found /\ scan'.group = g /\ scan' \in Scan
  BY <1>0, <1>a DEF PlaceInv, Scan
<1>2. pc = "groups" /\ scan.devs = {} /\ UNCHANGED <<host, changes, opts, pc, results, printed, exit>>
  BY DEF list_devices
<1>3. PlaceInv'
  BY <1>1, <1>2 DEF PlaceInv, Walking, This
<1>4. ReadInv'
  BY <1>1, <1>2 DEF ReadInv, Walking, InGroup, Recorded
<1>5. WalkExact'
  BY <1>a, <1>1, <1>2 DEF WalkExact, Walking, Met, InGroup, ReadExactly
<1> QED BY <1>2, <1>3, <1>4, <1>5, SameResults

(* read_vendor. *)
LEMMA ReadVendorStep == PlatcheckInv /\ read_vendor => PlatcheckInv'
<1> SUFFICES ASSUME PlatcheckInv, read_vendor PROVE PlatcheckInv'
  OBVIOUS
<1> USE DEF PlatcheckInv
<1>0. PICK d \in scan.devs : scan' = [scan EXCEPT !.devs = @ \ {d}, !.dev = d, !.vendor = Vendor(d)]
  BY DEF read_vendor
<1>1. /\ scan'.groups = scan.groups /\ scan'.devs = scan.devs \ {d} /\ scan'.ids = scan.ids
      /\ scan'.found = scan.found /\ scan'.group = scan.group /\ scan'.dev = d
      /\ scan'.vendor = Vendor(d) /\ scan' \in Scan /\ d \in Devices
  BY <1>0 DEF PlaceInv, Scan, Vendors, Vendor
<1>2. /\ pc = "groups" /\ pc' = "class"
      /\ UNCHANGED <<host, changes, opts, results, printed, exit>>
  BY DEF read_vendor
<1>3. PlaceInv'
  BY <1>1, <1>2 DEF PlaceInv, Walking, This
<1>4. ReadInv'
  BY <1>1, <1>2 DEF ReadInv, Walking, Recorded, Vendor, VendorOf
<1>5. WalkExact'
  BY <1>1, <1>2 DEF WalkExact, Walking, Met, ReadExactly, Vendor, VendorOf
<1> QED BY <1>2, <1>3, <1>4, <1>5, SameResults

(* read_class. *)
LEMMA ReadClassStep == PlatcheckInv /\ read_class => PlatcheckInv'
<1> SUFFICES ASSUME PlatcheckInv, read_class PROVE PlatcheckInv'
  OBVIOUS
<1> USE DEF PlatcheckInv
<1>0. PICK f : f = [dev |-> scan.dev, group |-> scan.group, vendor |-> scan.vendor, cls |-> Class(scan.dev)]
  OBVIOUS
<1>1. /\ scan'.groups = scan.groups /\ scan'.devs = scan.devs /\ scan'.ids = scan.ids
      /\ scan'.found = scan.found \cup {f} /\ scan'.group = scan.group
  BY <1>0 DEF read_class, PlaceInv, Scan
<1>2. /\ pc = "class" /\ pc' = "groups" /\ scan.dev \in Devices
      /\ UNCHANGED <<host, changes, opts, results, printed, exit>>
  BY DEF read_class, PlaceInv
<1>3. Class(scan.dev) \in {"", ClassOf(host.kind[scan.dev])} /\ Class(scan.dev) \in Classes
  BY <1>2 DEF Class, ClassOf, PlaceInv, Host, Classes, Kinds
<1>4. /\ f \in Record /\ f.dev = scan.dev /\ f.group = scan.group /\ f.vendor = scan.vendor
      /\ f.cls = Class(scan.dev)
  BY <1>0, <1>2, <1>3 DEF PlaceInv, Scan, Record
<1>5. scan' \in Scan
  BY <1>0, <1>4 DEF read_class, PlaceInv, Scan, Vendors
<1>6. PlaceInv'
  BY <1>2, <1>5 DEF PlaceInv, Walking, This
<1>7. ReadInv'
  BY <1>1, <1>2, <1>3, <1>4 DEF ReadInv, Walking, Recorded
<1>8. WalkExact'
  <2> SUFFICES ASSUME changes = 0
               PROVE  WalkExact'
    BY <1>2 DEF WalkExact
  <2>1. scan.dev \in host.present
    BY <1>2 DEF WalkExact, Walking, Met
  <2>2. ReadExactly(f)
    BY <1>2, <1>4, <2>1 DEF ReadExactly, WalkExact, Walking, Class, ClassOf
  <2>3. \A d \in Devices : Met(d)' <=> Met(d)
    BY <1>1, <1>2, <1>4 DEF Met
  <2> QED BY <1>1, <1>2, <2>2, <2>3 DEF WalkExact, Walking, ReadExactly
<1> QED BY <1>2, <1>6, <1>7, <1>8, SameResults

(* The end of a walk: read_iommu_groups returns and the check is decided. *)
LEMMA WalkStep == PlatcheckInv /\ read_iommu_groups => PlatcheckInv'
<1> SUFFICES ASSUME PlatcheckInv, read_iommu_groups PROVE PlatcheckInv'
  OBVIOUS
<1> DEFINE s == IF This = "iommu" THEN check_iommu ELSE check_gpu_isolation
<1>1. /\ Verdict(s) /\ pc = "groups" /\ scan.groups = {} /\ scan.devs = {}
      /\ UNCHANGED <<host, changes, opts, printed, exit>>
  BY DEF read_iommu_groups
<1>2. s \in Statuses
  BY CheckStatus
<1>3. This \in Walked
  BY <1>1 DEF PlatcheckInv, PlaceInv, Walking
<1>4. ASSUME changes = 0 PROVE s = Exact(This)
  <2>1. CASE This = "iommu"
    <3>1. scan.ids # {} <=> host.present # {}
      BY <1>1, <1>4 DEF PlatcheckInv, WalkExact, Walking, PlaceInv, Scan, Host
    <3> QED BY <2>1, <3>1 DEF check_iommu, Exact
  <2>2. CASE This = "gpu_isolation"
    <3>1. check_gpu_isolation = Isolated(Considered(host.present))
      BY <1>1, <1>4, IsolationExact DEF PlatcheckInv
    <3> QED BY <2>2, <3>1 DEF Exact
  <2> QED BY <1>3, <2>1, <2>2 DEF Walked
<1> HIDE DEF s
<1> QED BY <1>1, <1>2, <1>4, VerdictStep

(* The output. *)
LEMMA PrintStep == PlatcheckInv /\ print => PlatcheckInv'
<1> SUFFICES ASSUME PlatcheckInv, print PROVE PlatcheckInv'
  OBVIOUS
<1> USE DEF PlatcheckInv, print
<1>1. PlaceInv'
  BY DEF PlaceInv, Walking
<1>2. ReadInv' /\ WalkExact'
  BY DEF ReadInv, WalkExact, Walking
<1>3. ResultsExact'
  BY SameHost DEF ResultsExact
<1>4. Len(results) = Len(run_all)
  BY DEF PlaceInv
<1>5. UNCHANGED <<opts, results>> /\ render_json' = render_json /\ render_text' = render_text
      /\ exit_code_for' = exit_code_for
  BY DEF render_json, render_text, exit_code_for, count
<1>6. PrintInv'
  BY <1>4, <1>5 DEF PrintInv
<1> QED BY <1>1, <1>2, <1>3, <1>6

(* A change to the host leaves the kinds and the groups of the devices     *)
(* alone, and after it nothing is claimed to be exact.                     *)
LEMMA ChangeStep ==
  ASSUME PlatcheckInv, NEW h \in Host, h.kind = host.kind, h.group = host.group, Change(h)
  PROVE  PlatcheckInv'
<1> USE DEF PlatcheckInv, Change
<1>1. changes' # 0 /\ changes' \in Nat
  BY DEF PlaceInv
<1>2. PlaceInv'
  BY <1>1 DEF PlaceInv, This
<1>3. ReadInv'
  BY DEF ReadInv, Recorded
<1>4. WalkExact' /\ ResultsExact'
  BY <1>1 DEF WalkExact, ResultsExact
<1>5. PrintInv'
  BY DEF PrintInv
<1> QED BY <1>2, <1>3, <1>4, <1>5

(* Devices come and go, modules are loaded and unloaded. *)
LEMMA HostStep == PlatcheckInv /\ (Unplug \/ Plug \/ Modprobe) => PlatcheckInv'
<1> SUFFICES ASSUME PlatcheckInv, Unplug \/ Plug \/ Modprobe PROVE PlatcheckInv'
  OBVIOUS
<1>0. host \in Host
  BY DEF PlatcheckInv, PlaceInv
<1>1. CASE Unplug
  <2>1. PICK d \in host.present : Change([host EXCEPT !.present = @ \ {d}])
    BY <1>1 DEF Unplug
  <2>2. PICK h : h = [host EXCEPT !.present = @ \ {d}]
    OBVIOUS
  <2>3. h \in Host /\ h.kind = host.kind /\ h.group = host.group
    BY <1>0, <2>2 DEF Host
  <2> QED BY <2>1, <2>2, <2>3, ChangeStep
<1>2. CASE Plug
  <2>1. PICK d \in Devices \ host.present : Change([host EXCEPT !.present = @ \cup {d}])
    BY <1>2 DEF Plug
  <2>2. PICK h : h = [host EXCEPT !.present = @ \cup {d}]
    OBVIOUS
  <2>3. h \in Host /\ h.kind = host.kind /\ h.group = host.group
    BY <1>0, <2>2 DEF Host
  <2> QED BY <2>1, <2>2, <2>3, ChangeStep
<1>3. CASE Modprobe
  <2>1. PICK m \in {"kvm_intel", "kvm_amd"} :
          \/ Change([host EXCEPT !.modules = @ \cup {m, "kvm"}])
          \/ Change([host EXCEPT !.modules = @ \ {m}])
    BY <1>3 DEF Modprobe
  <2>2. PICK h1 : h1 = [host EXCEPT !.modules = @ \cup {m, "kvm"}]
    OBVIOUS
  <2>3. PICK h2 : h2 = [host EXCEPT !.modules = @ \ {m}]
    OBVIOUS
  <2>4. h1 \in Host /\ h1.kind = host.kind /\ h1.group = host.group
    BY <1>0, <2>2 DEF Host
  <2>5. h2 \in Host /\ h2.kind = host.kind /\ h2.group = host.group
    BY <1>0, <2>3 DEF Host
  <2> QED BY <2>1, <2>2, <2>3, <2>4, <2>5, ChangeStep
<1> QED BY <1>1, <1>2, <1>3

(* The walk over the IOMMU groups finds what is there on a host that does  *)
(* not change, and on any host records of a device nothing but what its    *)
(* files said or that they could not be read; every result is the one the  *)
(* unchanged host deserves; what is printed is what was found.             *)
THEOREM PlatcheckInvariant == Spec => []PlatcheckInv
<1>1. Init => PlatcheckInv
  BY InitInv
<1>2. PlatcheckInv /\ [Next]_vars => PlatcheckInv'
  <2> SUFFICES ASSUME PlatcheckInv, [Next]_vars PROVE PlatcheckInv'
    OBVIOUS
  <2>1. CASE Next
    BY <2>1, OptionsStep, CheckStep, ListGroupsStep, ListDevicesStep, ReadVendorStep, ReadClassStep,
       WalkStep, PrintStep, HostStep DEF Next
  <2>2. CASE UNCHANGED vars
    BY <2>2, SameHost DEF vars, PlatcheckInv, PlaceInv, ReadInv, WalkExact, ResultsExact, PrintInv, This,
       Recorded, ReadExactly, Met, render_json, render_text, exit_code_for, count
  <2> QED BY <2>1, <2>2
<1> QED BY <1>1, <1>2, PTL DEF Spec

-----------------------------------------------------------------------------
(* What follows from the invariant.                                        *)

(* platcheck calls a GPU isolated only if nothing foreign but stray audio  *)
(* functions was in its group when that was listed, and its verdict on a   *)
(* host that does not change is exact for all other devices.               *)
THEOREM IsolationIsSound == Spec => []IsolationSound
<1>1. PlatcheckInv => IsolationSound
  <2> SUFFICES ASSUME PlatcheckInv, pc = "groups", scan.groups = {}, scan.devs = {}
               PROVE  LET listed == {d.dev : d \in scan.found}
                          seen   == {d.dev : d \in {f \in scan.found : is_gpu(f)}}
                      IN  /\ check_gpu_isolation = "PASS" =>
                               seen # {} /\ \A d \in seen : host.kind[d] = "gpu" /\ Foreign(d, Considered(listed)) = {}
                          /\ changes = 0 => check_gpu_isolation = Isolated(Considered(host.present))
    BY DEF IsolationSound
  <2> DEFINE listed == {d.dev : d \in scan.found}
             gpus   == {f \in scan.found : is_gpu(f)}
             seen   == {d.dev : d \in gpus}
  <2>1. changes = 0 => check_gpu_isolation = Isolated(Considered(host.present))
    BY IsolationExact DEF PlatcheckInv
  <2>2. \A f \in scan.found : /\ Recorded(f)
                              /\ is_gpu(f) => host.kind[f.dev] = "gpu"
                              /\ f.cls = "bridge" => host.kind[f.dev] = "bridge"
                              /\ f.vendor = "nvidia" /\ f.cls = "audio" => host.kind[f.dev] = "gpu audio"
    BY Recognised DEF PlatcheckInv, ReadInv, Walking
  <2>3. ASSUME check_gpu_isolation = "PASS"
        PROVE  gpus # {} /\ \A f \in gpus : others(f) = {}
    BY <2>3 DEF check_gpu_isolation
  <2>4. ASSUME check_gpu_isolation = "PASS", NEW f \in gpus, NEW e \in Told(f.dev, listed)
        PROVE  FALSE
    <3>1. PICK o \in scan.found : o.dev = e
      BY DEF Told
    <3>2. o.group = f.group
      BY <2>2, <3>1 DEF Told, Recorded
    <3>3. o \in others(f)
      BY <2>2, <3>1, <3>2 DEF others, Told
    <3> QED BY <2>3, <2>4, <3>3
  <2>5. ASSUME check_gpu_isolation = "PASS"
        PROVE  seen # {} /\ \A d \in seen : host.kind[d] = "gpu" /\ Foreign(d, Considered(listed)) = {}
    <3>1. seen # {}
      BY <2>3, <2>5
    <3>2. ASSUME NEW d \in seen PROVE host.kind[d] = "gpu" /\ Foreign(d, Considered(listed)) = {}
      <4>1. PICK f \in gpus : f.dev = d
        OBVIOUS
      <4>2. host.kind[d] = "gpu"
        BY <2>2, <4>1
      <4>3. Foreign(d, Considered(listed)) = {}
        <5>1. Told(f.dev, listed) = {}
          BY <2>4, <2>5
        <5> HIDE DEF listed
        <5> QED BY <4>1, <5>1, ForeignIsTold
      <4> QED BY <4>2, <4>3
    <3> QED BY <3>1, <3>2
  <2> QED BY <2>1, <2>5
<1> QED BY <1>1, PlatcheckInvariant, PTL

(* The cardinality of a disjoint union. *)
LEMMA DisjointUnion ==
  ASSUME NEW S, NEW T, IsFiniteSet(S), IsFiniteSet(T), S \cap T = {}
  PROVE  IsFiniteSet(S \cup T) /\ Cardinality(S \cup T) = Cardinality(S) + Cardinality(T)
<1>1. IsFiniteSet(S \cup T) /\ Cardinality(S \cup T) = Cardinality(S) + Cardinality(T) - Cardinality(S \cap T)
  BY FS_Union
<1>2. Cardinality(S) \in Nat /\ Cardinality(T) \in Nat /\ Cardinality(S \cap T) = 0
  BY FS_CardinalityType, FS_EmptySet
<1> QED BY <1>1, <1>2

(* Counting the results: the four statuses partition the checks, and there *)
(* is one piece of advice per warning or failure.                          *)
LEMMA Counted ==
  ASSUME results \in Seq(Statuses), Len(results) = Len(run_all)
  PROVE  /\ count("FAIL") = 0 <=> exit_code_for = 0
         /\ count("PASS") + count("WARN") + count("FAIL") + count("SKIP") = Len(run_all)
         /\ Cardinality({run_all[i] : i \in {j \in DOMAIN results : results[j] \in {"WARN", "FAIL"}}})
               = count("FAIL") + count("WARN")
<1> DEFINE At(s) == {i \in DOMAIN results : results[i] = s}
           Bad   == {j \in DOMAIN results : results[j] \in {"WARN", "FAIL"}}
           Fine  == {j \in DOMAIN results : results[j] \in {"PASS", "SKIP"}}
           adv   == {run_all[i] : i \in Bad}
<1>0. Len(results) = 10
  BY RunAll
<1>1. DOMAIN results = 1..10 /\ \A i \in 1..10 : results[i] \in Statuses
  <2>1. DOMAIN results = 1..Len(results) /\ \A i \in DOMAIN results : results[i] \in Statuses
    OBVIOUS
  <2> QED BY <1>0, <2>1
<1>2. IsFiniteSet(1..10) /\ Cardinality(1..10) = 10
  <2>1. 1 \in Int /\ 10 \in Int /\ ~(1 > 10) /\ 10 - 1 + 1 = 10
    OBVIOUS
  <2> QED BY <2>1, FS_Interval
<1>3. \A s : IsFiniteSet(At(s)) /\ Cardinality(At(s)) \in Nat /\ count(s) = Cardinality(At(s))
  <2>1. ASSUME NEW s PROVE IsFiniteSet(At(s)) /\ Cardinality(At(s)) \in Nat
    <3>1. At(s) \in SUBSET (1..10)
      BY <1>1
    <3> HIDE DEF At
    <3>2. IsFiniteSet(At(s))
      BY <1>2, <3>1, FS_Subset
    <3> QED BY <3>2, FS_CardinalityType
  <2>2. \A s : count(s) = Cardinality(At(s))
    BY DEF count
  <2> QED BY <2>1, <2>2
<1>4. count("FAIL") = 0 <=> exit_code_for = 0
  <2>1. count("FAIL") = 0 <=> At("FAIL") = {}
    BY <1>3, FS_EmptySet
  <2>2. At("FAIL") = {} <=> ~\E i \in DOMAIN results : results[i] = "FAIL"
    OBVIOUS
  <2> QED BY <2>1, <2>2 DEF exit_code_for
<1>5. IsFiniteSet(Bad) /\ Cardinality(Bad) = count("WARN") + count("FAIL")
  <2>1. Bad = At("WARN") \cup At("FAIL") /\ At("WARN") \cap At("FAIL") = {}
    OBVIOUS
  <2> HIDE DEF Bad, At
  <2> QED BY <1>3, <2>1, DisjointUnion
<1>6. IsFiniteSet(Fine) /\ Cardinality(Fine) = count("PASS") + count("SKIP")
  <2>1. Fine = At("PASS") \cup At("SKIP") /\ At("PASS") \cap At("SKIP") = {}
    OBVIOUS
  <2> HIDE DEF Fine, At
  <2> QED BY <1>3, <2>1, DisjointUnion
<1>7. Cardinality(Bad) + Cardinality(Fine) = 10
  <2>1. Bad \cup Fine = 1..10 /\ Bad \cap Fine = {}
    BY <1>1 DEF Statuses
  <2> HIDE DEF Bad, Fine
  <2>2. Cardinality(Bad \cup Fine) = Cardinality(Bad) + Cardinality(Fine)
    BY <1>5, <1>6, <2>1, DisjointUnion
  <2> QED BY <1>2, <2>1, <2>2
<1>8. Cardinality(adv) = Cardinality(Bad)
  <2> DEFINE f == [i \in Bad |-> run_all[i]]
  <2>1. \A i, j \in Bad : run_all[i] = run_all[j] => i = j
    BY <1>1, RunAll
  <2>2. f \in [Bad -> adv] /\ \A i \in Bad : f[i] = run_all[i]
    OBVIOUS
  <2>3. \A a \in adv : \E i \in Bad : run_all[i] = a
    OBVIOUS
  <2> HIDE DEF f, Bad, adv
  <2>4. f \in Bijection(Bad, adv)
    BY <2>1, <2>2, <2>3 DEF Bijection, Injection, Surjection, IsInjective
  <2>5. ExistsBijection(Bad, adv)
    BY <2>4 DEF ExistsBijection
  <2> QED BY <1>5, <2>5, FS_Bijection
<1> HIDE DEF At, Bad, Fine
<1>9. Cardinality(adv) = count("FAIL") + count("WARN")
  BY <1>3, <1>5, <1>8
<1>10. count("PASS") + count("WARN") + count("FAIL") + count("SKIP") = Len(run_all)
  BY <1>3, <1>5, <1>6, <1>7, RunAll
<1> QED BY <1>4, <1>9, <1>10 DEF Bad

(* The results that can be "FAIL" on a host that does not change, and why. *)
LEMMA Failures ==
  ASSUME PlatcheckInv, changes = 0, Len(results) = Len(run_all)
  PROVE  /\ exit_code_for = 0 <=> /\ host.kvm # "missing" /\ host.present # {} /\ host.cpu # "neither"
                                  /\ host.modules \cap {"kvm", "kvm_intel", "kvm_amd"} # {}
         /\ results[9] # "SKIP" => results[6] = "PASS"
         /\ results[5] # "SKIP" => results[4] = "PASS"
<1>0. host \in Host
  BY DEF PlatcheckInv, PlaceInv
<1>1. DOMAIN results = 1..10 /\ \A i \in 1..10 : results[i] = Exact(run_all[i])
  BY RunAll DEF PlatcheckInv, PlaceInv, ResultsExact
<1>2. results[2] = "FAIL" <=> host.cpu = "neither"
  <2>1. results[2] = check_cpu_virt
    BY <1>1, RunAll DEF Exact
  <2> QED BY <1>0, <2>1 DEF check_cpu_virt, cpuinfo_has_flags_line, cpu_has_flag, Host
<1>3. results[3] = "FAIL" <=> host.kvm = "missing"
  <2>1. results[3] = check_kvm_device
    BY <1>1, RunAll DEF Exact
  <2> QED BY <2>1 DEF check_kvm_device
<1>4. /\ results[4] = "FAIL" <=> host.modules \cap {"kvm", "kvm_intel", "kvm_amd"} = {}
      /\ results[4] \in {"PASS", "FAIL"}
  <2>1. results[4] = check_kvm_module
    BY <1>1, RunAll DEF Exact
  <2> QED BY <2>1 DEF check_kvm_module, Loaded
<1>5. results[5] # "FAIL" /\ (results[5] # "SKIP" => results[4] = "PASS")
  <2>1. results[4] = check_kvm_module /\ results[5] = check_nested_virt
    BY <1>1, RunAll DEF Exact
  <2>2. check_nested_virt # "FAIL"
    BY DEF check_nested_virt
  <2>3. check_nested_virt # "SKIP" => Loaded("kvm_intel") \/ Loaded("kvm_amd")
    <3> SUFFICES ASSUME ~Loaded("kvm_intel"), ~Loaded("kvm_amd") PROVE check_nested_virt = "SKIP"
      OBVIOUS
    <3>1. NestedReadable = {}
      BY DEF Loaded, NestedReadable
    <3> QED BY <3>1 DEF check_nested_virt
  <2> QED BY <2>1, <2>2, <2>3 DEF check_kvm_module
<1>6. results[6] = IF host.present # {} THEN "PASS" ELSE "FAIL"
  BY <1>1, RunAll DEF Exact
<1>7. results[9] # "FAIL" /\ (results[9] # "SKIP" => host.present # {})
  <2>1. results[9] = Isolated(Considered(host.present)) /\ Considered(host.present) \subseteq host.present
    BY <1>1, RunAll DEF Exact, Considered
  <2> QED BY <2>1 DEF Isolated
<1>8. results[1] # "FAIL" /\ results[7] # "FAIL" /\ results[8] # "FAIL" /\ results[10] # "FAIL"
  <2>1. /\ results[1] = check_kernel /\ results[7] = check_vfio_modules
        /\ results[8] = check_hugepages /\ results[10] = check_confidential_computing
    BY <1>1 DEF Exact, run_all
  <2> QED BY <2>1 DEF check_kernel, check_vfio_modules, check_hugepages, check_confidential_computing
<1>9. (\E i \in 1..10 : results[i] = "FAIL") <=> \E i \in {2, 3, 4, 6} : results[i] = "FAIL"
  <2>1. ASSUME NEW i \in 1..10, results[i] = "FAIL" PROVE i \in {2, 3, 4, 6}
    BY <1>5, <1>7, <1>8, <2>1
  <2> QED BY <2>1
<1>10. exit_code_for = 0 <=> ~\E i \in {2, 3, 4, 6} : results[i] = "FAIL"
  BY <1>1, <1>9 DEF exit_code_for
<1>11. exit_code_for = 0 <=> /\ results[2] # "FAIL" /\ results[3] # "FAIL" /\ results[4] # "FAIL"
                             /\ results[6] # "FAIL"
  BY <1>10
<1> QED BY <1>2, <1>3, <1>4, <1>5, <1>6, <1>7, <1>11

(* Exit status, "ok", the summary line and the advice agree with each      *)
(* other, and on a host that does not change with the host.                *)
THEOREM OutputIsTrustworthy == Spec => []Trustworthy
<1>1. PlatcheckInv => Trustworthy
  <2> SUFFICES ASSUME PlatcheckInv, printed # <<>> PROVE Trustworthy
    BY DEF Trustworthy
  <2>1. /\ Len(results) = Len(run_all) /\ results \in Seq(Statuses) /\ exit = exit_code_for
        /\ printed = IF opts.json THEN <<render_json>> ELSE <<render_text>>
    BY DEF PlatcheckInv, PrintInv, PlaceInv
  <2>2. ASSUME opts.json PROVE printed[1].ok <=> exit = 0
    BY <2>1, <2>2 DEF render_json
  <2>3. ASSUME ~opts.json
        PROVE  /\ printed[1].failed = 0 <=> exit = 0
               /\ Cardinality(printed[1].advice) = printed[1].failed + printed[1].warnings
               /\ printed[1].passed + printed[1].warnings + printed[1].failed + printed[1].skipped
                     = Len(run_all)
    <3>1. printed[1] = render_text
      BY <2>1, <2>3
    <3>2. /\ render_text.failed = count("FAIL") /\ render_text.warnings = count("WARN")
          /\ render_text.passed = count("PASS") /\ render_text.skipped = count("SKIP")
          /\ render_text.advice
               = {run_all[i] : i \in {j \in DOMAIN results : results[j] \in {"WARN", "FAIL"}}}
      BY DEF render_text
    <3> QED BY <2>1, <3>1, <3>2, Counted
  <2>4. \A i \in 1..10 : Result(run_all[i]) = results[i]
    BY <2>1, RunAll DEF Result
  <2>5. /\ Result("gpu_isolation") = results[9] /\ Result("iommu") = results[6]
        /\ Result("nested_virt") = results[5] /\ Result("kvm_module") = results[4]
    BY <2>4, RunAll
  <2> QED BY <2>1, <2>2, <2>3, <2>5, Failures DEF Trustworthy
<1> QED BY <1>1, PlatcheckInvariant, PTL
=============================================================================
