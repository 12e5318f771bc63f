------------------------------ MODULE Platcheck ------------------------------
(***************************************************************************)
(* platcheck (platcheck/src): ten checks, one after the other, of a host   *)
(* that goes on living meanwhile: a PCI device may be unplugged or a       *)
(* module loaded between two reads.  A file is read in one step, a         *)
(* directory of IOMMU groups is not: the groups are listed, then each      *)
(* group's devices, then each device's files, and a device that is gone by *)
(* then reads as empty strings.                                            *)
(***************************************************************************)
EXTENDS Naturals, Sequences, FiniteSets

CONSTANTS
  Devices,    \* PCI functions
  Hosts,      \* the hosts tried
  MaxChanges  \* Bound: how often the host changes during a run

(* What can be told from the vendor and the class of a device; a display   *)
(* or an audio function is one that is not NVIDIA's.                       *)
Kinds == {"gpu", "gpu audio", "bridge", "display", "audio", "other"}

(* A host: what the files of /proc and /sys that are read as a whole say,  *)
(* the loaded modules, what each has to say about nested, the enabled SEV  *)
(* and TDX indicators, and the devices: kind, IOMMU group, the card they   *)
(* are a function of, and which are plugged.                               *)
Host ==
  [release : BOOLEAN, cpu : {"unreadable", "no flags", "vmx", "svm", "neither"},
   kvm : {"missing", "no access", "rw"},
   modules : SUBSET {"kvm", "kvm_intel", "kvm_amd", "vfio", "vfio_pci", "vfio_iommu_type1"},
   nested : [{"kvm_intel", "kvm_amd"} -> {"unreadable", "off", "on"}], tee : SUBSET {"kvm_intel", "kvm_amd", "/dev/sev"},
   hugepages : {"unreported", "none", "some"},
   present : SUBSET Devices, kind : [Devices -> Kinds], group : [Devices -> Nat],
   card : [Devices -> Nat]]

ASSUME PlatcheckAssumption == Hosts \subseteq Host /\ MaxChanges \in Nat

VARIABLES
  host,
  changes,  \* how often it has changed
  opts,     \* the command line
  pc,       \* "options", "check", "groups", "class", "print", "exited"
  results,  \* statuses of the checks made so far, in the order of run_all
  scan,     \* locals of read_iommu_groups
  printed,  \* what went to stdout
  exit

vars == <<host, changes, opts, pc, results, scan, printed, exit>>

run_all ==
  <<"kernel", "cpu_virt", "kvm_device", "kvm_module", "nested_virt", "iommu", "vfio", "hugepages",
    "gpu_isolation", "confidential_computing">>

Options == [kind : {"usage error", "help", "run"}, json : BOOLEAN]

(* groups and devs are still to be visited, in whatever order the          *)
(* directories list them; dev, group and vendor belong to the device that  *)
(* is being read.                                                          *)
NoScan == [groups |-> {}, devs |-> {}, group |-> 0, dev |-> "none", vendor |-> "", ids |-> {}, found |-> {}]

Init ==
  /\ host \in Hosts /\ changes = 0
  /\ opts \in Options
  /\ pc = "options" /\ results = <<>> /\ scan = NoScan /\ printed = <<>> /\ exit = 0

parse_options ==
  /\ pc = "options"
  /\ \/ opts.kind = "usage error" /\ pc' = "exited" /\ exit' = 2
     \/ opts.kind = "help" /\ pc' = "exited" /\ exit' = 0
     \/ opts.kind = "run" /\ pc' = "check" /\ UNCHANGED exit
  /\ UNCHANGED <<host, changes, opts, results, scan, printed>>

-----------------------------------------------------------------------------
(* The checks that read one thing at a time.                               *)

Loaded(m) == m \in host.modules

check_kernel == IF host.release THEN "PASS" ELSE "SKIP"

(* host.cpu is what the first "flags" line of /proc/cpuinfo holds. *)
cpuinfo_has_flags_line == host.cpu \notin {"unreadable", "no flags"}
cpu_has_flag(flag) == host.cpu = flag

check_cpu_virt ==
  CASE ~cpuinfo_has_flags_line                     -> "SKIP"
    [] \E f \in {"vmx", "svm"} : cpu_has_flag(f)   -> "PASS"
    [] OTHER                                       -> "FAIL"

check_kvm_device ==
  CASE host.kvm = "missing"   -> "FAIL"
    [] host.kvm = "no access" -> "WARN"
    [] OTHER                  -> "PASS"

check_kvm_module ==
  IF \E m \in {"kvm_intel", "kvm_amd", "kvm"} : Loaded(m) THEN "PASS" ELSE "FAIL"

NestedReadable == {m \in {"kvm_intel", "kvm_amd"} : Loaded(m) /\ host.nested[m] # "unreadable"}

(* The first vendor module whose parameter can be read decides. *)
check_nested_virt ==
  LET first == IF "kvm_intel" \in NestedReadable THEN "kvm_intel" ELSE "kvm_amd" IN
  IF NestedReadable = {} THEN "SKIP" ELSE IF host.nested[first] = "on" THEN "PASS" ELSE "WARN"

check_vfio_modules ==
  IF \A m \in {"vfio", "vfio_pci", "vfio_iommu_type1"} : Loaded(m) THEN "PASS" ELSE "WARN"

check_hugepages ==
  CASE host.hugepages = "unreported" -> "SKIP"
    [] host.hugepages = "none"       -> "WARN"
    [] OTHER                         -> "PASS"

(* A SEV or TDX parameter exists as long as its module is loaded. *)
check_confidential_computing ==
  IF \E i \in host.tee : i = "/dev/sev" \/ Loaded(i) THEN "PASS" ELSE "SKIP"

This == run_all[Len(results) + 1]

Verdict(status) ==
  /\ results' = Append(results, status)
  /\ scan' = NoScan
  /\ pc' = IF Len(results) + 1 = Len(run_all) THEN "print" ELSE "check"

check ==
  /\ pc = "check" /\ This \notin {"iommu", "gpu_isolation"}
  /\ Verdict(CASE This = "kernel"      -> check_kernel
               [] This = "cpu_virt"    -> check_cpu_virt
               [] This = "kvm_device"  -> check_kvm_device
               [] This = "kvm_module"  -> check_kvm_module
               [] This = "nested_virt" -> check_nested_virt
               [] This = "vfio"        -> check_vfio_modules
               [] This = "hugepages"   -> check_hugepages
               [] OTHER                -> check_confidential_computing)
  /\ UNCHANGED <<host, changes, opts, printed, exit>>

-----------------------------------------------------------------------------
(* The checks that walk the IOMMU groups.                                  *)

InGroup(g) == {d \in host.present : host.group[d] = g}

(* A group exists as long as it has a device. *)
list_groups ==
  /\ pc = "check" /\ This \in {"iommu", "gpu_isolation"}
  /\ scan' = [NoScan EXCEPT !.groups = {host.group[d] : d \in host.present}]
  /\ pc' = "groups"
  /\ UNCHANGED <<host, changes, opts, results, printed, exit>>

(* A group that is gone is kept, without devices. *)
list_devices ==
  /\ pc = "groups" /\ scan.devs = {}
  /\ \E g \in scan.groups :
       scan' = [scan EXCEPT !.groups = @ \ {g}, !.ids = @ \cup {g}, !.group = g, !.devs = InGroup(g)]
  /\ UNCHANGED <<host, changes, opts, pc, results, printed, exit>>

Vendor(d) == IF d \notin host.present THEN ""
             ELSE IF host.kind[d] \in {"gpu", "gpu audio"} THEN "nvidia" ELSE "other"

Class(d) == IF d \notin host.present THEN ""
            ELSE CASE host.kind[d] = "gpu"       -> "display"
                   [] host.kind[d] = "gpu audio" -> "audio"
                   [] OTHER                      -> host.kind[d]

read_vendor ==
  /\ pc = "groups"
  /\ \E d \in scan.devs :
       scan' = [scan EXCEPT !.devs = @ \ {d}, !.dev = d, !.vendor = Vendor(d)]
  /\ pc' = "class"
  /\ UNCHANGED <<host, changes, opts, results, printed, exit>>

read_class ==
  /\ pc = "class"
  /\ scan' = [scan EXCEPT !.dev = "none", !.vendor = "",
       !.found = @ \cup {[dev |-> scan.dev, group |-> scan.group, vendor |-> scan.vendor, cls |-> Class(scan.dev)]}]
  /\ pc' = "groups"
  /\ UNCHANGED <<host, changes, opts, results, printed, exit>>

is_gpu(d) == d.vendor = "nvidia" /\ d.cls = "display"

(* Mutant: what cannot be classified does not count. *)
others_classified(d) ==
  {o \in scan.found : /\ o.group = d.group /\ o.dev # d.dev
                      /\ o.cls \notin {"bridge", ""}
                      /\ ~(o.vendor = "nvidia" /\ o.cls = "audio")}

(* Who shares the group of a GPU: bridges and NVIDIA audio functions, the  *)
(* GPU's own or not, are fine.                                             *)
others(d) ==
  {o \in scan.found : /\ o.group = d.group /\ o.dev # d.dev
                      /\ o.cls # "bridge"
                      /\ ~(o.vendor = "nvidia" /\ o.cls = "audio")}

check_iommu == IF scan.ids # {} THEN "PASS" ELSE "FAIL"

(* The worst of its GPUs, none at all being the best. *)
check_gpu_isolation ==
  LET gpus == {d \in scan.found : is_gpu(d)} IN
  CASE gpus = {}                       -> "SKIP"
    [] \E d \in gpus : others(d) # {}  -> "WARN"
    [] OTHER                           -> "PASS"

read_iommu_groups ==
  /\ pc = "groups" /\ scan.groups = {} /\ scan.devs = {}
  /\ Verdict(IF This = "iommu" THEN check_iommu ELSE check_gpu_isolation)
  /\ UNCHANGED <<host, changes, opts, printed, exit>>

-----------------------------------------------------------------------------
(* The output.                                                             *)

count(status) == Cardinality({i \in DOMAIN results : results[i] = status})

(* Mutant: a check that was skipped hides the failures after it. *)
exit_code_for_prefix ==
  IF \E i \in DOMAIN results : results[i] = "FAIL" /\ \A j \in 1..i : results[j] # "SKIP" THEN 1 ELSE 0

exit_code_for == IF \E i \in DOMAIN results : results[i] = "FAIL" THEN 1 ELSE 0

(* Remediation is printed below a warning or a failure. *)
render_text ==
  [passed |-> count("PASS"), warnings |-> count("WARN"), failed |-> count("FAIL"), skipped |-> count("SKIP"),
   advice |-> {run_all[i] : i \in {j \in DOMAIN results : results[j] \in {"WARN", "FAIL"}}}]

render_json == [checks |-> results, ok |-> exit_code_for = 0]

(* The listing that --groups adds to the text reads the groups once more   *)
(* and is not modelled.                                                    *)
print ==
  /\ pc = "print"
  /\ printed' = IF opts.json THEN <<render_json>> ELSE <<render_text>>
  /\ pc' = "exited" /\ exit' = exit_code_for
  /\ UNCHANGED <<host, changes, opts, results, scan>>

-----------------------------------------------------------------------------
(* The host.                                                               *)

Change(h) ==
  /\ pc # "exited" /\ changes < MaxChanges
  /\ host' = h /\ changes' = changes + 1
  /\ UNCHANGED <<opts, pc, results, scan, printed, exit>>

Unplug == \E d \in host.present : Change([host EXCEPT !.present = @ \ {d}])

Plug == \E d \in Devices \ host.present : Change([host EXCEPT !.present = @ \cup {d}])

(* kvm_intel and kvm_amd use kvm. *)
Modprobe ==
  \/ \E m \in {"kvm_intel", "kvm_amd"} \ host.modules :
       Change([host EXCEPT !.modules = @ \cup {m, "kvm"}])
  \/ \E m \in {"kvm_intel", "kvm_amd"} \cap host.modules :
       Change([host EXCEPT !.modules = @ \ {m}])

Next ==
  \/ parse_options \/ check \/ list_groups \/ list_devices \/ read_vendor \/ read_class
  \/ read_iommu_groups \/ print
  \/ Unplug \/ Plug \/ Modprobe

Spec == Init /\ [][Next]_vars

-----------------------------------------------------------------------------
(* Properties.                                                             *)

Result(id) == LET i == CHOOSE i \in DOMAIN run_all : run_all[i] = id IN
              IF i \in DOMAIN results THEN results[i] ELSE "none"

(* What a GPU must not share its group with: anything but bridges and its  *)
(* own audio function.                                                     *)
Foreign(d, devs) ==
  {e \in devs : /\ e # d /\ host.group[e] = host.group[d]
                /\ host.kind[e] # "bridge"
                /\ ~(host.kind[e] = "gpu audio" /\ host.card[e] = host.card[d])}

(* Audio functions of NVIDIA cards whose GPU is not in their group.        *)
StrayAudio(devs) ==
  {e \in devs : /\ host.kind[e] = "gpu audio"
                /\ ~\E g \in devs : /\ host.kind[g] = "gpu" /\ host.group[g] = host.group[e]
                                     /\ host.card[g] = host.card[e]}

Considered(devs) == devs \ StrayAudio(devs)

Isolated(devs) ==
  LET gpus == {d \in devs : host.kind[d] = "gpu"} IN
  CASE gpus = {} -> "SKIP"
    [] \E d \in gpus : Foreign(d, devs) # {} -> "WARN"
    [] OTHER -> "PASS"

(* docs/TEST_PLAN.md:52 promises that a "GPU group holds only GPU + its    *)
(* audio fn + bridges", and the comment at checks.cpp:329 calls what is    *)
(* let through the "GPU's own HDA function"; the code lets every NVIDIA    *)
(* audio function through.  The promise is kept but for those whose own    *)
(* GPU is not in the group: they, and nothing else, are overlooked.        *)
(* platcheck calls a GPU isolated only if, apart from them, it was when    *)
(* its group was listed: a device that disappears while its group is read  *)
(* can cost a GPU its good verdict but never win it one, because what      *)
(* cannot be read counts as a foreign device.  On a host that does not     *)
(* change the verdict is exact for all other devices.                      *)
IsolationSound ==
  pc = "groups" /\ This = "gpu_isolation" /\ scan.groups = {} /\ scan.devs = {} =>
    LET listed == {d.dev : d \in scan.found}
        seen   == {d.dev : d \in {f \in scan.found : is_gpu(f)}}
    IN  /\ check_gpu_isolation = "PASS" =>
             seen # {} /\ \A d \in seen : host.kind[d] = "gpu" /\ Foreign(d, Considered(listed)) = {}
        /\ changes = 0 => check_gpu_isolation = Isolated(Considered(host.present))

(* What the user relies on: exit status, "ok" and the summary line say the *)
(* same, and on a host that did not change while it was looked at an exit  *)
(* status of 0 means that guests can be run and devices be isolated, and   *)
(* the checks do not contradict each other, though they read the same      *)
(* things at different times: a GPU in a group needs an IOMMU, a nested    *)
(* parameter a loaded module.  Every warning and failure comes with        *)
(* advice.                                                                 *)
Trustworthy ==
  /\ printed # <<>> =>
       IF opts.json THEN printed[1].ok <=> exit = 0
       ELSE /\ printed[1].failed = 0 <=> exit = 0
            /\ Cardinality(printed[1].advice) = printed[1].failed + printed[1].warnings
            /\ printed[1].passed + printed[1].warnings + printed[1].failed + printed[1].skipped = Len(run_all)
  /\ printed # <<>> /\ changes = 0 =>
       /\ exit = 0 <=> /\ host.kvm # "missing" /\ host.present # {} /\ host.cpu # "neither"
                       /\ host.modules \cap {"kvm", "kvm_intel", "kvm_amd"} # {}
       /\ Result("gpu_isolation") # "SKIP" => Result("iommu") = "PASS"
       /\ Result("nested_virt") # "SKIP" => Result("kvm_module") = "PASS"
=============================================================================
