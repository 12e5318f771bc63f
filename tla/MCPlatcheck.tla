---------------------------- MODULE MCPlatcheck -----------------------------
(* A good host with every arrangement of three PCI functions in two IOMMU  *)
(* groups, of a card and of a second one, whose audio function may be all  *)
(* there is of it, and hosts that lack one thing or two.                   *)
EXTENDS Platcheck

SomeDevices == {"d1", "d2", "d3"}
SomeKinds == {"gpu", "gpu audio", "bridge", "other"}

Good ==
  [release |-> TRUE, cpu |-> "vmx", kvm |-> "rw",
   modules |-> {"kvm", "kvm_intel", "vfio", "vfio_pci", "vfio_iommu_type1"}, nested |-> [m \in {"kvm_intel", "kvm_amd"} |-> "on"],
   hugepages |-> "some", tee |-> {}, present |-> {"d1", "d2"},
   kind |-> [d \in SomeDevices |-> IF d = "d1" THEN "gpu" ELSE "bridge"], group |-> [d \in SomeDevices |-> 1],
   card |-> [d \in SomeDevices |-> IF d = "d3" THEN 2 ELSE 1]]

Boards ==
  {[Good EXCEPT !.kind = k, !.group = g, !.present = p, !.card["d2"] = c] :
     k \in {f \in [SomeDevices -> SomeKinds] : f["d1"] = "gpu"},
     g \in {f \in [SomeDevices -> 1..2] : f["d1"] = 1},
     p \in {SomeDevices, {"d1", "d2"}}, c \in 1..2}

Flawed ==
  {[Good EXCEPT !.cpu = c, !.kvm = k] :
     c \in {"unreadable", "no flags", "vmx", "svm", "neither"}, k \in {"missing", "no access", "rw"}} \cup
  {[Good EXCEPT !.modules = m, !.nested = n] :
     m \in {{}, {"kvm"}, {"kvm", "kvm_amd"}, {"kvm", "kvm_intel", "kvm_amd"}},
     n \in [{"kvm_intel", "kvm_amd"} -> {"unreadable", "off", "on"}]} \cup
  {[Good EXCEPT !.hugepages = h, !.tee = t] :
     h \in {"unreported", "none", "some"}, t \in {{}, {"kvm_amd"}, {"/dev/sev"}}} \cup
  {[Good EXCEPT !.release = FALSE], [Good EXCEPT !.present = {}]}

SomeHosts == Boards \cup Flawed
=============================================================================
