---------------------------- MODULE GuestConfig ----------------------------
(***************************************************************************)
(* The four configuration panels (vm-options, vm-hardware, lxc-options,    *)
(* lxc-resources) as tables: what each input starts from, what a save      *)
(* compares it with, and which inputs there are; and the DTOs of the BFF,  *)
(* whose ValidationPipe refuses a body with a field or a type it does not  *)
(* know.  A configuration is a function from its fields to a value, None   *)
(* where Proxmox leaves a field out.                                       *)
(***************************************************************************)
CONSTANT None

(* _startEdit: the draft's value of a field that is not configured. *)
VmOptionsDraft ==
  [name |-> "", onboot |-> "false", startup |-> "", ostype |-> "other", boot |-> "",
   tablet |-> "false", hotplug |-> "disk,network,usb", acpi |-> "true", kvm |-> "true",
   freeze |-> "false", localtime |-> "false", rtcbase |-> "now", smbios1 |-> "", agent |-> "0",
   protection |-> "false", spice_enhancements |-> "", vmstatestorage |-> "automatic"]
VmHardwareDraft ==
  [memory |-> None, balloon |-> None, cores |-> "1", sockets |-> "1", cpu |-> "host",
   bios |-> "seabios", machine |-> "", vga |-> "", scsihw |-> "virtio-scsi-pci"]
LxcOptionsDraft ==
  [hostname |-> "", onboot |-> "false", startup |-> "", ostype |-> "unmanaged", arch |-> "amd64",
   console |-> "true", tty |-> "2", cmode |-> "tty", protection |-> "false", features |-> ""]
LxcResourcesDraft ==
  [memory |-> None, swap |-> None, cores |-> "1", cpulimit |-> "0", cpuunits |-> "100"]

(* _saveEdit: what it compares the draft with where a field is not         *)
(* configured.                                                             *)
VmOptionsUnset ==   \* a mutant
  [VmOptionsDraft EXCEPT !.kvm = "false"]
VmOptionsSaved ==
  [name |-> "", onboot |-> "false", startup |-> "", ostype |-> "other", boot |-> "",
   tablet |-> "false", hotplug |-> "disk,network,usb", acpi |-> "true", kvm |-> "true",
   freeze |-> "false", localtime |-> "false", rtcbase |-> "now", smbios1 |-> "", agent |-> "0",
   protection |-> "false", spice_enhancements |-> "", vmstatestorage |-> "automatic"]
VmHardwareSaved ==
  [memory |-> None, balloon |-> None, cores |-> "1", sockets |-> "1", cpu |-> "host",
   bios |-> "seabios", machine |-> "", vga |-> "", scsihw |-> "virtio-scsi-pci"]
LxcOptionsSaved ==
  [hostname |-> "", onboot |-> "false", startup |-> "", ostype |-> "unmanaged", arch |-> "amd64",
   console |-> "true", tty |-> "2", cmode |-> "tty", protection |-> "false", features |-> ""]
LxcResourcesSaved ==
  [memory |-> None, swap |-> None, cores |-> "1", cpulimit |-> "0", cpuunits |-> "100"]

(* render: the inputs of a panel, by what they put into the draft. *)
VmOptionsBooleans == {"onboot", "tablet", "acpi", "kvm", "freeze", "localtime", "protection"}
VmOptionsTexts == {"startup", "boot", "hotplug", "rtcbase", "smbios1", "spice_enhancements", "vmstatestorage"}
VmOptionsInputs == [string |-> {"name", "ostype", "agent"} \cup VmOptionsTexts,
                    boolean |-> VmOptionsBooleans, number |-> {}]

VmHardwareNumbers == {"memory", "balloon", "sockets", "cores"}
VmHardwareTexts == {"cpu", "bios", "vga", "machine", "scsihw"}
VmHardwareInputs == [string |-> VmHardwareTexts, boolean |-> {}, number |-> VmHardwareNumbers]

LxcOptionsBooleans == {"onboot", "console", "protection"}
LxcOptionsTexts == {"startup", "features"}
LxcOptionsInputs == [string |-> {"hostname", "ostype", "arch", "cmode"} \cup LxcOptionsTexts,
                     boolean |-> LxcOptionsBooleans, number |-> {"tty"}]

LxcResourcesInputs == [string |-> {}, boolean |-> {},
                       number |-> {"memory", "swap", "cores", "cpulimit", "cpuunits"}]

(* QemuConfigUpdateDto and LxcConfigUpdateDto. *)
QemuDto == [string |-> {"name", "description", "tags", "startup", "ostype", "boot", "hotplug",
                        "rtcbase", "smbios1", "agent", "spice_enhancements", "vmstatestorage",
                        "cpu", "bios", "machine", "vga", "scsihw"},
            boolean |-> {"onboot", "tablet", "acpi", "kvm", "freeze", "localtime", "protection", "numa"},
            number |-> {"memory", "balloon", "cores", "sockets", "vcpus"}]
LxcDto == [string |-> {"hostname", "description", "tags", "startup", "ostype", "arch", "cmode", "features"},
           boolean |-> {"onboot", "console", "protection"},
           number |-> {"tty", "memory", "swap", "cores", "cpulimit", "cpuunits"}]

-----------------------------------------------------------------------------
Starting == [vm_options |-> VmOptionsDraft, vm_hardware |-> VmHardwareDraft,
             lxc_options |-> LxcOptionsDraft, lxc_resources |-> LxcResourcesDraft]
Comparing == [vm_options |-> VmOptionsSaved, vm_hardware |-> VmHardwareSaved,
              lxc_options |-> LxcOptionsSaved, lxc_resources |-> LxcResourcesSaved]
Inputs == [vm_options |-> VmOptionsInputs, vm_hardware |-> VmHardwareInputs,
           lxc_options |-> LxcOptionsInputs, lxc_resources |-> LxcResourcesInputs]
Dto == [vm_options |-> QemuDto, vm_hardware |-> QemuDto, lxc_options |-> LxcDto, lxc_resources |-> LxcDto]

Panel == DOMAIN Starting
Type == {"string", "boolean", "number"}
Field(p) == UNION {Inputs[p][t] : t \in Type}
Or(value, default) == IF value = None THEN default ELSE value

(* The draft that p makes of configuration c, and what a save of draft d   *)
(* sends while c is the configuration of the panel.                        *)
Draft(p, c) == [f \in DOMAIN c \cap DOMAIN Starting[p] |-> Or(c[f], Starting[p][f])]

Differs(p, c, d, f) == d[f] # None /\ d[f] # Or(c[f], Comparing[p][f])
Whole(p, c, d) ==   \* a mutant
  [f \in {g \in DOMAIN d : d[g] # None} |-> d[f]]
Changed(p, c, d) == [f \in {g \in DOMAIN d \cap DOMAIN Comparing[p] : Differs(p, c, d, g)} |-> d[f]]

(* The pipe in front of updateQemuConfig and updateLxcConfig. *)
Accepts(p, sent) == \A f \in DOMAIN sent : \A t \in Type : f \in Inputs[p][t] => f \in Dto[p][t]
=============================================================================
