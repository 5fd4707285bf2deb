---------------------------- MODULE Fingerprint -----------------------------
(***************************************************************************)
(* The hardware fingerprint (internal/license/fingerprint.go and its twin  *)
(* verifier-node/src/fingerprint.ts): how hwinfo, issuer sign -local, the  *)
(* verifier and the application resolve their configuration, and how they  *)
(* collect the sources one after the other from a machine that goes on     *)
(* changing.                                                               *)
(*                                                                         *)
(* A machine part is a number that grows when the part is replaced; 0 is   *)
(* what addIfNonEmpty leaves out: an absent, blank or unreadable node, or  *)
(* a placeholder such as "N/A".  Sources of a kind that behave alike share *)
(* a key: board for the DMI nodes only root may read; vendor for those all *)
(* may read, and for the root UUID of the kernel's command line; dt for    *)
(* both device-tree nodes; disk for serial and wwid.  A fingerprint is the *)
(* function it is the hash of.                                             *)
(***************************************************************************)
EXTENDS Naturals, Sequences, FiniteSets

CONSTANTS
  Nics,        \* names of network interfaces
  DiskOrder,   \* names of disks, in the order they are tried: nvme, then mmc
  Machines,    \* machines as they may be at first
  Deployments, \* where and how a device is enrolled and verified
  Unset,       \* an environment variable that is not set, a flag not given
  MaxChanges   \* bound: how often the machine changes

Disks == {DiskOrder[i] : i \in DOMAIN DiskOrder}
Keys == {"board", "vendor", "dt", "mac", "disk", "gpu"}
Verdicts == {"ok", "fingerprint_mismatch", "hardware_unavailable"}
Empty == ""

(* serial 0 with node TRUE: the node is there and cannot be used.          *)
Machine ==
  [board : Nat, vendor : Nat, dt : Nat, gpu : Nat,
   mac : [Nics -> Nat], disk : [Disks -> [node : BOOLEAN, serial : Nat]]]

(* HW_CONTAINER, HW_NIC, HW_DISK, HW_NVIDIA_SMI and HW_REQUIRE_GPU; paths  *)
(* stands for HW_DMI, HW_NET, HW_BLOCK and the others; proc for            *)
(* HW_NVIDIA_PROC.  "host" are the kernel's own trees, "mounts" their bind *)
(* mounts under /host.                                                     *)
Env ==
  [container : {Unset, "1"}, nic : Nics \union {Unset, Empty},
   disk : Disks \union {Unset, Empty}, smi : {Unset, Empty, "nvidia-smi"},
   requireGpu : {Unset, Empty, "0", "1", "true", "yes"},
   paths : {Unset, "host", "mounts"}, proc : {Unset, "host", "mounts"}]

Flags ==
  [container : {Unset, "yes", "no"}, nic : Nics \union {Unset, Empty},
   disk : Disks \union {Unset, Empty}, smi : {Unset, Empty, "nvidia-smi"},
   requireGpu : {Unset} \union BOOLEAN, paths : {Unset, "host", "mounts"}]

(* A tool, where it runs, as whom and with what.                           *)
Station ==
  [tool : {"hwinfo", "sign", "verifier", "app"}, place : {"host", "container"},
   asRoot : BOOLEAN, env : Env, flags : Flags]

(* A serial belongs to one disk: the numbers of two disks are so far apart *)
(* that no replacement the bound allows turns one into the other's.        *)
FarApart(a, b, n) == a = 0 \/ b = 0 \/ a > b + n \/ b > a + n

ASSUME FingerprintAssumption ==
  /\ Machines \subseteq Machine
  /\ Deployments \subseteq [enrol : Station, verify : Station]
  /\ MaxChanges \in Nat
  /\ "eth0" \in Nics
  /\ DiskOrder \in Seq(Disks)
  /\ Unset \notin {"0", "1", "true", "yes", "host", "mounts"} \union Verdicts
  /\ \A m \in Machines : \A d, e \in Disks :
       d # e => FarApart(m.disk[d].serial, m.disk[e].serial, MaxChanges)

Config ==
  [layout : {"host", "mounts"}, nic : Nics \union {Empty},
   disk : Disks \union {Empty}, smi : BOOLEAN, proc : {"host", "mounts"},
   requireGpu : BOOLEAN]

-----------------------------------------------------------------------------
(* Configuration.  firstEnv and envOr take an empty value for none;        *)
(* JavaScript's ?? does not.                                               *)
FirstSet(value, default) == IF value \in {Unset, Empty} THEN default ELSE value
Coalesce(value, default) == IF value = Unset THEN default ELSE value

Layout(inContainer) == IF inContainer THEN "mounts" ELSE "host"

BugOverridesOnBareMetal(e, container) ==
  LET inContainer == IF container = Unset THEN e.container = "1" ELSE container = "yes"
  IN  [layout |-> FirstSet(e.paths, Layout(inContainer)),
       nic |-> FirstSet(e.nic, "eth0"), disk |-> FirstSet(e.disk, Empty), smi |-> TRUE,
       proc |-> FirstSet(e.proc, Layout(inContainer)),
       requireGpu |-> e.requireGpu \in {"1", "true", "yes"}]

(* FingerprintConfigFromEnv: path overrides count in containers only.      *)
FingerprintConfigFromEnv(e, container) ==
  LET inContainer == IF container = Unset THEN e.container = "1" ELSE container = "yes"
  IN  [layout |-> IF inContainer THEN FirstSet(e.paths, "mounts") ELSE "host",
       nic |-> FirstSet(e.nic, "eth0"), disk |-> FirstSet(e.disk, Empty), smi |-> TRUE,
       proc |-> FirstSet(e.proc, Layout(inContainer)),
       requireGpu |-> e.requireGpu \in {"1", "true", "yes"}]

ApplyFingerprintFlags(cfg, f) ==
  [cfg EXCEPT !.layout = FirstSet(f.paths, @), !.nic = FirstSet(f.nic, @),
              !.disk = FirstSet(f.disk, @), !.requireGpu = Coalesce(f.requireGpu, @)]

(* hwinfo knows neither HW_CONTAINER nor HW_REQUIRE_GPU nor HW_NVIDIA_PROC,*)
(* and honours path overrides anywhere.                                    *)
HwinfoConfig(e, f) ==
  [layout |-> Coalesce(f.paths, FirstSet(e.paths, "host")),
   nic |-> Coalesce(f.nic, FirstSet(e.nic, "eth0")),
   disk |-> Coalesce(f.disk, FirstSet(e.disk, Empty)),
   smi |-> f.smi # Empty, proc |-> "host",
   requireGpu |-> Coalesce(f.requireGpu, FALSE)]

BugLibraryDecidesGpu(e) ==
  LET inContainer == e.container = "1"
  IN  [layout |-> IF inContainer THEN FirstSet(e.paths, "mounts") ELSE "host",
       nic |-> Coalesce(e.nic, "eth0"), disk |-> Coalesce(e.disk, Empty),
       smi |-> e.smi # Empty, proc |-> Layout(inContainer),
       requireGpu |-> FALSE]

(* fingerprintConfigFromEnv of the twin under the overrides of             *)
(* instrumentation.ts, which for its part knows only "1" as true.          *)
AppConfig(e) ==
  LET inContainer == e.container = "1"
  IN  [layout |-> IF inContainer THEN FirstSet(e.paths, "mounts") ELSE "host",
       nic |-> Coalesce(e.nic, "eth0"), disk |-> Coalesce(e.disk, Empty),
       smi |-> e.smi # Empty, proc |-> Coalesce(e.proc, Layout(inContainer)),
       requireGpu |-> e.requireGpu = "1"]

(* sign has no -host: its -container forces the one answer only.           *)
ConfigOf(s) ==
  CASE s.tool = "hwinfo" -> HwinfoConfig(s.env, s.flags)
    [] s.tool = "app" -> AppConfig(s.env)
    [] OTHER -> ApplyFingerprintFlags(
                  FingerprintConfigFromEnv(s.env, s.flags.container), s.flags)

-----------------------------------------------------------------------------
VARIABLES
  machine,  \* the machine's parts
  smi,      \* nvidia-smi answers within its three seconds
  procNode, \* the driver's proc node of the GPU is there
  dtInProc, \* this kernel has /proc/device-tree
  deploy,   \* how this device is deployed
  pc,       \* where the collection is; "idle" between two
  who,      \* whose it is: "enrol" or "verify"
  sources,  \* what it has collected
  chosen,   \* the disk it has chosen, or Empty
  enrolled, \* the sources in the license, or Unset
  verdict,  \* of the last verification, or Unset
  changes,  \* how often the machine has changed
  causes,   \* history: what has happened since the enrolment began
  gone      \* history: enrolled parts replaced when the verification began

world == <<machine, smi, procNode, dtInProc, deploy>>
collection == <<pc, who, sources, chosen>>
vars == <<machine, smi, procNode, dtInProc, deploy, pc, who, sources, chosen,
          enrolled, verdict, changes, causes, gone>>

Nothing == [k \in Keys |-> 0]
CfgOf(w) == ConfigOf(deploy[w])

Init ==
  /\ machine \in Machines
  /\ smi \in BOOLEAN /\ procNode \in BOOLEAN /\ dtInProc \in BOOLEAN
  /\ deploy \in Deployments
  /\ pc = "idle" /\ who = "enrol" /\ sources = Nothing /\ chosen = Empty
  /\ enrolled = Unset /\ verdict = Unset /\ changes = 0
  /\ causes = {} /\ gone = {}

(* What a station sees: the kernel's trees on the host, the bind mounts in *)
(* a container, where Docker hides /proc/device-tree.                      *)
Sees(place, tree) == (place = "host") = (tree = "host")

DeviceTree(place, layout) ==
  IF \/ dtInProc /\ place = "host"
     \/ Sees(place, layout)
    THEN machine.dt ELSE 0

(* The first disk whose serial node can be statted - or the pinned one, or *)
(* none.                                                                   *)
ChooseBlockDevice(cfg) ==
  LET usable == {i \in DOMAIN DiskOrder : machine.disk[DiskOrder[i]].node}
  IN  IF cfg.disk # Empty
        THEN IF machine.disk[cfg.disk].node THEN cfg.disk ELSE Empty
      ELSE IF usable = {} THEN Empty
      ELSE DiskOrder[CHOOSE i \in usable : \A j \in usable : i <= j]

GpuFromSmi(cfg) == IF cfg.smi /\ smi THEN machine.gpu ELSE 0
GpuFromProc(place, cfg) == IF procNode /\ Sees(place, cfg.proc) THEN machine.gpu ELSE 0

(* What s would collect if the machine held still, without the GPU.        *)
StaticSources(s) ==
  LET cfg == ConfigOf(s)
      seen(part) == IF Sees(s.place, cfg.layout) THEN part ELSE 0
  IN  [k \in Keys |->
         CASE k = "board" -> IF s.asRoot THEN seen(machine.board) ELSE 0
           [] k = "vendor" -> seen(machine.vendor)
           [] k = "dt" -> DeviceTree(s.place, cfg.layout)
           [] k = "mac" -> IF cfg.nic = Empty THEN 0 ELSE seen(machine.mac[cfg.nic])
           [] OTHER -> 0]

SerialOf(disk) ==
  IF disk # Empty /\ machine.disk[disk].node THEN machine.disk[disk].serial ELSE 0

ChosenBy(s) ==
  LET cfg == ConfigOf(s)
  IN  IF Sees(s.place, cfg.layout) THEN ChooseBlockDevice(cfg) ELSE Empty

GpuOf(s) ==
  LET cfg == ConfigOf(s)
  IN  IF GpuFromSmi(cfg) # 0 THEN GpuFromSmi(cfg) ELSE GpuFromProc(s.place, cfg)

-----------------------------------------------------------------------------
(* A collection.  What takes a screwdriver to change is read in one step.  *)
(* gone: the enrolled parts that the machine no longer has when a          *)
(* verification begins.                                                    *)
Replaced(s) ==
  {k \in Keys \ {"disk", "mac"} : enrolled[k] # 0 /\ machine[k] # enrolled[k]}
  \union {k \in {"mac"} : /\ enrolled.mac # 0 /\ ConfigOf(s).nic # Empty
                          /\ machine.mac[ConfigOf(s).nic] # enrolled.mac}
  \union {k \in {"disk"} : /\ enrolled.disk # 0
                           /\ \A d \in Disks : machine.disk[d].serial # enrolled.disk}

Begin(w) ==
  /\ pc = "idle"
  /\ (w = "enrol") = (enrolled = Unset)
  /\ pc' = "choose" /\ who' = w
  /\ sources' = StaticSources(deploy[w])
  /\ verdict' = Unset
  /\ IF w = "enrol"
       THEN causes' = {} /\ gone' = {}
       ELSE gone' = Replaced(deploy[w]) /\ UNCHANGED causes
  /\ UNCHANGED <<world, chosen, enrolled, changes>>

ChooseDisk ==
  /\ pc = "choose"
  /\ chosen' = ChosenBy(deploy[who])
  /\ pc' = "disk"
  /\ UNCHANGED <<world, who, sources, enrolled, verdict, changes, causes, gone>>

ReadDisk ==
  /\ pc = "disk"
  /\ sources' = [sources EXCEPT !.disk = SerialOf(chosen)]
  /\ chosen' = Empty
  /\ pc' = "smi"
  /\ UNCHANGED <<world, who, enrolled, verdict, changes, causes, gone>>

BugToleratesMissing(all) ==
  /\ IF who = "enrol"
       THEN enrolled' = all /\ UNCHANGED verdict
       ELSE /\ verdict' = IF \A k \in Keys : all[k] \in {0, enrolled[k]}
                           THEN "ok" ELSE "fingerprint_mismatch"
            /\ UNCHANGED enrolled
  /\ pc' = "idle" /\ sources' = Nothing

(* The collection ends: the sources become a license, or are compared with *)
(* the license's.                                                          *)
Conclude(all) ==
  /\ IF who = "enrol"
       THEN enrolled' = all /\ UNCHANGED verdict
       ELSE /\ verdict' = IF all = enrolled THEN "ok" ELSE "fingerprint_mismatch"
            /\ UNCHANGED enrolled
  /\ pc' = "idle" /\ sources' = Nothing

CannotTell ==
  /\ pc' = "idle" /\ sources' = Nothing
  /\ verdict' = IF who = "verify" THEN "hardware_unavailable" ELSE verdict
  /\ UNCHANGED enrolled

AskSmi ==
  /\ pc = "smi"
  /\ LET gpu == GpuFromSmi(CfgOf(who))
     IN  IF gpu # 0
           THEN Conclude([sources EXCEPT !.gpu = gpu])
           ELSE pc' = "proc" /\ UNCHANGED <<sources, enrolled, verdict>>
  /\ UNCHANGED <<world, who, chosen, changes, causes, gone>>

BugGpuIsOptional ==
  /\ pc = "proc"
  /\ LET gpu == GpuFromProc(deploy[who].place, CfgOf(who))
         all == [sources EXCEPT !.gpu = gpu]
     IN  /\ IF all = Nothing THEN CannotTell ELSE Conclude(all)
         /\ causes' = IF gpu = 0 /\ machine.gpu # 0 THEN causes \union {"late"} ELSE causes
  /\ UNCHANGED <<world, who, chosen, changes, gone>>

BugNoSourceIsFine ==
  /\ pc = "proc"
  /\ LET gpu == GpuFromProc(deploy[who].place, CfgOf(who))
         all == [sources EXCEPT !.gpu = gpu]
     IN  /\ IF gpu = 0 /\ CfgOf(who).requireGpu THEN CannotTell ELSE Conclude(all)
         /\ causes' = IF gpu = 0 /\ machine.gpu # 0 THEN causes \union {"late"} ELSE causes
  /\ UNCHANGED <<world, who, chosen, changes, gone>>

(* The fallback.  A GPU that cannot be read is left out without a word,    *)
(* unless it is required.                                                  *)
AskProc ==
  /\ pc = "proc"
  /\ LET gpu == GpuFromProc(deploy[who].place, CfgOf(who))
         all == [sources EXCEPT !.gpu = gpu]
     IN  /\ IF (gpu = 0 /\ CfgOf(who).requireGpu) \/ all = Nothing
              THEN CannotTell
              ELSE Conclude(all)
         /\ causes' = IF gpu = 0 /\ machine.gpu # 0 THEN causes \union {"late"} ELSE causes
  /\ UNCHANGED <<world, who, chosen, changes, gone>>

-----------------------------------------------------------------------------
(* The machine goes on: parts are replaced, disks come and go, nvidia-smi  *)
(* is slow, the driver is loaded late.                                     *)
Change(what) ==
  /\ changes < MaxChanges /\ changes' = changes + 1
  /\ causes' = causes \union {what}
  /\ UNCHANGED <<procNode, smi, dtInProc, deploy, collection, enrolled, verdict, gone>>

ReplacePart ==
  \/ \E k \in {"board", "vendor", "dt", "gpu"} :
       /\ machine[k] # 0
       /\ machine' = [machine EXCEPT ![k] = @ + 1]
       /\ Change(k)
  \/ \E n \in Nics :
       /\ machine.mac[n] # 0
       /\ machine' = [machine EXCEPT !.mac[n] = @ + 1]
       /\ Change(n)
  \/ \E d \in Disks :
       /\ machine.disk[d].serial # 0
       /\ machine' = [machine EXCEPT !.disk[d].serial = @ + 1]
       /\ Change(d)

PlugDisk ==
  \E d \in Disks :
    /\ machine' = [machine EXCEPT !.disk[d].node = ~@]
    /\ Change(d)

GpuComesAndGoes ==
  /\ \/ smi' = ~smi /\ UNCHANGED procNode
     \/ procNode' = ~procNode /\ UNCHANGED smi
  /\ UNCHANGED <<machine, dtInProc, deploy, collection, enrolled, verdict, changes, causes, gone>>

Next ==
  \/ \E w \in {"enrol", "verify"} : Begin(w)
  \/ ChooseDisk
  \/ ReadDisk
  \/ AskSmi
  \/ AskProc
  \/ ReplacePart
  \/ PlugDisk
  \/ GpuComesAndGoes

Spec == Init /\ [][Next]_vars
-----------------------------------------------------------------------------
(* The types; nothing is enrolled without a source.                        *)
Sources == [Keys -> Nat]
TypeOK ==
  /\ machine \in Machine
  /\ smi \in BOOLEAN /\ procNode \in BOOLEAN /\ dtInProc \in BOOLEAN
  /\ deploy \in Deployments
  /\ pc \in {"idle", "choose", "disk", "smi", "proc"}
  /\ who \in {"enrol", "verify"}
  /\ sources \in Sources
  /\ chosen \in Disks \union {Empty}
  /\ enrolled \in (Sources \ {Nothing}) \union {Unset}
  /\ verdict \in Verdicts \union {Unset}
  /\ changes \in 0..MaxChanges
  /\ causes \subseteq Keys \union Nics \union Disks \union {"late"}
  /\ gone \subseteq Keys
  /\ \A w \in {"enrol", "verify"} : CfgOf(w) \in Config

(* What the documents ask of an operator: at both ends the same interface  *)
(* and the same disk, or none named at either, and every tool told where   *)
(* it runs (README.md:90, 145, 372-374).                                   *)
NamedNic(s) ==
  IF s.tool = "app" \/ s.flags.nic = Unset THEN s.env.nic ELSE s.flags.nic
NamedDisk(s) ==
  IF s.tool = "app" \/ s.flags.disk = Unset THEN s.env.disk ELSE s.flags.disk

ToldByPaths(s) ==
  LET named == IF s.flags.paths = Unset THEN s.env.paths ELSE s.flags.paths
  IN  IF s.place = "host" THEN named \in {Unset, "host"} ELSE named = "mounts"

ToldByContainer(s) ==
  LET said == IF s.tool = "app" \/ s.flags.container = Unset
                THEN s.env.container = "1" ELSE s.flags.container = "yes"
  IN  /\ said = (s.place = "container")
      /\ said => s.env.paths \in {Unset, "mounts"}
      /\ s.tool # "app" => s.flags.paths = Unset

Told(s) == IF s.tool = "hwinfo" THEN ToldByPaths(s) ELSE ToldByContainer(s)

Documented(d) ==
  /\ Told(d.enrol) /\ Told(d.verify)
  /\ NamedNic(d.enrol) = NamedNic(d.verify) /\ NamedNic(d.enrol) # Empty
  /\ NamedDisk(d.enrol) = NamedDisk(d.verify) /\ NamedDisk(d.enrol) # Empty

(* The changes that may move the fingerprint a station computes: of the    *)
(* parts it reads, the interface it names, the disk it pins (any disk if   *)
(* it pins none), and of the GPU's answers if it does not insist.          *)
Matters(s) ==
  {"vendor", "dt", "gpu"}
  \union {k \in {"board"} : s.asRoot}
  \union ({ConfigOf(s).nic} \intersect Nics)
  \union (IF ConfigOf(s).disk # Empty THEN {ConfigOf(s).disk} ELSE Disks)
  \union {k \in {"late"} : ~ConfigOf(s).requireGpu}

(* A device that is enrolled and verified as the documents ask answers     *)
(* fingerprint_mismatch only after something it is bound to has changed    *)
(* since.  A slow nvidia-smi, a driver loaded late, other disks that       *)
(* come and go, other network cards: none of them costs a device with a    *)
(* pinned disk and a required GPU its license (fingerprint.go:250-314,     *)
(* 379-412, 468-496).                                                      *)
MismatchHasACause ==
  Documented(deploy) /\ verdict = "fingerprint_mismatch" =>
    \/ causes \intersect (Matters(deploy.enrol) \union Matters(deploy.verify)) # {}
    \/ deploy.enrol.asRoot # deploy.verify.asRoot

(* ok is not answered for a machine that had lost an enrolled part when    *)
(* the verification began, whatever changed while it ran                   *)
(* (fingerprint.go:250-314, verify.go:87-93).                              *)
OkMeansSameParts == verdict = "ok" => gone = {}

(* Where the documents send an operator, what hwinfo or sign -local sees   *)
(* is what the verifier and the application see, on any machine at any     *)
(* time: bare metal or container, device tree in /proc or not, GPU through *)
(* nvidia-smi or the driver.  Only the GPU may be out of sight for one of  *)
(* them (README.md:125, docker-compose.yml:1-4).                           *)
ToolsAgree ==
  Documented(deploy) /\ deploy.enrol.asRoot = deploy.verify.asRoot =>
    /\ StaticSources(deploy.enrol) = StaticSources(deploy.verify)
    /\ ChosenBy(deploy.enrol) = ChosenBy(deploy.verify)
    /\ \/ GpuOf(deploy.enrol) = GpuOf(deploy.verify)
       \/ 0 \in {GpuOf(deploy.enrol), GpuOf(deploy.verify)}

(* The environments an operator may be expected to write: nothing empty,   *)
(* and HW_REQUIRE_GPU a digit.                                             *)
Plain(e) ==
  /\ Empty \notin {e.nic, e.disk, e.smi}
  /\ e.requireGpu \in {Unset, "0", "1"}

(* "Resolve the fingerprint layout the same way the Go CLI does"           *)
(* (fingerprint.ts:85): in every plain environment the application and the *)
(* Go verifier without flags have the same configuration.                  *)
TwinsAgree ==
  \A w \in {"enrol", "verify"} :
    \A c \in {Unset, "1"} :
      LET e == [deploy[w].env EXCEPT !.container = c]
      IN  Plain(e) => AppConfig(e) = FingerprintConfigFromEnv(e, Unset)
=============================================================================
