--------------------------- MODULE MCFingerprint ---------------------------
(* An instance of Fingerprint for TLC: the documented ways to enrol and to  *)
(* verify a device, on machines with and without a GPU, DMI serials and a   *)
(* device tree, with an NVMe disk and an eMMC beside it.                    *)
EXTENDS Fingerprint

TwoNics == {"eth0", "enP7s7"}
TwoDisks == <<"nvme0n1", "mmcblk0">>

Part == [board |-> 0, vendor |-> 1, dt |-> 0, gpu |-> 1,
         mac |-> [n \in TwoNics |-> 1],
         disk |-> [d \in {"nvme0n1", "mmcblk0"} |->
                     IF d = "nvme0n1" THEN [node |-> TRUE, serial |-> 1]
                     ELSE [node |-> FALSE, serial |-> 5]]]
ArmBoard == [Part EXCEPT !.dt = 1]
Server == [Part EXCEPT !.board = 1, !.disk["nvme0n1"].node = FALSE,
                       !.disk["mmcblk0"] = [node |-> TRUE, serial |-> 0]]
Blank == [Part EXCEPT !.vendor = 0, !.mac = [n \in TwoNics |-> 0],
                      !.disk["nvme0n1"] = [node |-> FALSE, serial |-> 0]]
AllMachines == {ArmBoard, Server, Blank}

Bare == [container |-> Unset, nic |-> Unset, disk |-> Unset, smi |-> Unset,
         requireGpu |-> Unset, paths |-> Unset, proc |-> Unset]
NoFlags == [container |-> Unset, nic |-> Unset, disk |-> Unset, smi |-> Unset,
            requireGpu |-> Unset, paths |-> Unset]

(* ecosystem.config.js and docker-compose.yml, and the same without the     *)
(* pinned disk and the required GPU.                                        *)
Pm2(pinned) == [Bare EXCEPT !.nic = "enP7s7",
                            !.disk = IF pinned THEN "nvme0n1" ELSE Unset,
                            !.requireGpu = IF pinned THEN "1" ELSE Unset]
Compose(pinned) == [Pm2(pinned) EXCEPT !.container = "1", !.proc = "mounts",
                                       !.smi = "nvidia-smi"]
ComposeApp(pinned) == [Compose(pinned) EXCEPT !.paths = "mounts"]

FlagsOf(pinned) == [NoFlags EXCEPT !.nic = "enP7s7",
                                   !.disk = IF pinned THEN "nvme0n1" ELSE Unset,
                                   !.requireGpu = IF pinned THEN TRUE ELSE Unset]

At(tool, place, root, env, flags) ==
  [tool |-> tool, place |-> place, asRoot |-> root, env |-> env, flags |-> flags]

(* hwinfo on the host, in a container with mounted paths, and sign -local.  *)
OnHost(pinned) == At("hwinfo", "host", TRUE, Bare, FlagsOf(pinned))
Otherwise(pinned) ==
  {At("hwinfo", "container", TRUE, Bare, [FlagsOf(pinned) EXCEPT !.paths = "mounts"]),
   At("sign", "host", TRUE, Bare, FlagsOf(pinned))}

Apps(pinned) == {At("app", "host", r, Pm2(pinned), NoFlags) : r \in BOOLEAN}
InContainers(pinned) ==
  {At("app", "container", TRUE, ComposeApp(pinned), NoFlags),
   At("verifier", "container", TRUE, Compose(pinned), NoFlags)}
ByHand(pinned) ==
  At("verifier", "host", TRUE, ComposeApp(pinned), [FlagsOf(pinned) EXCEPT !.container = "no"])

AllDeployments ==
  [enrol : {OnHost(TRUE)}, verify : Apps(TRUE) \union InContainers(TRUE) \union {ByHand(TRUE)}]
  \union [enrol : Otherwise(TRUE), verify : {At("app", "container", TRUE, ComposeApp(TRUE), NoFlags)}]
  \union [enrol : {OnHost(FALSE)}, verify : {s \in Apps(FALSE) : s.asRoot}]

ASSUME AllAreDocumented == \A d \in AllDeployments : Documented(d)
=============================================================================
