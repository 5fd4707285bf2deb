------------------------- MODULE FingerprintProofs --------------------------
(***************************************************************************)
(* Proofs about Fingerprint, for every set of interfaces and disks, every  *)
(* machine and every deployment.                                           *)
(***************************************************************************)
EXTENDS Fingerprint, TLAPS, WellFoundedInduction

Tools == {"enrol", "verify"}

LEMMA MaxChangesIsNat == MaxChanges \in Nat
BY FingerprintAssumption

LEMMA StationsTyped ==
  ASSUME deploy \in Deployments, NEW w \in Tools
  PROVE  deploy[w] \in Station
BY FingerprintAssumption DEF Tools

(* Every tool resolves every environment and every set of flags to a       *)
(* configuration.                                                          *)
LEMMA ConfigTyped ==
  ASSUME NEW s \in Station PROVE ConfigOf(s) \in Config
<1> DEFINE e == s.env
           f == s.flags
<1>1. e \in Env /\ f \in Flags
  BY DEF Station
<1>2. "eth0" \in Nics
  BY FingerprintAssumption
<1> HIDE DEF e, f
<1>3. HwinfoConfig(e, f) \in Config
  <2>1. Coalesce(f.paths, FirstSet(e.paths, "host")) \in {"host", "mounts"}
    BY <1>1 DEF Env, Flags, Coalesce, FirstSet
  <2>2. Coalesce(f.nic, FirstSet(e.nic, "eth0")) \in Nics \union {Empty}
    BY <1>1, <1>2 DEF Env, Flags, Coalesce, FirstSet
  <2>3. Coalesce(f.disk, FirstSet(e.disk, Empty)) \in Disks \union {Empty}
    BY <1>1 DEF Env, Flags, Coalesce, FirstSet
  <2>4. Coalesce(f.requireGpu, FALSE) \in BOOLEAN
    BY <1>1 DEF Flags, Coalesce
  <2>5. (f.smi # Empty) \in BOOLEAN
    OBVIOUS
  <2> QED BY <2>1, <2>2, <2>3, <2>4, <2>5 DEF HwinfoConfig, Config
<1>4. AppConfig(e) \in Config
  <2> DEFINE inContainer == e.container = "1"
  <2>1. (IF inContainer THEN FirstSet(e.paths, "mounts") ELSE "host") \in {"host", "mounts"}
    BY <1>1 DEF Env, FirstSet
  <2>2. Coalesce(e.nic, "eth0") \in Nics \union {Empty}
    BY <1>1, <1>2 DEF Env, Coalesce
  <2>3. Coalesce(e.disk, Empty) \in Disks \union {Empty}
    BY <1>1 DEF Env, Coalesce
  <2>4. Coalesce(e.proc, Layout(inContainer)) \in {"host", "mounts"}
    BY <1>1 DEF Env, Coalesce, Layout
  <2>5. (e.smi # Empty) \in BOOLEAN /\ (e.requireGpu = "1") \in BOOLEAN
    OBVIOUS
  <2> QED BY <2>1, <2>2, <2>3, <2>4, <2>5 DEF AppConfig, Config
<1>5. ASSUME NEW c PROVE FingerprintConfigFromEnv(e, c) \in Config
  <2> DEFINE inContainer == IF c = Unset THEN e.container = "1" ELSE c = "yes"
  <2>1. (IF inContainer THEN FirstSet(e.paths, "mounts") ELSE "host") \in {"host", "mounts"}
    BY <1>1 DEF Env, FirstSet
  <2>2. FirstSet(e.nic, "eth0") \in Nics \union {Empty}
    BY <1>1, <1>2 DEF Env, FirstSet
  <2>3. FirstSet(e.disk, Empty) \in Disks \union {Empty}
    BY <1>1 DEF Env, FirstSet
  <2>4. FirstSet(e.proc, Layout(inContainer)) \in {"host", "mounts"}
    BY <1>1 DEF Env, FirstSet, Layout
  <2>5. (e.requireGpu \in {"1", "true", "yes"}) \in BOOLEAN
    OBVIOUS
  <2> QED BY <2>1, <2>2, <2>3, <2>4, <2>5 DEF FingerprintConfigFromEnv, Config
<1>6. ASSUME NEW cfg \in Config PROVE ApplyFingerprintFlags(cfg, f) \in Config
  <2>1. FirstSet(f.paths, cfg.layout) \in {"host", "mounts"}
    BY <1>1 DEF Flags, FirstSet, Config
  <2>2. FirstSet(f.nic, cfg.nic) \in Nics \union {Empty}
    BY <1>1 DEF Flags, FirstSet, Config
  <2>3. FirstSet(f.disk, cfg.disk) \in Disks \union {Empty}
    BY <1>1 DEF Flags, FirstSet, Config
  <2>4. Coalesce(f.requireGpu, cfg.requireGpu) \in BOOLEAN
    BY <1>1 DEF Flags, Coalesce, Config
  <2> QED BY <2>1, <2>2, <2>3, <2>4 DEF ApplyFingerprintFlags, Config
<1> QED BY <1>3, <1>4, <1>5, <1>6 DEF ConfigOf, e, f

LEMMA CfgTyped ==
  ASSUME deploy \in Deployments, NEW w \in Tools
  PROVE  CfgOf(w) \in Config
BY StationsTyped, ConfigTyped DEF CfgOf

(* Indices have a least one, so that a disk is chosen when one is usable.  *)
LEMMA LeastIndex ==
  ASSUME NEW T \in SUBSET Nat, T # {}
  PROVE  \E i \in T : \A j \in T : i <= j
<1>1. \E x \in T : \A y \in T : ~(<<y, x>> \in OpToRel(<, Nat))
  BY NatLessThanWellFounded, WFMin
<1>2. \A x, y \in Nat : y < x => <<y, x>> \in OpToRel(<, Nat)
  BY DEF OpToRel
<1>3. \A x, y \in Nat : ~(y < x) => x <= y
  OBVIOUS
<1> QED BY <1>1, <1>2, <1>3

LEMMA ChosenTyped ==
  ASSUME NEW cfg \in Config
  PROVE  ChooseBlockDevice(cfg) \in Disks \union {Empty}
<1> DEFINE usable == {i \in DOMAIN DiskOrder : machine.disk[DiskOrder[i]].node}
           first == CHOOSE i \in usable : \A j \in usable : i <= j
<1>1. DOMAIN DiskOrder \subseteq Nat
  BY FingerprintAssumption
<1>2. usable # {} => first \in usable
  <2>1. usable \in SUBSET Nat
    BY <1>1
  <2>2. usable # {} => \E i \in usable : \A j \in usable : i <= j
    BY <2>1, LeastIndex
  <2> QED BY <2>2
<1>3. usable # {} => DiskOrder[first] \in Disks
  BY <1>2 DEF Disks
<1>4. cfg.disk \in Disks \union {Empty}
  BY DEF Config
<1> QED BY <1>3, <1>4 DEF ChooseBlockDevice

LEMMA DiskTyped ==
  ASSUME machine \in Machine, NEW s \in Station
  PROVE  /\ ChosenBy(s) \in Disks \union {Empty}
         /\ \A d \in Disks \union {Empty} : SerialOf(d) \in Nat
<1>1. ChosenBy(s) \in Disks \union {Empty}
  BY ConfigTyped, ChosenTyped DEF ChosenBy
<1>2. \A d \in Disks \union {Empty} : SerialOf(d) \in Nat
  BY DEF SerialOf, Machine
<1> QED BY <1>1, <1>2

LEMMA StaticTyped ==
  ASSUME machine \in Machine, NEW s \in Station
  PROVE  StaticSources(s) \in Sources
<1> DEFINE cfg == ConfigOf(s)
<1>1. cfg \in Config
  BY ConfigTyped
<1>2. /\ machine.board \in Nat /\ machine.vendor \in Nat /\ machine.dt \in Nat
      /\ cfg.nic # Empty => machine.mac[cfg.nic] \in Nat
  BY <1>1 DEF Machine, Config
<1>3. DeviceTree(s.place, cfg.layout) \in Nat
  BY <1>2 DEF DeviceTree
<1> HIDE DEF cfg
<1> QED BY <1>2, <1>3 DEF StaticSources, Sources, cfg

LEMMA GpuTyped ==
  ASSUME machine \in Machine
  PROVE  /\ \A cfg : GpuFromSmi(cfg) \in {0, machine.gpu}
         /\ \A place, cfg : GpuFromProc(place, cfg) \in {0, machine.gpu}
         /\ machine.gpu \in Nat
BY DEF GpuFromSmi, GpuFromProc, Machine

-----------------------------------------------------------------------------
(* The types.                                                              *)
LEMMA TypeInit == Init => TypeOK
<1> SUFFICES ASSUME Init PROVE TypeOK
  OBVIOUS
<1>1. Nothing \in Sources
  BY DEF Nothing, Sources
<1>2. machine \in Machine /\ deploy \in Deployments
  BY FingerprintAssumption DEF Init
<1>3. \A w \in {"enrol", "verify"} : CfgOf(w) \in Config
  BY <1>2, CfgTyped DEF Tools
<1> QED BY <1>1, <1>2, <1>3, MaxChangesIsNat DEF Init, TypeOK

(* What a step that leaves the machine and the deployment alone keeps.     *)
LEMMA WorldTyped ==
  ASSUME TypeOK, UNCHANGED world
  PROVE  /\ machine' \in Machine
         /\ smi' \in BOOLEAN /\ procNode' \in BOOLEAN /\ dtInProc' \in BOOLEAN
         /\ deploy' \in Deployments
         /\ \A w \in {"enrol", "verify"} : CfgOf(w)' \in Config
<1>1. \A w \in {"enrol", "verify"} : CfgOf(w)' = CfgOf(w)
  BY DEF CfgOf, world
<1> QED BY <1>1 DEF TypeOK, world

LEMMA ConcludeTyped ==
  ASSUME TypeOK, NEW all \in Sources \ {Nothing}, Conclude(all)
  PROVE  /\ pc' = "idle" /\ sources' \in Sources
         /\ enrolled' \in (Sources \ {Nothing}) \union {Unset}
         /\ verdict' \in Verdicts \union {Unset}
<1>1. Nothing \in Sources
  BY DEF Nothing, Sources
<1> QED BY <1>1 DEF Conclude, TypeOK, Verdicts

LEMMA CannotTellTyped ==
  ASSUME TypeOK, CannotTell
  PROVE  /\ pc' = "idle" /\ sources' \in Sources
         /\ enrolled' \in (Sources \ {Nothing}) \union {Unset}
         /\ verdict' \in Verdicts \union {Unset}
<1>1. Nothing \in Sources
  BY DEF Nothing, Sources
<1> QED BY <1>1 DEF CannotTell, TypeOK, Verdicts

LEMMA ReplacedTyped ==
  ASSUME NEW s PROVE Replaced(s) \subseteq Keys
BY DEF Replaced, Keys

(* A part or a disk replaced, a disk plugged in or out.                    *)
LEMMA MachineTyped ==
  ASSUME TypeOK, ReplacePart \/ PlugDisk
  PROVE  /\ machine' \in Machine
         /\ \E what \in Keys \union Nics \union Disks : Change(what)
<1>1. CASE ReplacePart
  <2>1. ASSUME NEW k \in {"board", "vendor", "dt", "gpu"},
               machine' = [machine EXCEPT ![k] = @ + 1]
        PROVE  machine' \in Machine
    <3>1. machine[k] + 1 \in Nat
      BY <2>1 DEF TypeOK, Machine
    <3> QED BY <2>1, <3>1 DEF TypeOK, Machine
  <2>2. ASSUME NEW n \in Nics, machine' = [machine EXCEPT !.mac[n] = @ + 1]
        PROVE  machine' \in Machine
    <3>1. [machine.mac EXCEPT ![n] = @ + 1] \in [Nics -> Nat]
      BY DEF TypeOK, Machine
    <3> QED BY <2>2, <3>1 DEF TypeOK, Machine
  <2>3. ASSUME NEW d \in Disks, machine' = [machine EXCEPT !.disk[d].serial = @ + 1]
        PROVE  machine' \in Machine
    <3>1. [machine.disk EXCEPT ![d].serial = @ + 1]
            \in [Disks -> [node : BOOLEAN, serial : Nat]]
      BY DEF TypeOK, Machine
    <3> QED BY <2>3, <3>1 DEF TypeOK, Machine
  <2>4. {"board", "vendor", "dt", "gpu"} \subseteq Keys
    BY DEF Keys
  <2> QED BY <1>1, <2>1, <2>2, <2>3, <2>4 DEF ReplacePart
<1>2. CASE PlugDisk
  <2>1. PICK d \in Disks : /\ machine' = [machine EXCEPT !.disk[d].node = ~@]
                           /\ Change(d)
    BY <1>2 DEF PlugDisk
  <2>2. [machine.disk EXCEPT ![d].node = ~@] \in [Disks -> [node : BOOLEAN, serial : Nat]]
    BY DEF TypeOK, Machine
  <2>3. machine' \in Machine
    BY <2>1, <2>2 DEF TypeOK, Machine
  <2> QED BY <2>1, <2>3
<1> QED BY <1>1, <1>2

LEMMA TypeStep == TypeOK /\ [Next]_vars => TypeOK'
<1> SUFFICES ASSUME TypeOK, [Next]_vars PROVE TypeOK'
  OBVIOUS
<1> USE DEF collection
<1>0. deploy \in Deployments /\ machine \in Machine
  BY DEF TypeOK
<1>1. ASSUME NEW w \in {"enrol", "verify"}, Begin(w)
      PROVE  TypeOK'
  <2>1. StaticSources(deploy[w]) \in Sources
    BY <1>0, StationsTyped, StaticTyped DEF Tools
  <2>2. gone' \subseteq Keys /\ causes' \subseteq Keys \union Nics \union Disks \union {"late"}
    BY <1>1, ReplacedTyped DEF Begin, TypeOK
  <2> QED BY <1>1, <2>1, <2>2, WorldTyped DEF Begin, TypeOK
<1>2. CASE ChooseDisk
  <2>1. chosen' \in Disks \union {Empty}
    BY <1>0, <1>2, StationsTyped, DiskTyped DEF ChooseDisk, TypeOK, Tools
  <2> QED BY <1>2, <2>1, WorldTyped DEF ChooseDisk, TypeOK
<1>3. CASE ReadDisk
  <2>1. SerialOf(chosen) \in Nat
    BY <1>0, StationsTyped, DiskTyped DEF TypeOK, Tools
  <2>2. sources' \in Sources
    BY <1>3, <2>1 DEF ReadDisk, TypeOK, Sources
  <2> QED BY <1>3, <2>2, WorldTyped DEF ReadDisk, TypeOK
<1>4. CASE AskSmi
  <2> DEFINE gpu == GpuFromSmi(CfgOf(who))
             all == [sources EXCEPT !.gpu = gpu]
  <2>1. CASE gpu # 0
    <3>1. gpu \in Nat
      BY <1>0, GpuTyped
    <3>2. all \in Sources \ {Nothing}
      BY <2>1, <3>1 DEF TypeOK, Sources, Nothing, Keys
    <3>3. Conclude(all)
      BY <1>4, <2>1 DEF AskSmi
    <3> QED BY <1>4, <3>2, <3>3, ConcludeTyped, WorldTyped DEF AskSmi, TypeOK
  <2>2. CASE gpu = 0
    BY <1>4, <2>2, WorldTyped DEF AskSmi, TypeOK
  <2> QED BY <2>1, <2>2
<1>5. CASE AskProc
  <2> DEFINE gpu == GpuFromProc(deploy[who].place, CfgOf(who))
             all == [sources EXCEPT !.gpu = gpu]
  <2>1. all \in Sources
    BY <1>0, GpuTyped DEF TypeOK, Sources
  <2>2. CannotTell \/ (all # Nothing /\ Conclude(all))
    BY <1>5 DEF AskProc
  <2>3. /\ pc' = "idle" /\ sources' \in Sources
        /\ enrolled' \in (Sources \ {Nothing}) \union {Unset}
        /\ verdict' \in Verdicts \union {Unset}
    BY <2>1, <2>2, ConcludeTyped, CannotTellTyped
  <2>4. causes' \subseteq Keys \union Nics \union Disks \union {"late"}
    BY <1>5 DEF AskProc, TypeOK
  <2> QED BY <1>5, <2>3, <2>4, WorldTyped DEF AskProc, TypeOK
<1>6. CASE ReplacePart \/ PlugDisk
  <2>1. PICK what \in Keys \union Nics \union Disks : Change(what)
    BY <1>6, MachineTyped
  <2>2. machine' \in Machine
    BY <1>6, MachineTyped
  <2>3. changes' \in 0..MaxChanges
    BY <2>1, MaxChangesIsNat DEF Change, TypeOK
  <2>4. causes' \subseteq Keys \union Nics \union Disks \union {"late"}
    BY <2>1 DEF Change, TypeOK
  <2>5. \A w \in {"enrol", "verify"} : CfgOf(w)' \in Config
    BY <2>1 DEF Change, TypeOK, CfgOf
  <2> QED BY <2>1, <2>2, <2>3, <2>4, <2>5 DEF Change, TypeOK
<1>7. CASE GpuComesAndGoes
  <2>1. \A w \in {"enrol", "verify"} : CfgOf(w)' \in Config
    BY <1>7 DEF GpuComesAndGoes, TypeOK, CfgOf
  <2> QED BY <1>7, <2>1 DEF GpuComesAndGoes, TypeOK
<1>8. CASE UNCHANGED vars
  BY <1>8, WorldTyped DEF vars, TypeOK, world
<1> QED BY <1>1, <1>2, <1>3, <1>4, <1>5, <1>6, <1>7, <1>8 DEF Next

(* Every reachable state is typed: whatever the machine, its environment   *)
(* and its flags, every tool has a complete configuration, and no license  *)
(* is issued for a machine with no source at all (fingerprint.go:311-313). *)
THEOREM TypeCorrect == Spec => []TypeOK
BY TypeInit, TypeStep, PTL DEF Spec

-----------------------------------------------------------------------------
(* In every environment an operator may be expected to write the           *)
(* application and the Go verifier without flags resolve the same          *)
(* configuration (fingerprint.ts:85-113 against fingerprint.go:120-160).   *)
THEOREM TwinsResolveAlike == Spec => []TwinsAgree
<1>1. ASSUME NEW e \in Env, Plain(e)
      PROVE  AppConfig(e) = FingerprintConfigFromEnv(e, Unset)
  <2>1. Coalesce(e.nic, "eth0") = FirstSet(e.nic, "eth0")
    BY <1>1 DEF Plain, Coalesce, FirstSet
  <2>2. Coalesce(e.disk, Empty) = FirstSet(e.disk, Empty)
    BY <1>1 DEF Plain, Coalesce, FirstSet
  <2>3. \A d : Coalesce(e.proc, d) = FirstSet(e.proc, d)
    BY DEF Env, Coalesce, FirstSet, Empty
  <2>4. (e.requireGpu = "1") = (e.requireGpu \in {"1", "true", "yes"})
    BY <1>1, FingerprintAssumption DEF Plain
  <2>5. (e.smi # Empty) = TRUE
    BY <1>1 DEF Plain
  <2> QED BY <2>1, <2>2, <2>3, <2>4, <2>5 DEF AppConfig, FingerprintConfigFromEnv
<1>2. TypeOK => TwinsAgree
  <2> SUFFICES ASSUME TypeOK, NEW w \in {"enrol", "verify"}, NEW c \in {Unset, "1"},
                      Plain([deploy[w].env EXCEPT !.container = c])
               PROVE  LET e == [deploy[w].env EXCEPT !.container = c]
                      IN  AppConfig(e) = FingerprintConfigFromEnv(e, Unset)
    BY DEF TwinsAgree
  <2>1. deploy[w].env \in Env
    BY StationsTyped DEF TypeOK, Tools, Station
  <2>2. [deploy[w].env EXCEPT !.container = c] \in Env
    BY <2>1 DEF Env
  <2> QED BY <1>1, <2>2
<1> QED BY <1>2, TypeCorrect, PTL

-----------------------------------------------------------------------------
(* OkMeansSameParts.  The verdict compares what was collected one part     *)
(* after the other, and the machine changes in between; so what is gone    *)
(* when the verification begins must be known to stay gone.                *)
Serial(d) == machine.disk[d].serial
Left == MaxChanges - changes

(* The serials of two disks never meet.                                    *)
Apart ==
  \A d, e \in Disks : d # e => FarApart(Serial(d), Serial(e), Left)

(* A disk that does not have this serial now will not have it later.       *)
NotYet(serial, n, left) == n = 0 \/ n >= serial \/ serial > n + left
Settled(serial) == \A d \in Disks : NotYet(serial, Serial(d), Left)

(* What was recorded was the machine's, and the machine only moves on.     *)
Recorded ==
  /\ sources.gpu = 0 /\ Settled(sources.disk)
  /\ enrolled # Unset => enrolled.gpu <= machine.gpu /\ Settled(enrolled.disk)

(* Whatever the rest of the collection reads, this part will differ.       *)
StaysLost(k) ==
  CASE k = "gpu" -> enrolled.gpu # 0 /\ machine.gpu # enrolled.gpu
    [] k = "disk" -> /\ enrolled.disk # 0
                     /\ \A d \in Disks : Serial(d) # enrolled.disk
                     /\ pc \in {"smi", "proc"} => sources.disk # enrolled.disk
    [] OTHER -> sources[k] # enrolled[k]

Collected ==
  /\ pc # "idle" => verdict = Unset /\ ((who = "enrol") = (enrolled = Unset))
  /\ pc # "idle" /\ who = "verify" => \A k \in gone : StaysLost(k)
  /\ verdict = "ok" => gone = {}

PartsInv == Apart /\ Recorded /\ Collected

LEMMA PartsInit == Init => PartsInv
<1> SUFFICES ASSUME Init PROVE PartsInv
  OBVIOUS
<1>1. Apart
  BY FingerprintAssumption DEF Init, Apart, Serial, Left
<1>2. machine \in Machine
  BY FingerprintAssumption DEF Init
<1>3. sources = Nothing /\ Nothing.gpu = 0 /\ Nothing.disk = 0
  BY DEF Init, Nothing, Keys
<1>4. Settled(0)
  BY <1>2 DEF Settled, NotYet, Serial, Machine
<1>5. Recorded
  BY <1>3, <1>4 DEF Init, Recorded
<1>6. Collected
  BY DEF Init, Collected
<1> QED BY <1>1, <1>5, <1>6 DEF PartsInv

LEMMA SerialTyped ==
  ASSUME TypeOK
  PROVE  /\ \A d \in Disks : Serial(d) \in Nat
         /\ Left \in Nat /\ machine.gpu \in Nat /\ sources.disk \in Nat
         /\ enrolled # Unset => enrolled \in Sources
<1>1. Left \in Nat
  BY MaxChangesIsNat DEF TypeOK, Left
<1>2. sources.disk \in Nat
  BY DEF TypeOK, Sources, Keys
<1> QED BY <1>1, <1>2 DEF TypeOK, Serial, Machine

(* One change of the machine.                                              *)
Grown(old, new) == new = old \/ (old # 0 /\ new = old + 1)

LEMMA MachineGrows ==
  ASSUME TypeOK, ReplacePart \/ PlugDisk
  PROVE  /\ \A d \in Disks : Grown(Serial(d), Serial(d)')
         /\ Grown(machine.gpu, machine.gpu')
         /\ Left' \in Nat /\ Left = Left' + 1
<1>1. PICK what : Change(what)
  BY MachineTyped
<1>2. Left' \in Nat /\ Left = Left' + 1
  BY <1>1, MaxChangesIsNat DEF Change, Left, TypeOK
<1>3. CASE ReplacePart
  <2>1. ASSUME NEW k \in {"board", "vendor", "dt", "gpu"}, machine[k] # 0,
               machine' = [machine EXCEPT ![k] = @ + 1]
        PROVE  /\ machine'.disk = machine.disk
               /\ Grown(machine.gpu, machine'.gpu)
    BY <2>1 DEF TypeOK, Machine, Grown
  <2>2. ASSUME NEW n \in Nics, machine' = [machine EXCEPT !.mac[n] = @ + 1]
        PROVE  machine'.disk = machine.disk /\ machine'.gpu = machine.gpu
    BY <2>2 DEF TypeOK, Machine
  <2>3. ASSUME NEW c \in Disks, machine.disk[c].serial # 0,
               machine' = [machine EXCEPT !.disk[c].serial = @ + 1]
        PROVE  /\ \A d \in Disks : Grown(machine.disk[d].serial, machine'.disk[d].serial)
               /\ machine'.gpu = machine.gpu
    BY <2>3 DEF TypeOK, Machine, Grown
  <2> QED BY <1>2, <1>3, <2>1, <2>2, <2>3 DEF ReplacePart, Serial, Grown
<1>4. CASE PlugDisk
  <2>1. PICK c \in Disks : machine' = [machine EXCEPT !.disk[c].node = ~@]
    BY <1>4 DEF PlugDisk
  <2>2. /\ \A d \in Disks : machine'.disk[d].serial = machine.disk[d].serial
        /\ machine'.gpu = machine.gpu
    BY <2>1 DEF TypeOK, Machine
  <2> QED BY <1>2, <2>2 DEF Serial, Grown
<1> QED BY <1>3, <1>4

LEMMA ApartGrows ==
  ASSUME NEW a \in Nat, NEW b \in Nat, NEW n \in Nat, NEW x, NEW y,
         Grown(a, x), Grown(b, y), FarApart(a, b, n + 1)
  PROVE  FarApart(x, y, n)
BY DEF Grown, FarApart

LEMMA SettledGrows ==
  ASSUME TypeOK, ReplacePart \/ PlugDisk, NEW serial \in Nat, Settled(serial)
  PROVE  \A d \in Disks : NotYet(serial, Serial(d)', Left')
<1>1. ASSUME NEW a \in Nat, NEW b, NEW n \in Nat, Grown(a, b), NotYet(serial, a, n + 1)
      PROVE  NotYet(serial, b, n)
  BY <1>1 DEF Grown, NotYet
<1>2. ASSUME NEW d \in Disks PROVE NotYet(serial, Serial(d)', Left')
  <2>1. Left' \in Nat /\ Left = Left' + 1 /\ Grown(Serial(d), Serial(d)')
    BY MachineGrows
  <2>2. Serial(d) \in Nat /\ NotYet(serial, Serial(d), Left' + 1)
    BY <2>1, SerialTyped DEF Settled
  <2> QED BY <1>1, <2>1, <2>2
<1> QED BY <1>2

(* A step that leaves the machine as it is.                                *)
LEMMA StillApart ==
  ASSUME UNCHANGED <<machine, changes>>
  PROVE  /\ Apart => Apart'
         /\ Left' = Left /\ \A d : Serial(d)' = Serial(d)
<1>1. Left' = Left /\ \A d : Serial(d)' = Serial(d)
  BY DEF Left, Serial
<1> QED BY <1>1 DEF Apart

(* A serial a disk has now is settled.                                     *)
LEMMA ReadSettles ==
  ASSUME TypeOK, Apart, NEW d \in Disks \union {Empty}
  PROVE  Settled(SerialOf(d))
<1>1. \A c \in Disks : Serial(c) \in Nat
  BY SerialTyped
<1>2. CASE SerialOf(d) = 0
  BY <1>1, <1>2 DEF Settled, NotYet
<1>3. CASE SerialOf(d) # 0
  <2>1. d \in Disks /\ SerialOf(d) = Serial(d)
    BY <1>3 DEF SerialOf, Serial
  <2>2. ASSUME NEW c \in Disks
        PROVE  NotYet(Serial(d), Serial(c), Left)
    <3>1. CASE c = d
      BY <1>1, <2>1, <3>1 DEF NotYet
    <3>2. CASE c # d
      <4>1. FarApart(Serial(c), Serial(d), Left)
        BY <2>1, <3>2 DEF Apart
      <4>2. Left \in Nat /\ Serial(c) \in Nat /\ Serial(d) \in Nat
        BY <1>1, <2>1, SerialTyped
      <4>3. Serial(d) # 0
        BY <1>3, <2>1
      <4> QED BY <4>1, <4>2, <4>3 DEF FarApart, NotYet
    <3> QED BY <3>1, <3>2
  <2> QED BY <2>1, <2>2 DEF Settled
<1> QED BY <1>2, <1>3

(* A part that is gone is not read by the static part of a collection.     *)
LostNow(s, k) ==
  CASE k = "gpu" -> enrolled.gpu # 0 /\ machine.gpu # enrolled.gpu
    [] k = "disk" -> /\ enrolled.disk # 0
                     /\ \A d \in Disks : Serial(d) # enrolled.disk
    [] OTHER -> StaticSources(s)[k] # enrolled[k]

LEMMA GoneAtTheStart ==
  ASSUME TypeOK, Recorded, enrolled # Unset, NEW s \in Station,
         NEW k \in Replaced(s)
  PROVE  LostNow(s, k)
<1> USE DEF LostNow
<1>1. CASE k = "gpu"
  BY <1>1 DEF Replaced
<1>2. CASE k = "disk"
  BY <1>2 DEF Replaced, Serial
<1>3. CASE k = "mac"
  <2>1. /\ enrolled.mac # 0 /\ ConfigOf(s).nic # Empty
        /\ machine.mac[ConfigOf(s).nic] # enrolled.mac
    BY <1>3 DEF Replaced
  <2>2. StaticSources(s).mac \in {0, machine.mac[ConfigOf(s).nic]}
    BY DEF StaticSources, Keys
  <2> QED BY <1>3, <2>1, <2>2
<1>4. CASE k \in {"board", "vendor", "dt"}
  <2>1. enrolled[k] # 0 /\ machine[k] # enrolled[k]
    BY <1>4 DEF Replaced
  <2>2. StaticSources(s)[k] \in {0, machine[k]}
    BY <1>4 DEF StaticSources, DeviceTree, Keys
  <2> QED BY <1>4, <2>1, <2>2
<1>5. k \in {"gpu", "disk", "mac", "board", "vendor", "dt"}
  BY DEF Replaced, Keys
<1> QED BY <1>1, <1>2, <1>3, <1>4, <1>5

(* The collection comes to its end: with a part gone that is still gone,   *)
(* the sources are not those of the license.                               *)
LEMMA ConcludeKeeps ==
  ASSUME TypeOK, PartsInv, pc \in {"smi", "proc"}, NEW gpu \in {0, machine.gpu},
         Conclude([sources EXCEPT !.gpu = gpu]),
         UNCHANGED <<machine, changes, who, gone>>
  PROVE  PartsInv'
<1> DEFINE all == [sources EXCEPT !.gpu = gpu]
<1>1. Apart' /\ Left' = Left /\ \A d : Serial(d)' = Serial(d)
  BY StillApart DEF PartsInv
<1>2. /\ sources' = Nothing /\ pc' = "idle"
      /\ IF who = "enrol"
           THEN enrolled' = all /\ verdict' = verdict
           ELSE /\ enrolled' = enrolled
                /\ verdict' = "ok" => all = enrolled
  BY FingerprintAssumption DEF Conclude, Verdicts
<1>3. /\ sources.disk \in Nat /\ machine.gpu \in Nat
      /\ all.gpu = gpu /\ all.disk = sources.disk
      /\ \A k \in Keys \ {"gpu"} : all[k] = sources[k]
  BY SerialTyped DEF TypeOK, Sources, Keys
<1> HIDE DEF all
<1>4. Nothing.gpu = 0 /\ Nothing.disk = 0
  BY DEF Nothing, Keys
<1>5. Settled(0)
  BY SerialTyped DEF Settled, NotYet
<1>6. verdict = Unset
  BY DEF PartsInv, Collected
<1>7. Recorded'
  <2>1. sources'.gpu = 0 /\ Settled(sources.disk)'
    BY <1>1, <1>2, <1>4, <1>5 DEF Settled
  <2>2. CASE who = "enrol"
    <3>1. enrolled'.gpu <= machine'.gpu
      BY <1>2, <1>3, <2>2
    <3>2. Settled(enrolled.disk)'
      BY <1>1, <1>2, <1>3, <2>2 DEF PartsInv, Recorded, Settled
    <3> QED BY <2>1, <3>1, <3>2 DEF Recorded
  <2>3. CASE who # "enrol"
    <3>1. enrolled' = enrolled
      BY <1>2, <2>3
    <3>2. enrolled' # Unset => enrolled'.gpu <= machine'.gpu /\ Settled(enrolled.disk)'
      BY <1>1, <3>1 DEF PartsInv, Recorded, Settled
    <3> QED BY <2>1, <3>2 DEF Recorded
  <2> QED BY <2>2, <2>3
<1>8. verdict' = "ok" => gone' = {}
  <2>1. CASE who = "enrol"
    BY <1>2, <1>6, <2>1, FingerprintAssumption DEF Verdicts
  <2>2. CASE who # "enrol"
    <3>1. SUFFICES ASSUME all = enrolled, NEW k \in gone PROVE FALSE
      BY <1>2, <2>2
    <3>2. StaysLost(k) /\ k \in Keys
      BY <2>2 DEF PartsInv, Collected, TypeOK
    <3>3. CASE k = "gpu"
      BY <1>3, <3>1, <3>2, <3>3 DEF StaysLost
    <3>4. CASE k = "disk"
      BY <1>3, <3>1, <3>2, <3>4 DEF StaysLost
    <3>5. CASE k \notin {"gpu", "disk"}
      BY <1>3, <3>1, <3>2, <3>5 DEF StaysLost
    <3> QED BY <3>3, <3>4, <3>5
  <2> QED BY <2>1, <2>2
<1>9. Collected'
  BY <1>2, <1>8 DEF Collected
<1> QED BY <1>1, <1>7, <1>9 DEF PartsInv

LEMMA PartsStep == TypeOK /\ PartsInv /\ [Next]_vars => PartsInv'
<1> SUFFICES ASSUME TypeOK, PartsInv, [Next]_vars PROVE PartsInv'
  OBVIOUS
<1>0. deploy \in Deployments /\ machine \in Machine
  BY DEF TypeOK
<1>1. ASSUME NEW w \in {"enrol", "verify"}, Begin(w)
      PROVE  PartsInv'
  <2>1. deploy[w] \in Station
    BY <1>0, StationsTyped DEF Tools
  <2>2. Apart' /\ Left' = Left /\ \A d : Serial(d)' = Serial(d)
    BY <1>1, StillApart DEF Begin, PartsInv, world
  <2>3. sources'.gpu = 0 /\ sources'.disk = 0
    BY <1>1 DEF Begin, StaticSources, Keys
  <2>4. Settled(0)
    BY SerialTyped DEF Settled, NotYet
  <2>5. Recorded'
    <3>1. Settled(sources.disk)'
      BY <2>2, <2>3, <2>4 DEF Settled
    <3>2. enrolled' = enrolled /\ machine' = machine
      BY <1>1 DEF Begin, world
    <3> QED BY <2>2, <2>3, <3>1, <3>2 DEF PartsInv, Recorded, Settled
  <2>6. /\ pc' = "choose" /\ who' = w /\ verdict' = Unset
        /\ enrolled' = enrolled /\ (w = "enrol") = (enrolled = Unset)
        /\ sources' = StaticSources(deploy[w]) /\ machine' = machine
        /\ w # "enrol" => gone' = Replaced(deploy[w])
    BY <1>1 DEF Begin, world
  <2>7. ASSUME w = "verify", NEW k \in Replaced(deploy[w])
        PROVE  StaysLost(k)'
    <3>1. enrolled # Unset
      BY <2>6, <2>7
    <3>2. LostNow(deploy[w], k)
      BY <2>1, <2>7, <3>1, GoneAtTheStart DEF PartsInv
    <3>3. \A d : Serial(d)' = Serial(d)
      BY <2>6 DEF Serial
    <3> QED BY <2>6, <3>2, <3>3 DEF StaysLost, LostNow
  <2>8. verdict' # "ok"
    BY <2>6, FingerprintAssumption DEF Verdicts
  <2>9. Collected'
    BY <2>6, <2>7, <2>8 DEF Collected
  <2> QED BY <2>2, <2>5, <2>9 DEF PartsInv
<1>2. CASE ChooseDisk
  <2>1. Apart' /\ Left' = Left /\ \A d : Serial(d)' = Serial(d)
    BY <1>2, StillApart DEF ChooseDisk, PartsInv, world
  <2>2. /\ pc = "choose" /\ pc' = "disk"
        /\ UNCHANGED <<machine, who, sources, enrolled, verdict, gone>>
    BY <1>2 DEF ChooseDisk, world
  <2>3. Recorded'
    BY <2>1, <2>2 DEF PartsInv, Recorded, Settled
  <2>4. \A k : StaysLost(k) => StaysLost(k)'
    BY <2>2 DEF StaysLost, Serial
  <2>5. Collected'
    BY <2>2, <2>4 DEF PartsInv, Collected
  <2> QED BY <2>1, <2>3, <2>5 DEF PartsInv
<1>3. CASE ReadDisk
  <2>1. Apart' /\ Left' = Left /\ \A d : Serial(d)' = Serial(d)
    BY <1>3, StillApart DEF ReadDisk, PartsInv, world
  <2>2. /\ pc = "disk" /\ pc' = "smi"
        /\ UNCHANGED <<machine, who, enrolled, verdict, gone>>
        /\ sources' = [sources EXCEPT !.disk = SerialOf(chosen)]
    BY <1>3 DEF ReadDisk, world
  <2>3. /\ sources'.disk = SerialOf(chosen)
        /\ \A k \in Keys \ {"disk"} : sources'[k] = sources[k]
        /\ sources'.gpu = sources.gpu
    BY <2>2 DEF TypeOK, Sources, Keys
  <2>4. Settled(SerialOf(chosen))
    BY ReadSettles DEF TypeOK, PartsInv
  <2>5. Recorded'
    <3>1. sources'.gpu = 0 /\ Settled(sources.disk)'
      BY <2>1, <2>3, <2>4 DEF PartsInv, Recorded, Settled
    <3> QED BY <2>1, <2>2, <3>1 DEF PartsInv, Recorded, Settled
  <2>6. ASSUME NEW k \in Keys, StaysLost(k)
        PROVE  StaysLost(k)'
    <3>1. CASE k = "disk"
      <4>1. SerialOf(chosen) # enrolled.disk
        <5>1. SerialOf(chosen) = 0 \/ \E d \in Disks : SerialOf(chosen) = Serial(d)
          BY DEF SerialOf, Serial, TypeOK
        <5> QED BY <2>6, <3>1, <5>1 DEF StaysLost
      <4> QED BY <2>2, <2>3, <2>6, <3>1, <4>1 DEF StaysLost, Serial
    <3>2. CASE k # "disk"
      BY <2>2, <2>3, <2>6, <3>2 DEF StaysLost
    <3> QED BY <3>1, <3>2
  <2>7. Collected'
    BY <2>2, <2>6 DEF PartsInv, Collected, TypeOK
  <2> QED BY <2>1, <2>5, <2>7 DEF PartsInv
<1>4. CASE AskSmi
  <2>1. GpuFromSmi(CfgOf(who)) \in {0, machine.gpu}
    BY <1>0, GpuTyped
  <2>2. CASE GpuFromSmi(CfgOf(who)) # 0
    <3>1. Conclude([sources EXCEPT !.gpu = GpuFromSmi(CfgOf(who))])
      BY <1>4, <2>2 DEF AskSmi
    <3>2. pc \in {"smi", "proc"} /\ UNCHANGED <<machine, changes, who, gone>>
      BY <1>4 DEF AskSmi, world
    <3> QED BY <2>1, <3>1, <3>2, ConcludeKeeps
  <2>3. CASE GpuFromSmi(CfgOf(who)) = 0
    <3>1. /\ pc = "smi" /\ pc' = "proc"
          /\ UNCHANGED <<machine, changes, who, sources, enrolled, verdict, gone>>
      BY <1>4, <2>3 DEF AskSmi, world
    <3>2. Apart' /\ Left' = Left /\ \A d : Serial(d)' = Serial(d)
      BY <3>1, StillApart DEF PartsInv
    <3>3. Recorded'
      BY <3>1, <3>2 DEF PartsInv, Recorded, Settled
    <3>4. \A k : StaysLost(k) => StaysLost(k)'
      BY <3>1 DEF StaysLost, Serial
    <3>5. Collected'
      BY <3>1, <3>4 DEF PartsInv, Collected
    <3> QED BY <3>2, <3>3, <3>5 DEF PartsInv
  <2> QED BY <2>2, <2>3
<1>5. CASE AskProc
  <2> DEFINE gpu == GpuFromProc(deploy[who].place, CfgOf(who))
  <2>1. gpu \in {0, machine.gpu}
    BY <1>0, GpuTyped
  <2>2. /\ pc = "proc" /\ UNCHANGED <<machine, changes, who, gone>>
        /\ CannotTell \/ Conclude([sources EXCEPT !.gpu = gpu])
    BY <1>5 DEF AskProc, world
  <2> HIDE DEF gpu
  <2>3. CASE CannotTell
    <3>1. Apart' /\ Left' = Left /\ \A d : Serial(d)' = Serial(d)
      BY <2>2, StillApart DEF PartsInv
    <3>2. /\ sources' = Nothing /\ pc' = "idle" /\ enrolled' = enrolled
          /\ verdict' \in {verdict, "hardware_unavailable"} /\ verdict = Unset
      BY <2>2, <2>3 DEF CannotTell, PartsInv, Collected
    <3>3. Nothing.gpu = 0 /\ Nothing.disk = 0
      BY DEF Nothing, Keys
    <3>4. Settled(0)
      BY SerialTyped DEF Settled, NotYet
    <3>5. sources'.gpu = 0 /\ Settled(sources.disk)'
      BY <3>1, <3>2, <3>3, <3>4 DEF Settled
    <3>6. Recorded'
      BY <2>2, <3>1, <3>2, <3>5 DEF PartsInv, Recorded, Settled
    <3>7. verdict' # "ok"
      BY <3>2, FingerprintAssumption DEF Verdicts
    <3>8. Collected'
      BY <3>2, <3>7 DEF Collected
    <3> QED BY <3>1, <3>6, <3>8 DEF PartsInv
  <2>4. CASE Conclude([sources EXCEPT !.gpu = gpu])
    BY <2>1, <2>2, <2>4, ConcludeKeeps
  <2> QED BY <2>2, <2>3, <2>4
<1>6. CASE ReplacePart \/ PlugDisk
  <2>1. /\ \A d \in Disks : Grown(Serial(d), Serial(d)')
        /\ Grown(machine.gpu, machine.gpu')
        /\ Left' \in Nat /\ Left = Left' + 1
    BY <1>6, MachineGrows
  <2>2. UNCHANGED <<pc, who, sources, enrolled, verdict, gone>>
    BY <1>6, MachineTyped DEF Change, collection
  <2>3. Apart'
    <3>1. ASSUME NEW d \in Disks, NEW e \in Disks, d # e
          PROVE  FarApart(Serial(d)', Serial(e)', Left')
      <4>1. FarApart(Serial(d), Serial(e), Left' + 1)
        BY <2>1, <3>1 DEF PartsInv, Apart
      <4>2. Serial(d) \in Nat /\ Serial(e) \in Nat
        BY SerialTyped
      <4>3. Grown(Serial(d), Serial(d)') /\ Grown(Serial(e), Serial(e)')
        BY <2>1
      <4> QED BY <2>1, <4>1, <4>2, <4>3, ApartGrows
    <3> QED BY <3>1 DEF Apart
  <2>4. enrolled # Unset => enrolled.disk \in Nat /\ enrolled.gpu \in Nat
    BY SerialTyped DEF Sources, Keys
  <2>5. Recorded'
    <3>1. sources'.gpu = 0 /\ Settled(sources.disk)'
      BY <1>6, <2>2, SerialTyped, SettledGrows DEF PartsInv, Recorded, Settled
    <3>2. ASSUME enrolled # Unset PROVE enrolled.gpu <= machine.gpu'
      BY <2>1, <2>4, <3>2, SerialTyped DEF PartsInv, Recorded, Grown
    <3>3. ASSUME enrolled # Unset PROVE Settled(enrolled.disk)'
      BY <1>6, <2>2, <2>4, <3>3, SettledGrows DEF PartsInv, Recorded, Settled
    <3> QED BY <2>2, <3>1, <3>2, <3>3 DEF Recorded
  <2>6. ASSUME NEW k, enrolled # Unset, StaysLost(k)
        PROVE  StaysLost(k)'
    <3>1. CASE k = "gpu"
      <4>1. machine.gpu \in Nat /\ enrolled.gpu \in Nat /\ enrolled.gpu <= machine.gpu
        BY <2>4, <2>6, SerialTyped DEF PartsInv, Recorded
      <4>2. enrolled.gpu # 0 /\ machine.gpu # enrolled.gpu
        BY <2>6, <3>1 DEF StaysLost
      <4>3. machine.gpu' # enrolled.gpu
        BY <2>1, <4>1, <4>2 DEF Grown
      <4> QED BY <2>2, <3>1, <4>2, <4>3 DEF StaysLost
    <3>2. CASE k = "disk"
      <4>1. enrolled.disk # 0 /\ \A d \in Disks : Serial(d) # enrolled.disk
        BY <2>6, <3>2 DEF StaysLost
      <4>2. ASSUME NEW d \in Disks PROVE Serial(d)' # enrolled.disk
        <5>1. /\ Serial(d) # enrolled.disk /\ enrolled.disk # 0
              /\ Serial(d) = 0 \/ Serial(d) >= enrolled.disk
                 \/ enrolled.disk > Serial(d) + (Left' + 1)
          BY <2>1, <2>6, <4>1 DEF PartsInv, Recorded, Settled, NotYet
        <5>2. Serial(d) \in Nat /\ enrolled.disk \in Nat /\ Grown(Serial(d), Serial(d)')
          BY <2>1, <2>4, <2>6, SerialTyped
        <5> QED BY <2>1, <5>1, <5>2 DEF Grown
      <4> QED BY <2>2, <2>6, <3>2, <4>2 DEF StaysLost
    <3>3. CASE k \notin {"gpu", "disk"}
      BY <2>2, <2>6, <3>3 DEF StaysLost
    <3> QED BY <3>1, <3>2, <3>3
  <2>7. Collected'
    BY <2>2, <2>6 DEF PartsInv, Collected
  <2> QED BY <2>3, <2>5, <2>7 DEF PartsInv
<1>7. CASE GpuComesAndGoes \/ UNCHANGED vars
  <2>1. UNCHANGED <<machine, changes, pc, who, sources, enrolled, verdict, gone>>
    BY <1>7 DEF GpuComesAndGoes, vars, collection
  <2>2. Apart' /\ Left' = Left /\ \A d : Serial(d)' = Serial(d)
    BY <2>1, StillApart DEF PartsInv
  <2>3. Recorded'
    BY <2>1, <2>2 DEF PartsInv, Recorded, Settled
  <2>4. \A k : StaysLost(k) => StaysLost(k)'
    BY <2>1 DEF StaysLost, Serial
  <2>5. Collected'
    BY <2>1, <2>4 DEF PartsInv, Collected
  <2> QED BY <2>2, <2>3, <2>5 DEF PartsInv
<1> QED BY <1>1, <1>2, <1>3, <1>4, <1>5, <1>6, <1>7 DEF Next

(* ok is not answered for a machine that had lost an enrolled part when    *)
(* the verification began, whatever is replaced, plugged or late while the *)
(* sources are read one after the other (fingerprint.go:250-314).          *)
THEOREM OkIsForTheEnrolledParts == Spec => []OkMeansSameParts
<1>1. PartsInv => OkMeansSameParts
  BY DEF PartsInv, Collected, OkMeansSameParts
<1> QED BY <1>1, TypeCorrect, PartsInit, PartsStep, PTL DEF Spec

-----------------------------------------------------------------------------
(* ToolsAgree.  What an operator writes, as the documents ask, resolves to *)
(* a layout that shows the machine, to the same interface and to the same  *)
(* pinned disk or none, whichever tool reads it.                           *)
WellSited(s) == Sees(s.place, ConfigOf(s).layout)

SameView(d) ==
  /\ WellSited(d.enrol) /\ WellSited(d.verify)
  /\ ConfigOf(d.enrol).nic = ConfigOf(d.verify).nic
  /\ ConfigOf(d.enrol).disk = ConfigOf(d.verify).disk

LEMMA ToldIsSited ==
  ASSUME NEW s \in Station, Told(s) PROVE WellSited(s)
<1>1. s.env \in Env /\ s.flags \in Flags /\ s.place \in {"host", "container"}
  BY DEF Station
<1>2. CASE s.tool = "hwinfo"
  BY <1>1, <1>2, FingerprintAssumption
     DEF Told, ToldByPaths, WellSited, ConfigOf, HwinfoConfig, Sees, FirstSet, Coalesce,
         Env, Flags, Empty
<1>3. CASE s.tool = "app"
  BY <1>1, <1>3
     DEF Told, ToldByContainer, WellSited, ConfigOf, AppConfig, Sees, FirstSet, Env
<1>4. CASE s.tool \notin {"hwinfo", "app"}
  <2>1. ConfigOf(s).layout = FirstSet(s.flags.paths,
                               FingerprintConfigFromEnv(s.env, s.flags.container).layout)
    BY <1>4 DEF ConfigOf, ApplyFingerprintFlags, FingerprintConfigFromEnv
  <2> QED BY <1>1, <1>4, <2>1
     DEF Told, ToldByContainer, WellSited, FingerprintConfigFromEnv, Sees, FirstSet, Env
<1> QED BY <1>2, <1>3, <1>4

LEMMA NamedIsResolved ==
  ASSUME NEW s \in Station, NamedNic(s) # Empty, NamedDisk(s) # Empty
  PROVE  /\ ConfigOf(s).nic = Coalesce(NamedNic(s), "eth0")
         /\ ConfigOf(s).disk = Coalesce(NamedDisk(s), Empty)
<1>1. CASE s.tool = "hwinfo"
  BY <1>1 DEF NamedNic, NamedDisk, ConfigOf, HwinfoConfig, FirstSet, Coalesce
<1>2. CASE s.tool = "app"
  BY <1>2 DEF NamedNic, NamedDisk, ConfigOf, AppConfig
<1>3. CASE s.tool \notin {"hwinfo", "app"}
  <2>1. /\ ConfigOf(s).nic = FirstSet(s.flags.nic, FirstSet(s.env.nic, "eth0"))
        /\ ConfigOf(s).disk = FirstSet(s.flags.disk, FirstSet(s.env.disk, Empty))
    BY <1>3 DEF ConfigOf, ApplyFingerprintFlags, FingerprintConfigFromEnv
  <2> QED BY <1>3, <2>1 DEF NamedNic, NamedDisk, FirstSet, Coalesce
<1> QED BY <1>1, <1>2, <1>3

LEMMA DocumentedView ==
  ASSUME NEW d \in [enrol : Station, verify : Station], Documented(d)
  PROVE  SameView(d)
BY ToldIsSited, NamedIsResolved DEF Documented, SameView

LEMMA DeployedView == TypeOK /\ Documented(deploy) => SameView(deploy)
BY DocumentedView, FingerprintAssumption DEF TypeOK

LEMMA EndsTyped ==
  ASSUME TypeOK PROVE deploy.enrol \in Station /\ deploy.verify \in Station
BY StationsTyped DEF TypeOK, Tools

LEMMA SameSources ==
  ASSUME SameView(deploy), deploy.enrol.asRoot = deploy.verify.asRoot
  PROVE  /\ StaticSources(deploy.enrol) = StaticSources(deploy.verify)
         /\ ChosenBy(deploy.enrol) = ChosenBy(deploy.verify)
<1> DEFINE a == deploy.enrol
           b == deploy.verify
<1>1. /\ Sees(a.place, ConfigOf(a).layout) /\ Sees(b.place, ConfigOf(b).layout)
      /\ ConfigOf(a).nic = ConfigOf(b).nic /\ ConfigOf(a).disk = ConfigOf(b).disk
      /\ a.asRoot = b.asRoot
  BY DEF SameView, WellSited
<1> HIDE DEF a, b
<1>2. /\ DeviceTree(a.place, ConfigOf(a).layout) = machine.dt
      /\ DeviceTree(b.place, ConfigOf(b).layout) = machine.dt
  BY <1>1 DEF DeviceTree
<1>3. ASSUME NEW k \in Keys PROVE StaticSources(a)[k] = StaticSources(b)[k]
  BY <1>1, <1>2 DEF StaticSources
<1>4. StaticSources(a) = StaticSources(b)
  BY <1>3 DEF StaticSources
<1>5. ChooseBlockDevice(ConfigOf(a)) = ChooseBlockDevice(ConfigOf(b))
  BY <1>1 DEF ChooseBlockDevice
<1>6. ChosenBy(a) = ChosenBy(b)
  BY <1>1, <1>5 DEF ChosenBy
<1> QED BY <1>4, <1>6 DEF a, b

(* Wherever the documents send an operator, any two of the four tools see  *)
(* the same sources at any time, and the same GPU unless one of them sees  *)
(* none (README.md:125, fingerprint.go:250-314).                           *)
THEOREM ToolsSeeAlike == Spec => []ToolsAgree
<1>1. TypeOK => ToolsAgree
  <2> SUFFICES ASSUME TypeOK, SameView(deploy), deploy.enrol.asRoot = deploy.verify.asRoot
               PROVE  \/ GpuOf(deploy.enrol) = GpuOf(deploy.verify)
                      \/ 0 \in {GpuOf(deploy.enrol), GpuOf(deploy.verify)}
    BY DeployedView, SameSources DEF ToolsAgree
  <2>1. \A s : GpuOf(s) \in {0, machine.gpu}
    BY DEF GpuOf, GpuFromSmi, GpuFromProc
  <2> QED BY <2>1
<1> QED BY <1>1, TypeCorrect, PTL

-----------------------------------------------------------------------------
(* MismatchHasACause: as long as nothing has happened that the property    *)
(* names, what has been collected and enrolled is what the machine still   *)
(* answers.                                                                *)
Excused ==
  \/ causes \intersect (Matters(deploy.enrol) \union Matters(deploy.verify)) # {}
  \/ deploy.enrol.asRoot # deploy.verify.asRoot

StaticKeys == {"board", "vendor", "dt", "mac"}
DiskNow(s) == SerialOf(ChosenBy(s))

FreshCollection ==
  /\ pc # "idle" => \A k \in StaticKeys : sources[k] = StaticSources(deploy[who])[k]
  /\ pc = "disk" => chosen = ChosenBy(deploy[who])
  /\ pc \in {"smi", "proc"} => sources.disk = DiskNow(deploy[who])

FreshLicense ==
  enrolled # Unset =>
    /\ \A k \in StaticKeys : enrolled[k] = StaticSources(deploy.enrol)[k]
    /\ enrolled.disk = DiskNow(deploy.enrol)
    /\ enrolled.gpu = machine.gpu

Fresh == FreshCollection /\ FreshLicense /\ verdict # "fingerprint_mismatch"
CauseInv == SameView(deploy) => Excused \/ Fresh

LEMMA CauseInit == Init => CauseInv
BY FingerprintAssumption
   DEF Init, CauseInv, Fresh, FreshCollection, FreshLicense, Verdicts

(* A change that does not matter to a station moves nothing it reads.      *)
LEMMA Unmoved ==
  ASSUME TypeOK, ReplacePart \/ PlugDisk, NEW s \in Station,
         causes' \intersect Matters(s) = {}
  PROVE  /\ \A k \in StaticKeys : StaticSources(s)'[k] = StaticSources(s)[k]
         /\ ChosenBy(s)' = ChosenBy(s) /\ DiskNow(s)' = DiskNow(s)
         /\ machine.gpu' = machine.gpu
<1> DEFINE cfg == ConfigOf(s)
<1>1. cfg \in Config
  BY ConfigTyped
<1>2. dtInProc' = dtInProc /\ cfg' = cfg
  BY MachineTyped DEF Change
<1>3. machine \in Machine
  BY DEF TypeOK
<1>4. \A what : Change(what) => what \notin Matters(s)
  BY DEF Change
<1>5. CASE /\ machine'.vendor = machine.vendor /\ machine'.dt = machine.dt
           /\ s.asRoot => machine'.board = machine.board
           /\ cfg.nic # Empty => machine'.mac[cfg.nic] = machine.mac[cfg.nic]
           /\ machine'.disk = machine.disk /\ machine'.gpu = machine.gpu
  <2>1. DeviceTree(s.place, cfg.layout)' = DeviceTree(s.place, cfg.layout)
    BY <1>2, <1>5 DEF DeviceTree
  <2>2. \A k \in StaticKeys : StaticSources(s)'[k] = StaticSources(s)[k]
    BY <1>2, <1>5, <2>1 DEF StaticSources, StaticKeys, Keys
  <2>3. ChosenBy(s)' = ChosenBy(s)
    BY <1>2, <1>5 DEF ChosenBy, ChooseBlockDevice
  <2>4. DiskNow(s)' = DiskNow(s)
    BY <1>5, <2>3 DEF DiskNow, SerialOf
  <2> QED BY <1>5, <2>2, <2>3, <2>4
<1>6. CASE /\ machine'.vendor = machine.vendor /\ machine'.dt = machine.dt
           /\ machine'.board = machine.board /\ machine'.mac = machine.mac
           /\ cfg.disk # Empty /\ machine'.disk[cfg.disk] = machine.disk[cfg.disk]
           /\ machine'.gpu = machine.gpu
  <2>1. DeviceTree(s.place, cfg.layout)' = DeviceTree(s.place, cfg.layout)
    BY <1>2, <1>6 DEF DeviceTree
  <2>2. \A k \in StaticKeys : StaticSources(s)'[k] = StaticSources(s)[k]
    BY <1>2, <1>6, <2>1 DEF StaticSources, StaticKeys, Keys
  <2>3. ChosenBy(s)' = ChosenBy(s) /\ ChosenBy(s) \in {Empty, cfg.disk}
    BY <1>2, <1>6 DEF ChosenBy, ChooseBlockDevice
  <2>4. DiskNow(s)' = DiskNow(s)
    BY <1>6, <2>3 DEF DiskNow, SerialOf
  <2> QED BY <1>6, <2>2, <2>3, <2>4
<1>7. CASE ReplacePart
  <2>1. ASSUME NEW k \in {"board", "vendor", "dt", "gpu"}, Change(k),
               machine' = [machine EXCEPT ![k] = @ + 1]
        PROVE  k = "board" /\ ~s.asRoot
    BY <1>4, <2>1 DEF Matters
  <2>2. ASSUME machine' = [machine EXCEPT !["board"] = @ + 1]
        PROVE  /\ machine'.vendor = machine.vendor /\ machine'.dt = machine.dt
               /\ machine'.mac = machine.mac
               /\ machine'.disk = machine.disk /\ machine'.gpu = machine.gpu
    BY <1>3, <2>2 DEF Machine
  <2>3. ASSUME NEW n \in Nics, Change(n), machine' = [machine EXCEPT !.mac[n] = @ + 1]
        PROVE  /\ machine'.vendor = machine.vendor /\ machine'.dt = machine.dt
               /\ machine'.board = machine.board
               /\ cfg.nic # Empty => machine'.mac[cfg.nic] = machine.mac[cfg.nic]
               /\ machine'.disk = machine.disk /\ machine'.gpu = machine.gpu
    <3>1. n # cfg.nic
      BY <1>4, <2>3 DEF Matters
    <3>2. cfg.nic # Empty => cfg.nic \in Nics
      BY <1>1 DEF Config
    <3> HIDE DEF cfg
    <3> QED BY <1>3, <2>3, <3>1, <3>2 DEF Machine
  <2>4. ASSUME NEW d \in Disks, Change(d), machine' = [machine EXCEPT !.disk[d].serial = @ + 1]
        PROVE  /\ machine'.vendor = machine.vendor /\ machine'.dt = machine.dt
               /\ machine'.board = machine.board /\ machine'.mac = machine.mac
               /\ cfg.disk # Empty /\ machine'.disk[cfg.disk] = machine.disk[cfg.disk]
               /\ machine'.gpu = machine.gpu
    <3>1. cfg.disk # Empty /\ d # cfg.disk
      BY <1>4, <2>4 DEF Matters
    <3>2. cfg.disk \in Disks
      BY <1>1, <3>1 DEF Config
    <3> HIDE DEF cfg
    <3> QED BY <1>3, <2>4, <3>1, <3>2 DEF Machine
  <2> HIDE DEF cfg
  <2>5. CASE \E k \in {"board", "vendor", "dt", "gpu"} :
               Change(k) /\ machine' = [machine EXCEPT ![k] = @ + 1]
    BY <1>5, <2>1, <2>2, <2>5
  <2>6. CASE \E n \in Nics : Change(n) /\ machine' = [machine EXCEPT !.mac[n] = @ + 1]
    BY <1>5, <2>3, <2>6
  <2>7. CASE \E d \in Disks :
               Change(d) /\ machine' = [machine EXCEPT !.disk[d].serial = @ + 1]
    BY <1>6, <2>4, <2>7
  <2> QED BY <1>7, <2>5, <2>6, <2>7 DEF ReplacePart
<1>8. CASE PlugDisk
  <2>1. PICK d \in Disks : Change(d) /\ machine' = [machine EXCEPT !.disk[d].node = ~@]
    BY <1>8 DEF PlugDisk
  <2>2. cfg.disk # Empty /\ d # cfg.disk
    BY <1>4, <2>1 DEF Matters
  <2>3. cfg.disk \in Disks
    BY <1>1, <2>2 DEF Config
  <2> HIDE DEF cfg
  <2>4. /\ machine'.vendor = machine.vendor /\ machine'.dt = machine.dt
        /\ machine'.board = machine.board /\ machine'.mac = machine.mac
        /\ machine'.disk[cfg.disk] = machine.disk[cfg.disk]
        /\ machine'.gpu = machine.gpu
    BY <1>3, <2>1, <2>2, <2>3 DEF Machine
  <2> QED BY <1>6, <2>2, <2>4
<1> QED BY <1>7, <1>8

(* A step that leaves the machine as it is.                                *)
LEMMA SameNow ==
  ASSUME UNCHANGED <<machine, dtInProc>>
  PROVE  \A s : /\ StaticSources(s)' = StaticSources(s)
                /\ ChosenBy(s)' = ChosenBy(s) /\ DiskNow(s)' = DiskNow(s)
<1> SUFFICES ASSUME NEW s
             PROVE  /\ StaticSources(s)' = StaticSources(s)
                    /\ ChosenBy(s)' = ChosenBy(s) /\ DiskNow(s)' = DiskNow(s)
  OBVIOUS
<1>1. \A place, layout : DeviceTree(place, layout)' = DeviceTree(place, layout)
  BY DEF DeviceTree
<1>2. StaticSources(s)' = StaticSources(s)
  BY <1>1 DEF StaticSources
<1>3. ChosenBy(s)' = ChosenBy(s)
  BY DEF ChosenBy, ChooseBlockDevice
<1> QED BY <1>2, <1>3 DEF DiskNow, SerialOf

(* An excuse lasts until the next enrolment.                               *)
LEMMA StillExcused ==
  ASSUME Excused, deploy' = deploy, causes \subseteq causes'
  PROVE  Excused'
BY DEF Excused, Matters

(* The collection ends with everything fresh, the GPU as it is: a license  *)
(* that is fresh, or a verdict that is not a mismatch.                     *)
LEMMA ConcludeFresh ==
  ASSUME TypeOK, SameView(deploy), Fresh, pc \in {"smi", "proc"},
         deploy.enrol.asRoot = deploy.verify.asRoot,
         who = "verify" => enrolled # Unset,
         Conclude([sources EXCEPT !.gpu = machine.gpu]),
         UNCHANGED <<machine, dtInProc, deploy>>
  PROVE  Fresh'
<1> DEFINE all == [sources EXCEPT !.gpu = machine.gpu]
<1>1. /\ pc' = "idle"
      /\ IF who = "enrol"
           THEN enrolled' = all /\ verdict' = verdict
           ELSE /\ verdict' = IF all = enrolled THEN "ok" ELSE "fingerprint_mismatch"
                /\ enrolled' = enrolled
  BY DEF Conclude
<1>2. /\ all \in Sources /\ all.gpu = machine.gpu
      /\ \A k \in Keys \ {"gpu"} : all[k] = sources[k]
  BY DEF TypeOK, Sources, Keys, Machine
<1> HIDE DEF all
<1>3. /\ \A k \in StaticKeys : all[k] = StaticSources(deploy[who])[k]
      /\ all.disk = DiskNow(deploy[who])
  BY <1>2 DEF Fresh, FreshCollection, StaticKeys, Keys
<1>4. /\ StaticSources(deploy.enrol) = StaticSources(deploy.verify)
      /\ DiskNow(deploy.enrol) = DiskNow(deploy.verify)
  BY SameSources DEF DiskNow
<1>5. FreshCollection'
  BY <1>1 DEF FreshCollection
<1>6. CASE who = "enrol"
  <2>1. FreshLicense'
    BY <1>1, <1>2, <1>3, <1>6, SameNow DEF FreshLicense
  <2> QED BY <1>1, <1>5, <1>6, <2>1 DEF Fresh
<1>7. CASE who = "verify"
  <2>1. enrolled \in Sources
    BY <1>7 DEF TypeOK
  <2>2. \A k \in Keys : all[k] = enrolled[k]
    BY <1>2, <1>3, <1>4, <1>7 DEF Fresh, FreshLicense, StaticKeys, Keys
  <2>3. all = enrolled
    BY <1>2, <2>1, <2>2 DEF Sources
  <2>4. FreshLicense'
    BY <1>1, <1>7, SameNow DEF Fresh, FreshLicense
  <2> QED BY <1>1, <1>5, <1>7, <2>3, <2>4 DEF Fresh
<1> QED BY <1>6, <1>7 DEF TypeOK

LEMMA CauseStep == TypeOK /\ PartsInv /\ CauseInv /\ [Next]_vars => CauseInv'
<1> SUFFICES ASSUME TypeOK, PartsInv, CauseInv, [Next]_vars, SameView(deploy)', ~Excused'
             PROVE  Fresh'
  BY DEF CauseInv
<1>1. deploy' = deploy
  BY MachineTyped
     DEF Next, Begin, ChooseDisk, ReadDisk, AskSmi, AskProc, Change, GpuComesAndGoes, vars, world
<1>2. SameView(deploy) /\ deploy.enrol.asRoot = deploy.verify.asRoot
  BY <1>1 DEF SameView, WellSited, Excused
<1>3. causes \subseteq causes' => Fresh
  BY <1>1, <1>2, StillExcused DEF CauseInv
<1>4. pc # "idle" /\ who = "verify" => enrolled # Unset
  BY DEF PartsInv, Collected
<1>5. ASSUME NEW w \in {"enrol", "verify"}, Begin(w)
      PROVE  Fresh'
  <2>1. /\ pc' = "choose" /\ who' = w /\ verdict' = Unset
        /\ sources' = StaticSources(deploy[w]) /\ enrolled' = enrolled
        /\ w = "enrol" => enrolled = Unset
        /\ w # "enrol" => causes' = causes
        /\ UNCHANGED <<machine, dtInProc>>
    BY <1>5 DEF Begin, world
  <2>2. FreshCollection'
    BY <1>1, <2>1, SameNow DEF FreshCollection
  <2>3. FreshLicense'
    <3>1. CASE w = "enrol"
      BY <2>1, <3>1 DEF FreshLicense
    <3>2. CASE w # "enrol"
      BY <1>1, <1>3, <2>1, <3>2, SameNow DEF Fresh, FreshLicense
    <3> QED BY <3>1, <3>2
  <2> QED BY <2>1, <2>2, <2>3, FingerprintAssumption DEF Fresh, Verdicts
<1>6. CASE ChooseDisk
  <2>1. /\ pc = "choose" /\ pc' = "disk" /\ chosen' = ChosenBy(deploy[who])
        /\ UNCHANGED <<machine, dtInProc, who, sources, enrolled, verdict, causes>>
    BY <1>6 DEF ChooseDisk, world
  <2>2. Fresh
    BY <1>3, <2>1
  <2> QED BY <1>1, <2>1, <2>2, SameNow DEF Fresh, FreshCollection, FreshLicense
<1>7. CASE ReadDisk
  <2>1. /\ pc = "disk" /\ pc' = "smi"
        /\ sources' = [sources EXCEPT !.disk = SerialOf(chosen)]
        /\ UNCHANGED <<machine, dtInProc, who, enrolled, verdict, causes>>
    BY <1>7 DEF ReadDisk, world
  <2>2. Fresh
    BY <1>3, <2>1
  <2>3. /\ sources'.disk = SerialOf(chosen)
        /\ \A k \in StaticKeys : sources'[k] = sources[k]
    BY <2>1 DEF TypeOK, Sources, Keys, StaticKeys
  <2>4. FreshCollection'
    BY <1>1, <2>1, <2>2, <2>3, SameNow DEF Fresh, FreshCollection, DiskNow
  <2>5. FreshLicense'
    BY <1>1, <2>1, <2>2, SameNow DEF Fresh, FreshLicense
  <2> QED BY <2>1, <2>2, <2>4, <2>5 DEF Fresh
<1>8. CASE AskSmi
  <2>1. /\ pc = "smi"
        /\ UNCHANGED <<machine, dtInProc, who, causes>>
    BY <1>8 DEF AskSmi, world
  <2>2. Fresh
    BY <1>3, <2>1
  <2>3. CASE GpuFromSmi(CfgOf(who)) # 0
    <3>1. GpuFromSmi(CfgOf(who)) = machine.gpu
      BY <2>3 DEF GpuFromSmi
    <3>2. Conclude([sources EXCEPT !.gpu = machine.gpu])
      BY <1>8, <2>3, <3>1 DEF AskSmi
    <3> QED BY <1>1, <1>2, <1>4, <2>1, <2>2, <3>2, ConcludeFresh
  <2>4. CASE GpuFromSmi(CfgOf(who)) = 0
    <3>1. pc' = "proc" /\ UNCHANGED <<sources, enrolled, verdict>>
      BY <1>8, <2>4 DEF AskSmi
    <3> QED BY <1>1, <2>1, <2>2, <3>1, SameNow DEF Fresh, FreshCollection, FreshLicense
  <2> QED BY <2>3, <2>4
<1>9. CASE AskProc
  <2> DEFINE gpu == GpuFromProc(deploy[who].place, CfgOf(who))
  <2>1. /\ pc = "proc"
        /\ UNCHANGED <<machine, dtInProc, who>>
        /\ causes' = IF gpu = 0 /\ machine.gpu # 0 THEN causes \union {"late"} ELSE causes
    BY <1>9 DEF AskProc, world
  <2>2. Fresh
    BY <1>3, <2>1
  <2>3. gpu \in {0, machine.gpu}
    BY GpuTyped DEF TypeOK
  <2> DEFINE required == gpu = 0 /\ CfgOf(who).requireGpu
             all == [sources EXCEPT !.gpu = gpu]
  <2>4. IF required \/ all = Nothing THEN CannotTell ELSE Conclude(all)
    BY <1>9 DEF AskProc
  <2>5. CannotTell \/ (~required /\ Conclude(all))
    <3> HIDE DEF required, all
    <3> QED BY <2>4
  <2> HIDE DEF gpu
  <2>6. CASE CannotTell
    <3>1. /\ pc' = "idle" /\ enrolled' = enrolled
          /\ verdict' \in {verdict, "hardware_unavailable"}
      BY <2>6 DEF CannotTell
    <3> QED BY <1>1, <2>1, <2>2, <3>1, SameNow DEF Fresh, FreshCollection, FreshLicense
  <2>7. CASE /\ ~(gpu = 0 /\ CfgOf(who).requireGpu)
             /\ Conclude([sources EXCEPT !.gpu = gpu])
    <3>1. gpu = machine.gpu
      <4>1. SUFFICES ASSUME gpu = 0, machine.gpu # 0 PROVE FALSE
        BY <2>3
      <4>2. "late" \in causes' /\ ~ConfigOf(deploy[who]).requireGpu
        BY <2>1, <2>7, <4>1 DEF CfgOf
      <4>3. "late" \in Matters(deploy[who])
        BY <4>2 DEF Matters
      <4>4. "late" \in Matters(deploy.enrol) \union Matters(deploy.verify)
        BY <4>3 DEF TypeOK
      <4> QED BY <1>1, <4>2, <4>4 DEF Excused
    <3> QED BY <1>1, <1>2, <1>4, <2>1, <2>2, <2>7, <3>1, ConcludeFresh
  <2> QED BY <2>5, <2>6, <2>7
<1>10. CASE ReplacePart \/ PlugDisk
  <2>1. /\ UNCHANGED <<pc, who, sources, chosen, enrolled, verdict>>
        /\ causes \subseteq causes'
    BY <1>10, MachineTyped DEF Change, collection
  <2>2. Fresh
    BY <1>3, <2>1
  <2>3. ASSUME NEW w \in {"enrol", "verify"}
        PROVE  /\ \A k \in StaticKeys : StaticSources(deploy[w])'[k] = StaticSources(deploy[w])[k]
               /\ ChosenBy(deploy[w])' = ChosenBy(deploy[w])
               /\ DiskNow(deploy[w])' = DiskNow(deploy[w])
               /\ machine.gpu' = machine.gpu
    <3>1. causes' \intersect Matters(deploy[w]) = {}
      BY <1>1 DEF Excused, Matters
    <3>2. deploy[w] \in Station
      BY EndsTyped
    <3> QED BY <1>1, <1>10, <3>1, <3>2, Unmoved
  <2>4. who \in {"enrol", "verify"}
    BY DEF TypeOK
  <2> QED BY <1>1, <2>1, <2>2, <2>3, <2>4 DEF Fresh, FreshCollection, FreshLicense
<1>11. CASE GpuComesAndGoes \/ UNCHANGED vars
  <2>1. UNCHANGED <<machine, dtInProc, pc, who, sources, chosen, enrolled, verdict, causes>>
    BY <1>11 DEF GpuComesAndGoes, vars, collection
  <2>2. Fresh
    BY <1>3, <2>1
  <2> QED BY <1>1, <2>1, <2>2, SameNow DEF Fresh, FreshCollection, FreshLicense
<1> QED BY <1>5, <1>6, <1>7, <1>8, <1>9, <1>10, <1>11 DEF Next

(* A device enrolled and verified as the documents ask does not lose its   *)
(* license to a slow nvidia-smi, a driver loaded late, other disks or      *)
(* other network cards: a fingerprint_mismatch has a cause in something    *)
(* the license is bound to (fingerprint.go:250-314, 379-412, 468-496).     *)
THEOREM MismatchIsCaused == Spec => []MismatchHasACause
<1>1. TypeOK /\ CauseInv => MismatchHasACause
  BY DeployedView DEF CauseInv, Fresh, Excused, MismatchHasACause
<1> QED BY <1>1, TypeCorrect, PartsInit, PartsStep, CauseInit, CauseStep, PTL DEF Spec
=============================================================================
