-------------------------- MODULE AtomicFileProofs --------------------------
(***************************************************************************)
(* Proofs about AtomicFile, for any number of writers and of documents.    *)
(***************************************************************************)
EXTENDS AtomicFile, TLAPS

LEMMA TypeInit == Init => TypeOK
BY FileSystemAssumption DEF Init, TypeOK, Contents, Steps

LEMMA FinishType ==
  ASSUME TypeOK, NEW w \in Writers, NEW r \in {"none", "ok", "error"},
         Finish(w, r),
         visible' \in Contents, onDisk' \in SUBSET Contents,
         visible' \in onDisk', litter' \in Nat
  PROVE  TypeOK'
BY FileSystemAssumption DEF Finish, TypeOK, Steps

LEMMA TypeStep == TypeOK /\ [Next]_vars => TypeOK'
<1> SUFFICES ASSUME TypeOK, [Next]_vars PROVE TypeOK'
  OBVIOUS
<1> USE FileSystemAssumption
<1>1. ASSUME NEW w \in Writers, Begin(w) PROVE TypeOK'
  BY <1>1 DEF Begin, TypeOK, Steps, files
<1>2. ASSUME NEW w \in Writers, GoPrepare(w) PROVE TypeOK'
  <2>1. ASSUME NEW from \in Steps, NEW to \in Steps \ {"idle", "create"},
               NEW f \in {"open", "written", "synced"},
               from # "idle", Proceed(w, from, to, f)
        PROVE  TypeOK'
    BY <2>1 DEF Proceed, TypeOK, Steps, files
  <2>2. QED BY <1>2, <2>1 DEF GoPrepare, Steps
<1>3. ASSUME NEW w \in Writers, NodePrepare(w) PROVE TypeOK'
  <2>1. ASSUME NEW from \in Steps, NEW to \in Steps \ {"idle", "create"},
               NEW f \in {"open", "written", "synced"},
               from # "idle", Proceed(w, from, to, f)
        PROVE  TypeOK'
    BY <2>1 DEF Proceed, TypeOK, Steps, files
  <2>2. QED BY <1>3, <2>1 DEF NodePrepare, Steps
<1>4. ASSUME NEW w \in Writers, Rename(w) PROVE TypeOK'
  <2>1. /\ visible' \in Contents /\ onDisk' \in SUBSET Contents
        /\ visible' \in onDisk' /\ litter' \in Nat
    BY <1>4 DEF Rename, Replaced, TypeOK, Contents
  <2>2. CASE w \in NodeWriters
    BY <1>4, <2>1, <2>2 DEF Rename, TypeOK, Steps
  <2>3. CASE w \notin NodeWriters
    BY <1>4, <2>1, <2>3, FinishType DEF Rename
  <2>4. QED BY <2>2, <2>3
<1>5. ASSUME NEW w \in Writers, CleanUp(w) PROVE TypeOK'
  BY <1>5, FinishType DEF CleanUp, files, TypeOK
<1>6. ASSUME NEW w \in Writers, Fail(w) PROVE TypeOK'
  BY <1>6, FinishType DEF Fail, TypeOK
<1>7. ASSUME NEW w \in Writers, Kill(w) PROVE TypeOK'
  BY <1>7, FinishType DEF Kill, TypeOK
<1>8. CASE WriteBack
  BY <1>8 DEF WriteBack, TypeOK
<1>9. CASE PowerLoss
  <2>1. visible' \in Contents /\ onDisk' \in SUBSET Contents /\ visible' \in onDisk'
    BY <1>9 DEF PowerLoss, TypeOK
  <2>2. litter' \in Nat
    <3>1. PICK n : litter' \in litter..n
      BY <1>9 DEF PowerLoss
    <3>2. litter \in Nat
      BY DEF TypeOK
    <3>3. QED BY <3>1, <3>2
  <2>3. QED BY <1>9, <2>1, <2>2 DEF PowerLoss, TypeOK, Steps
<1>10. CASE UNCHANGED vars
  BY <1>10 DEF vars, TypeOK
<1>11. QED
  BY <1>1, <1>2, <1>3, <1>4, <1>5, <1>6, <1>7, <1>8, <1>9, <1>10 DEF Next

(* Every variable keeps its type, whoever writes and whatever fails.       *)
THEOREM TypeCorrect == Spec => []TypeOK
<1>1. QED BY TypeInit, TypeStep, PTL DEF Spec

-----------------------------------------------------------------------------
(* What NeverHalfBaked needs to be inductive: no power loss can find a     *)
(* torn file, because whoever is about to rename has synced.               *)
GoSynced == \A w \in Writers \ NodeWriters : pc[w] = "rename" => temp[w] = "synced"
NothingTorn == NodeWriters = {} => Torn \notin onDisk

LEMMA SyncedInit == Init => GoSynced /\ NothingTorn
BY FileSystemAssumption DEF Init, GoSynced, NothingTorn

LEMMA SyncedStep ==
  ASSUME TypeOK, GoSynced, NothingTorn, [Next]_vars
  PROVE  GoSynced' /\ NothingTorn'
<1> USE FileSystemAssumption
<1>1. ASSUME NEW w \in Writers, Begin(w) PROVE GoSynced' /\ NothingTorn'
  BY <1>1 DEF Begin, TypeOK, GoSynced, NothingTorn, files
<1>2. ASSUME NEW w \in Writers, GoPrepare(w) PROVE GoSynced' /\ NothingTorn'
  <2>1. \A v \in Writers : pc'[v] = "rename" =>
          IF v = w THEN temp'[v] = "synced" ELSE pc[v] = "rename" /\ temp'[v] = temp[v]
    BY <1>2 DEF GoPrepare, Proceed, TypeOK, Steps
  <2>2. UNCHANGED onDisk
    BY <1>2 DEF GoPrepare, Proceed, files
  <2>3. QED BY <2>1, <2>2 DEF GoSynced, NothingTorn
<1>3. ASSUME NEW w \in Writers, NodePrepare(w) PROVE GoSynced' /\ NothingTorn'
  <2>1. \A v \in Writers \ NodeWriters : pc'[v] = pc[v] /\ temp'[v] = temp[v]
    BY <1>3 DEF NodePrepare, Proceed, TypeOK
  <2>2. UNCHANGED onDisk
    BY <1>3 DEF NodePrepare, Proceed, files
  <2>3. QED BY <2>1, <2>2 DEF GoSynced, NothingTorn
<1>4. ASSUME NEW w \in Writers, Rename(w) PROVE GoSynced' /\ NothingTorn'
  <2>1. \A v \in Writers : pc'[v] = "rename" => pc[v] = "rename" /\ temp'[v] = temp[v]
    BY <1>4 DEF Rename, Finish, TypeOK, Steps
  <2>2. value[w] # Torn
    BY DEF TypeOK
  <2>3. NodeWriters = {} => Torn \notin onDisk'
    BY <1>4, <2>2 DEF Rename, Replaced, GoSynced, NothingTorn
  <2>4. QED BY <2>1, <2>3 DEF GoSynced, NothingTorn
<1>5. ASSUME NEW w \in Writers, NEW r, Finish(w, r), UNCHANGED onDisk
      PROVE  GoSynced' /\ NothingTorn'
  BY <1>5 DEF Finish, TypeOK, GoSynced, NothingTorn
<1>6. CASE WriteBack
  BY <1>6 DEF WriteBack, TypeOK, GoSynced, NothingTorn
<1>7. CASE PowerLoss
  BY <1>7 DEF PowerLoss, TypeOK, GoSynced, NothingTorn
<1>8. CASE UNCHANGED vars
  BY <1>8 DEF vars, GoSynced, NothingTorn
<1>9. QED
  BY <1>1, <1>2, <1>3, <1>4, <1>5, <1>6, <1>7, <1>8
     DEF Next, CleanUp, Fail, Kill, files

LEMMA SyncedAlways == Spec => [](GoSynced /\ NothingTorn)
<1>1. TypeOK /\ (GoSynced /\ NothingTorn) /\ [Next]_vars => (GoSynced /\ NothingTorn)'
  BY SyncedStep
<1>2. QED BY <1>1, SyncedInit, TypeCorrect, PTL DEF Spec

(* With Go writers only, nobody ever reads a torn file, whatever fails,    *)
(* whoever is killed and whenever the power goes.                          *)
THEOREM GoNeverHalfBaked ==
  ASSUME NodeWriters = {} PROVE Spec => []NeverHalfBaked
<1>1. TypeOK /\ NothingTorn => NeverHalfBaked
  BY DEF TypeOK, NothingTorn, NeverHalfBaked
<1>2. QED BY <1>1, SyncedAlways, TypeCorrect, PTL

(* With any writers, only the rename of a Node writer can tear the file.   *)
THEOREM TornByNodeOnly == Spec => OnlyNodeTears
<1>1. ASSUME TypeOK, GoSynced, [Next]_vars, Torn \in onDisk', Torn \notin onDisk
      PROVE  NodeRenames
  <2> USE FileSystemAssumption
  <2>1. ASSUME NEW w \in Writers, Rename(w) PROVE NodeRenames
    <3>1. value[w] # Torn
      BY <1>1 DEF TypeOK
    <3>2. temp[w] # "synced"
      BY <1>1, <2>1, <3>1 DEF Rename, Replaced
    <3>3. w \in NodeWriters
      BY <1>1, <2>1, <3>2 DEF Rename, GoSynced
    <3>4. pc[w] = "rename" /\ pc'[w] = "clean"
      BY <1>1, <2>1, <3>3 DEF Rename, TypeOK
    <3>5. QED BY <3>3, <3>4 DEF NodeRenames
  <2>2. CASE PowerLoss
    BY <1>1, <2>2 DEF PowerLoss
  <2>3. CASE WriteBack
    BY <1>1, <2>3 DEF WriteBack, TypeOK
  <2>4. ASSUME NEW w \in Writers, GoPrepare(w) \/ NodePrepare(w)
        PROVE  UNCHANGED onDisk
    BY <2>4 DEF GoPrepare, NodePrepare, Proceed, files
  <2>5. ASSUME NEW w \in Writers, Begin(w) \/ CleanUp(w) \/ Fail(w) \/ Kill(w)
        PROVE  UNCHANGED onDisk
    BY <2>5 DEF Begin, CleanUp, Fail, Kill, files
  <2>6. CASE UNCHANGED vars
    BY <1>1, <2>6 DEF vars
  <2>7. QED BY <1>1, <2>1, <2>2, <2>3, <2>4, <2>5, <2>6 DEF Next
<1>2. TypeOK /\ GoSynced /\ [Next]_vars =>
        [~NodeRenames /\ Torn \notin onDisk => Torn \notin onDisk']_vars
  BY <1>1
<1>3. QED BY <1>2, SyncedAlways, TypeCorrect, PTL DEF Spec, OnlyNodeTears

(* With any writers, a file that has reached the disk never disappears.    *)
THEOREM FileIsNeverLost == Spec => NeverLost
<1>1. ASSUME TypeOK, [Next]_vars, Absent \notin onDisk
      PROVE  visible' # Absent /\ Absent \notin onDisk'
  <2> USE FileSystemAssumption
  <2>1. visible \in onDisk
    BY <1>1 DEF TypeOK
  <2>2. ASSUME NEW w \in Writers, Rename(w)
        PROVE  visible' # Absent /\ Absent \notin onDisk'
    <3>1. value[w] # Absent
      BY <1>1, <2>2 DEF Rename, TypeOK
    <3>2. QED BY <1>1, <2>2, <3>1 DEF Rename, Replaced
  <2>3. CASE PowerLoss
    BY <1>1, <2>3 DEF PowerLoss
  <2>4. CASE WriteBack
    BY <1>1, <2>1, <2>4 DEF WriteBack
  <2>5. ASSUME NEW w \in Writers, GoPrepare(w) \/ NodePrepare(w)
        PROVE  UNCHANGED <<visible, onDisk>>
    BY <2>5 DEF GoPrepare, NodePrepare, Proceed, files
  <2>6. ASSUME NEW w \in Writers, Begin(w) \/ CleanUp(w) \/ Fail(w) \/ Kill(w)
        PROVE  UNCHANGED <<visible, onDisk>>
    BY <2>6 DEF Begin, CleanUp, Fail, Kill, files
  <2>7. CASE UNCHANGED vars
    BY <1>1, <2>1, <2>7 DEF vars
  <2>8. QED BY <1>1, <2>1, <2>2, <2>3, <2>4, <2>5, <2>6, <2>7 DEF Next
<1>2. TypeOK /\ [Next]_vars =>
        [Absent \notin onDisk => visible' # Absent /\ Absent \notin onDisk']_vars
  BY <1>1
<1>3. QED BY <1>2, TypeCorrect, PTL DEF Spec, NeverLost

-----------------------------------------------------------------------------
(* The refinement: every step of the writers is a step of the cell.        *)
CellValues == Values \union (IF NodeWriters = {} THEN {} ELSE {Torn})
Wrote == [w \in Writers |-> pc[w] = "clean"]

LEMMA CellInitially == Init => Cell!CellInit
<1> SUFFICES ASSUME Init PROVE Cell!CellInit
  OBVIOUS
<1>1. \A w \in Writers : (pc[w] = "clean") = FALSE
  BY DEF Init
<1>2. QED BY <1>1, FileSystemAssumption DEF Init, Cell!CellInit

LEMMA CellReport ==
  ASSUME TypeOK, NEW w \in Writers, NEW r \in {"none", "error", "ok"},
         result' = [result EXCEPT ![w] = r], UNCHANGED <<visible, onDisk>>,
         r = "ok" => pc[w] = "clean",
         \A v \in Writers : pc'[v] = IF v = w THEN pc'[w] ELSE pc[v],
         pc'[w] # "clean"
  PROVE  Cell!CellNext
<1>1. [v \in Writers |-> pc'[v] = "clean"] =
        [[v \in Writers |-> pc[v] = "clean"] EXCEPT ![w] = FALSE]
  <2>1. (pc'[w] = "clean") = FALSE
    OBVIOUS
  <2>2. \A v \in Writers \ {w} : (pc'[v] = "clean") = (pc[v] = "clean")
    OBVIOUS
  <2>3. QED BY <2>1, <2>2, Zenon
<1>2. Cell!Report(w)
  BY <1>1 DEF Cell!Report
<1>3. QED BY <1>2 DEF Cell!CellNext

LEMMA CellStep ==
  ASSUME TypeOK, GoSynced, [Next]_vars
  PROVE  Cell!CellNext \/ UNCHANGED <<visible, onDisk, result, Wrote>>
<1> USE FileSystemAssumption
<1>1. ASSUME NEW w \in Writers, Begin(w) PROVE Cell!CellNext
  BY <1>1, CellReport DEF Begin, files, TypeOK
<1>2. ASSUME NEW w \in Writers, GoPrepare(w) \/ NodePrepare(w)
      PROVE  UNCHANGED <<visible, onDisk, result, Wrote>>
  <2>1. UNCHANGED <<visible, onDisk, result>>
    BY <1>2 DEF GoPrepare, NodePrepare, Proceed, files
  <2>2. \A v \in Writers : (pc'[v] = "clean") <=> (pc[v] = "clean")
    BY <1>2 DEF GoPrepare, NodePrepare, Proceed, TypeOK
  <2>3. QED BY <2>1, <2>2 DEF Wrote
<1>3. ASSUME NEW w \in Writers, Rename(w) PROVE Cell!CellNext
  <2>1. value[w] \in Values
    BY <1>3 DEF Rename, TypeOK
  <2>2. /\ visible' = value[w]
        /\ onDisk \union {value[w]} \subseteq onDisk'
        /\ onDisk' \subseteq onDisk \union CellValues
    BY <1>3, <2>1 DEF Rename, Replaced, CellValues, GoSynced
  <2>3. CASE w \in NodeWriters
    <3>1. [v \in Writers |-> pc'[v] = "clean"] =
            [[v \in Writers |-> pc[v] = "clean"] EXCEPT ![w] = TRUE]
      <4>1. (pc'[w] = "clean") = TRUE
        BY <1>3, <2>3 DEF Rename, TypeOK
      <4>2. \A v \in Writers \ {w} : pc'[v] = pc[v]
        BY <1>3, <2>3 DEF Rename, TypeOK
      <4>3. QED BY <4>1, <4>2, Zenon
    <3>2. UNCHANGED result
      BY <1>3, <2>3 DEF Rename
    <3>3. Cell!Replace(w)
      BY <2>1, <2>2, <3>1, <3>2 DEF Cell!Replace, CellValues
    <3>4. QED BY <3>3 DEF Cell!CellNext
  <2>4. CASE w \notin NodeWriters
    <3>1. result' = [result EXCEPT ![w] = "ok"]
      BY <1>3, <2>4 DEF Rename, Finish
    <3>2. \A v \in Writers : (pc'[v] = "clean") = (pc[v] = "clean")
      BY <1>3, <2>4 DEF Rename, Finish, TypeOK
    <3>3. [v \in Writers |-> pc'[v] = "clean"] = [v \in Writers |-> pc[v] = "clean"]
      BY <3>2
    <3>4. Cell!Replace(w)
      BY <2>1, <2>2, <3>1, <3>3 DEF Cell!Replace, CellValues
    <3>5. QED BY <3>4 DEF Cell!CellNext
  <2>5. QED BY <2>3, <2>4
<1>4. ASSUME NEW w \in Writers, NEW r \in {"none", "error", "ok"}, Finish(w, r),
             UNCHANGED <<visible, onDisk>>, r = "ok" => pc[w] = "clean"
      PROVE  Cell!CellNext
  BY <1>4, CellReport DEF Finish, TypeOK
<1>5. ASSUME NEW w \in Writers, CleanUp(w) \/ Fail(w) \/ Kill(w) PROVE Cell!CellNext
  BY <1>4, <1>5 DEF CleanUp, Fail, Kill, files
<1>6. CASE WriteBack
  <2>1. Cell!Settle
    BY <1>6 DEF WriteBack, Cell!Settle
  <2>2. QED BY <2>1 DEF Cell!CellNext
<1>7. CASE PowerLoss
  <2>1. \A w \in Writers : (pc'[w] = "clean") = FALSE
    BY <1>7 DEF PowerLoss
  <2>2. Cell!Revert
    BY <1>7, <2>1 DEF PowerLoss, Cell!Revert
  <2>3. QED BY <2>2 DEF Cell!CellNext
<1>8. CASE UNCHANGED vars
  BY <1>8 DEF vars, Wrote
<1>9. QED BY <1>1, <1>2, <1>3, <1>5, <1>6, <1>7, <1>8 DEF Next

(* The writers, their failures and the power implement the abstract cell.  *)
THEOREM WritersImplementFileCell == Spec => ImplementsFileCell
<1>1. TypeOK /\ GoSynced /\ [Next]_vars =>
        [Cell!CellNext]_<<visible, onDisk, result, Wrote>>
  BY CellStep
<1>2. QED
  BY <1>1, CellInitially, SyncedAlways, TypeCorrect, PTL
     DEF Spec, ImplementsFileCell, Cell!CellSpec, Wrote
=============================================================================
