-------------------------- MODULE AttachmentsProofs --------------------------
(***************************************************************************)
(* Theorems about Attachments, for any number of files, messages,          *)
(* scanners, sweepers and faults.  What makes a bound file safe is that    *)
(* each process that holds a file knows something about its row: a scanner *)
(* that the row is still being scanned or was expired, a sweeper that      *)
(* deletes that it was expired, which is final.                            *)
(***************************************************************************)
EXTENDS Attachments, FiniteSetTheorems, TLAPS

-----------------------------------------------------------------------------
(* What a scanner knows about the file it works on. *)
ScansSound ==
  \A w \in Scanners :
    LET f == scan[w].file
        next == scan[w].next
    IN /\ (next = "idle") <=> (f = None)
       /\ next # "idle" => row[f].state \in {"SCANNING", "EXPIRED"}
       /\ next \in {"promote", "record", "CLEAN"} => Nature[f] = "fit"
       /\ next \in {"record", "CLEAN"} => bytes[f] = "clean" \/ row[f].state = "EXPIRED"
       /\ next = "CLEAN" => "CLEAN" \in verdicts[f]

ScansAlone ==
  \A w, v \in Scanners : w # v /\ scan[w].file = scan[v].file => scan[w].file = None

(* What a sweeper knows: it expires only what is unbound, and deletes only what is
   expired. *)
SweepsSound ==
  \A s \in Sweepers :
    /\ (sweep[s].next = "idle") <=> (sweep[s].file = None)
    /\ sweep[s].next = "mark" => sweep[s].from \in Unbound
    /\ sweep[s].next \in {"quarantine", "clean"} => row[sweep[s].file].state = "EXPIRED"

CleanSound ==
  \A f \in Files : row[f].state \in {"CLEAN", "BOUND"} =>
    /\ Nature[f] = "fit" /\ "CLEAN" \in verdicts[f]
    /\ row[f].clean /\ bytes[f] = "clean"

Inv == TypeOK /\ ScansSound /\ ScansAlone /\ SweepsSound /\ CleanSound

(* A step moves rows only out of states that are not terminal. *)
Final == \A f \in Files : row[f].state \in Terminal => row'[f] = row[f]

LEMMA InitInv == ASSUME Init PROVE Inv
  BY FaultsAssumption
  DEF Init, Inv, TypeOK, ScansSound, ScansAlone, SweepsSound, CleanSound, NoRow, IdleScan,
      IdleSweep, States, Unbound, Terminal

-----------------------------------------------------------------------------
(* One lemma per kind of step, with a step for each conjunct that it can disturb. *)

LEMMA GrantInv == ASSUME Inv, NEW f \in Files, Grant(f) PROVE Inv' /\ Final
<1>1. TypeOK'
  BY ThreadAssumption DEF Grant, Inv, TypeOK, ScansSound, SweepsSound, States,
     Unbound, Terminal
<1>2. ScansSound'
  BY ThreadAssumption DEF Grant, Inv, TypeOK, ScansSound, ScansAlone, SweepsSound,
     States, Unbound, Terminal
<1>3. SweepsSound'
  BY ThreadAssumption DEF Grant, Inv, TypeOK, ScansSound, SweepsSound, States,
     Unbound, Terminal
<1>4. CleanSound'
  BY ThreadAssumption DEF Grant, Inv, TypeOK, ScansSound, SweepsSound, CleanSound,
     States, Unbound, Terminal
<1>5. Final
  BY DEF Grant, Inv, TypeOK, ScansSound, SweepsSound, Final, States, Unbound, Terminal
<1>6. ScansAlone'
  BY DEF Grant, Inv, ScansAlone
<1> QED BY <1>1, <1>2, <1>3, <1>4, <1>5, <1>6 DEF Inv

LEMMA UploadInv == ASSUME Inv, NEW f \in Files, Upload(f) PROVE Inv' /\ Final
<1>1. TypeOK'
  BY ThreadAssumption DEF Upload, Inv, TypeOK, ScansSound, SweepsSound, States,
     Unbound, Terminal
<1>2. ScansSound'
  BY ThreadAssumption DEF Upload, Inv, TypeOK, ScansSound, ScansAlone, SweepsSound,
     States, Unbound, Terminal
<1>3. CleanSound'
  BY ThreadAssumption DEF Upload, Inv, TypeOK, ScansSound, SweepsSound, CleanSound,
     States, Unbound, Terminal
<1>4. (ScansAlone /\ SweepsSound)' /\ Final
  BY DEF Upload, Inv, ScansAlone, SweepsSound, Final
<1> QED BY <1>1, <1>2, <1>3, <1>4 DEF Inv

LEMMA AnnounceInv == ASSUME Inv, NEW f \in Files, Announce(f) PROVE Inv' /\ Final
<1>1. TypeOK'
  BY ThreadAssumption DEF Announce, Inv, TypeOK, ScansSound, SweepsSound, States,
     Unbound, Terminal
<1>2. ScansSound'
  BY ThreadAssumption DEF Announce, Inv, TypeOK, ScansSound, ScansAlone, SweepsSound,
     States, Unbound, Terminal
<1>3. SweepsSound'
  BY ThreadAssumption DEF Announce, Inv, TypeOK, ScansSound, SweepsSound, States,
     Unbound, Terminal
<1>4. CleanSound'
  BY ThreadAssumption DEF Announce, Inv, TypeOK, ScansSound, SweepsSound, CleanSound,
     States, Unbound, Terminal
<1>5. Final
  BY DEF Announce, Inv, TypeOK, ScansSound, SweepsSound, Final, States, Unbound,
     Terminal
<1>6. ScansAlone'
  BY DEF Announce, Inv, ScansAlone
<1> QED BY <1>1, <1>2, <1>3, <1>4, <1>5, <1>6 DEF Inv

LEMMA BindInv == ASSUME Inv, NEW f \in Files, NEW m \in Messages, Bind(f, m) PROVE Inv' /\ Final
<1>1. TypeOK'
  BY ThreadAssumption DEF Bind, Bindable, Attached, Inv, TypeOK, ScansSound,
     SweepsSound, States, Unbound, Terminal
<1>2. ScansSound'
  BY ThreadAssumption DEF Bind, Bindable, Attached, Inv, TypeOK, ScansSound,
     ScansAlone, SweepsSound, States, Unbound, Terminal
<1>3. SweepsSound'
  BY ThreadAssumption DEF Bind, Bindable, Attached, Inv, TypeOK, ScansSound,
     SweepsSound, States, Unbound, Terminal
<1>4. CleanSound'
  BY ThreadAssumption DEF Bind, Bindable, Attached, Inv, TypeOK, ScansSound,
     SweepsSound, CleanSound, States, Unbound, Terminal
<1>5. Final
  BY DEF Bind, Bindable, Attached, Inv, TypeOK, ScansSound, SweepsSound, Final,
     States, Unbound, Terminal
<1>6. ScansAlone'
  BY DEF Bind, Inv, ScansAlone
<1> QED BY <1>1, <1>2, <1>3, <1>4, <1>5, <1>6 DEF Inv

LEMMA LapseInv == ASSUME Inv, NEW f \in Files, Lapse(f) PROVE Inv' /\ Final
<1>1. TypeOK'
  BY ThreadAssumption DEF Lapse, Inv, TypeOK, ScansSound, SweepsSound, States,
     Unbound, Terminal
<1>2. (ScansSound /\ ScansAlone /\ SweepsSound /\ CleanSound)' /\ Final
  BY DEF Lapse, Inv, ScansSound, ScansAlone, SweepsSound, CleanSound, Final
<1> QED BY <1>1, <1>2 DEF Inv

LEMMA ClaimInv == ASSUME Inv, NEW w \in Scanners, NEW f \in Files, Claim(w, f) PROVE Inv' /\ Final
<1>1. TypeOK'
  BY ThreadAssumption DEF Claim, Waiting, Inv, TypeOK, ScansSound, SweepsSound,
     States, Unbound, Terminal
<1>2. ScansSound'
  BY ThreadAssumption DEF Claim, Waiting, Inv, TypeOK, ScansSound, ScansAlone,
     SweepsSound, States, Unbound, Terminal
<1>3. ScansAlone'
  BY DEF Claim, Waiting, Inv, TypeOK, ScansSound, ScansAlone
<1>4. SweepsSound'
  BY ThreadAssumption DEF Claim, Waiting, Inv, TypeOK, ScansSound, SweepsSound,
     States, Unbound, Terminal
<1>5. CleanSound'
  BY ThreadAssumption DEF Claim, Waiting, Inv, TypeOK, ScansSound, SweepsSound,
     CleanSound, States, Unbound, Terminal
<1>6. Final
  BY DEF Claim, Waiting, Inv, TypeOK, ScansSound, SweepsSound, Final, States, Unbound,
     Terminal
<1> QED BY <1>1, <1>2, <1>3, <1>4, <1>5, <1>6 DEF Inv

LEMMA ScanFailsInv == ASSUME Inv, NEW w \in Scanners, ScanFails(w) PROVE Inv' /\ Final
<1>1. TypeOK'
  BY ThreadAssumption, FaultsAssumption DEF ScanFails, Recorded, Fault, Inv, TypeOK,
     ScansSound, SweepsSound, States, Unbound, Terminal
<1>2. ScansSound'
  BY ThreadAssumption DEF ScanFails, Recorded, Fault, Inv, TypeOK, ScansSound,
     ScansAlone, SweepsSound, States, Unbound, Terminal
<1>3. ScansAlone'
  BY DEF ScanFails, Recorded, Fault, Inv, TypeOK, ScansSound, ScansAlone
<1>4. CleanSound'
  BY ThreadAssumption DEF ScanFails, Recorded, Fault, Inv, TypeOK, ScansSound,
     SweepsSound, CleanSound, States, Unbound, Terminal
<1>5. SweepsSound' /\ Final
  BY DEF ScanFails, Recorded, Inv, SweepsSound, Final
<1> QED BY <1>1, <1>2, <1>3, <1>4, <1>5 DEF Inv

LEMMA ScanRefusesInv == ASSUME Inv, NEW w \in Scanners, ScanRefuses(w) PROVE Inv' /\ Final
<1>1. TypeOK'
  BY ThreadAssumption DEF ScanRefuses, Recorded, Inv, TypeOK, ScansSound, SweepsSound,
     States, Unbound, Terminal
<1>2. ScansSound'
  BY ThreadAssumption DEF ScanRefuses, Recorded, Inv, TypeOK, ScansSound, ScansAlone,
     SweepsSound, States, Unbound, Terminal
<1>3. ScansAlone'
  BY DEF ScanRefuses, Recorded, Inv, TypeOK, ScansSound, ScansAlone
<1>4. CleanSound'
  BY ThreadAssumption DEF ScanRefuses, Recorded, Inv, TypeOK, ScansSound, SweepsSound,
     CleanSound, States, Unbound, Terminal
<1>5. SweepsSound' /\ Final
  BY DEF ScanRefuses, Recorded, Inv, SweepsSound, Final
<1> QED BY <1>1, <1>2, <1>3, <1>4, <1>5 DEF Inv

LEMMA ScanPassesInv == ASSUME Inv, NEW w \in Scanners, ScanPasses(w) PROVE Inv' /\ Final
<1>1. TypeOK'
  BY ThreadAssumption DEF ScanPasses, Inv, TypeOK, ScansSound, SweepsSound, States,
     Unbound, Terminal
<1>2. ScansSound'
  BY ThreadAssumption DEF ScanPasses, Inv, TypeOK, ScansSound, ScansAlone,
     SweepsSound, States, Unbound, Terminal
<1>3. ScansAlone'
  BY DEF ScanPasses, Inv, TypeOK, ScansSound, ScansAlone
<1>4. (SweepsSound /\ CleanSound)' /\ Final
  BY DEF ScanPasses, Inv, SweepsSound, CleanSound, Final
<1> QED BY <1>1, <1>2, <1>3, <1>4 DEF Inv

LEMMA PromoteInv == ASSUME Inv, NEW w \in Scanners, Promote(w) PROVE Inv' /\ Final
<1>1. TypeOK'
  BY ThreadAssumption DEF Promote, Inv, TypeOK, ScansSound, SweepsSound, States,
     Unbound, Terminal
<1>2. ScansSound'
  BY ThreadAssumption DEF Promote, Inv, TypeOK, ScansSound, ScansAlone, SweepsSound,
     States, Unbound, Terminal
<1>3. ScansAlone'
  BY DEF Promote, Inv, TypeOK, ScansSound, ScansAlone
<1>4. CleanSound'
  BY ThreadAssumption DEF Promote, Inv, TypeOK, ScansSound, SweepsSound, CleanSound,
     States, Unbound, Terminal
<1>5. SweepsSound' /\ Final
  BY DEF Promote, Inv, SweepsSound, Final
<1> QED BY <1>1, <1>2, <1>3, <1>4, <1>5 DEF Inv

LEMMA PromotionFailsInv == ASSUME Inv, NEW w \in Scanners, PromotionFails(w) PROVE Inv' /\ Final
<1>1. TypeOK'
  BY ThreadAssumption, FaultsAssumption DEF PromotionFails, Fault, Inv, TypeOK,
     ScansSound, SweepsSound, States, Unbound, Terminal
<1>2. ScansSound'
  BY ThreadAssumption DEF PromotionFails, Fault, Inv, TypeOK, ScansSound, ScansAlone,
     SweepsSound, States, Unbound, Terminal
<1>3. ScansAlone'
  BY DEF PromotionFails, Fault, Inv, TypeOK, ScansSound, ScansAlone
<1>4. (SweepsSound /\ CleanSound)' /\ Final
  BY DEF PromotionFails, Inv, SweepsSound, CleanSound, Final
<1> QED BY <1>1, <1>2, <1>3, <1>4 DEF Inv

LEMMA RecordCleanInv == ASSUME Inv, NEW w \in Scanners, RecordClean(w) PROVE Inv' /\ Final
<1>1. TypeOK'
  BY ThreadAssumption DEF RecordClean, Recorded, Inv, TypeOK, ScansSound, SweepsSound,
     States, Unbound, Terminal
<1>2. ScansSound'
  BY ThreadAssumption DEF RecordClean, Recorded, Inv, TypeOK, ScansSound, ScansAlone,
     SweepsSound, States, Unbound, Terminal
<1>3. ScansAlone'
  BY DEF RecordClean, Recorded, Inv, TypeOK, ScansSound, ScansAlone
<1>4. CleanSound'
  BY ThreadAssumption DEF RecordClean, Recorded, Inv, TypeOK, ScansSound, SweepsSound,
     CleanSound, States, Unbound, Terminal
<1>5. SweepsSound' /\ Final
  BY DEF RecordClean, Recorded, Inv, SweepsSound, Final
<1> QED BY <1>1, <1>2, <1>3, <1>4, <1>5 DEF Inv

LEMMA SettleInv == ASSUME Inv, NEW w \in Scanners, Settle(w) PROVE Inv' /\ Final
<1>1. TypeOK'
  <2>1. scan[w].file \in Files
    BY ThreadAssumption DEF Settle, Inv, TypeOK, ScansSound
  <2>2. /\ row' \in [Files -> [state: States, clean: BOOLEAN, message: Messages \cup {None}]]
        /\ \A f \in Files :
             /\ (row'[f].message # None) <=> (row'[f].state = "BOUND")
             /\ row'[f].clean => row'[f].state \in {"CLEAN", "BOUND", "EXPIRED"}
    <3> DEFINE f == scan[w].file
    <3>1. row[f].state = "SCANNING" => row[f].message = None /\ ~row[f].clean
      BY <2>1 DEF Inv, TypeOK
    <3>2. CASE row[f].state = "SCANNING" /\ scan[w].next = "CLEAN"
      <4>1. row' = [row EXCEPT ![f].state = "CLEAN", ![f].clean = TRUE]
        BY <3>2 DEF Settle
      <4> QED BY <2>1, <3>1, <3>2, <4>1 DEF Inv, TypeOK, States, Unbound
    <3>3. CASE row[f].state = "SCANNING" /\ scan[w].next # "CLEAN"
      <4>1. PICK to \in {"QUARANTINED", "INFECTED", "REJECTED"} :
              row' = [row EXCEPT ![f].state = to]
        BY <3>3 DEF Settle, Moves
      <4> QED BY <2>1, <3>1, <3>3, <4>1 DEF Inv, TypeOK, States, Unbound, Terminal
    <3>4. CASE row[f].state # "SCANNING"
      BY <3>4 DEF Settle, Moves, Inv, TypeOK
    <3> QED BY <3>2, <3>3, <3>4
  <2> QED BY <2>2 DEF Settle, IdleScan, Inv, TypeOK
<1>2. ScansSound'
  BY ThreadAssumption DEF Settle, Moves, IdleScan, Inv, TypeOK, ScansSound,
     ScansAlone, SweepsSound, States, Unbound, Terminal
<1>3. ScansAlone'
  BY DEF Settle, Moves, IdleScan, Inv, TypeOK, ScansSound, ScansAlone
<1>4. SweepsSound'
  BY ThreadAssumption DEF Settle, Moves, IdleScan, Inv, TypeOK, ScansSound,
     SweepsSound, States, Unbound, Terminal
<1>5. CleanSound'
  BY ThreadAssumption DEF Settle, Moves, IdleScan, Inv, TypeOK, ScansSound,
     SweepsSound, CleanSound, States, Unbound, Terminal
<1>6. Final
  BY DEF Settle, Moves, IdleScan, Inv, TypeOK, ScansSound, SweepsSound, Final, States,
     Unbound, Terminal
<1> QED BY <1>1, <1>2, <1>3, <1>4, <1>5, <1>6 DEF Inv

LEMMA ScannerDiesInv == ASSUME Inv, NEW w \in Scanners, ScannerDies(w) PROVE Inv' /\ Final
<1>1. TypeOK'
  BY ThreadAssumption, FaultsAssumption DEF ScannerDies, Fault, IdleScan, Inv, TypeOK,
     ScansSound, SweepsSound, States, Unbound, Terminal
<1>2. ScansSound'
  BY ThreadAssumption DEF ScannerDies, Fault, IdleScan, Inv, TypeOK, ScansSound,
     ScansAlone, SweepsSound, States, Unbound, Terminal
<1>3. ScansAlone'
  BY DEF ScannerDies, Fault, IdleScan, Inv, TypeOK, ScansSound, ScansAlone
<1>4. (SweepsSound /\ CleanSound)' /\ Final
  BY DEF ScannerDies, Inv, SweepsSound, CleanSound, Final
<1> QED BY <1>1, <1>2, <1>3, <1>4 DEF Inv

LEMMA SeeInv == ASSUME Inv, NEW s \in Sweepers, NEW f \in Files, See(s, f) PROVE Inv' /\ Final
<1>1. TypeOK'
  BY ThreadAssumption DEF See, Expirable, Inv, TypeOK, ScansSound, SweepsSound,
     States, Unbound, Terminal
<1>2. SweepsSound'
  BY ThreadAssumption DEF See, Expirable, Inv, TypeOK, ScansSound, SweepsSound,
     States, Unbound, Terminal
<1>3. (ScansSound /\ ScansAlone /\ CleanSound)' /\ Final
  BY DEF See, Inv, ScansSound, ScansAlone, CleanSound, Final
<1> QED BY <1>1, <1>2, <1>3 DEF Inv

LEMMA MarkInv == ASSUME Inv, NEW s \in Sweepers, Mark(s) PROVE Inv' /\ Final
<1>1. TypeOK'
  BY ThreadAssumption DEF Mark, Moves, IdleSweep, Inv, TypeOK, ScansSound,
     SweepsSound, States, Unbound, Terminal
<1>2. ScansSound'
  BY ThreadAssumption DEF Mark, Moves, IdleSweep, Inv, TypeOK, ScansSound, ScansAlone,
     SweepsSound, States, Unbound, Terminal
<1>3. SweepsSound'
  BY ThreadAssumption DEF Mark, Moves, IdleSweep, Inv, TypeOK, ScansSound,
     SweepsSound, States, Unbound, Terminal
<1>4. CleanSound'
  BY ThreadAssumption DEF Mark, Moves, IdleSweep, Inv, TypeOK, ScansSound,
     SweepsSound, CleanSound, States, Unbound, Terminal
<1>5. Final
  <2>1. sweep[s].from \in Unbound
    BY Zenon DEF Mark, Inv, SweepsSound
  <2>2. sweep[s].from \notin Terminal
    BY <2>1 DEF Unbound, Terminal
  <2>3. row \in [Files -> [state : States, clean : BOOLEAN, message : Messages \cup {None}]]
    BY DEF Inv, TypeOK
  <2>4. row' = IF row[sweep[s].file].state = sweep[s].from
                 THEN [row EXCEPT ![sweep[s].file].state = "EXPIRED"] ELSE row
    BY Zenon DEF Mark, Moves
  <2>5. \A f \in Files : row'[f] # row[f] =>
          f = sweep[s].file /\ row[f].state = sweep[s].from
    BY <2>3, <2>4
  <2> QED BY <2>2, <2>5 DEF Final
<1>6. ScansAlone'
  BY DEF Mark, Inv, ScansAlone
<1> QED BY <1>1, <1>2, <1>3, <1>4, <1>5, <1>6 DEF Inv

LEMMA DeleteInv == ASSUME Inv, NEW s \in Sweepers, Delete(s) PROVE Inv' /\ Final
<1>1. TypeOK'
  BY ThreadAssumption DEF Delete, AfterDelete, IdleSweep, Inv, TypeOK, ScansSound,
     SweepsSound, States, Unbound, Terminal
<1>2. ScansSound'
  BY ThreadAssumption DEF Delete, AfterDelete, IdleSweep, Inv, TypeOK, ScansSound,
     ScansAlone, SweepsSound, States, Unbound, Terminal
<1>3. SweepsSound'
  BY ThreadAssumption DEF Delete, AfterDelete, IdleSweep, Inv, TypeOK, ScansSound,
     SweepsSound, States, Unbound, Terminal
<1>4. CleanSound'
  BY ThreadAssumption DEF Delete, AfterDelete, IdleSweep, Inv, TypeOK, ScansSound,
     SweepsSound, CleanSound, States, Unbound, Terminal
<1>5. ScansAlone' /\ Final
  BY DEF Delete, Inv, ScansAlone, Final
<1> QED BY <1>1, <1>2, <1>3, <1>4, <1>5 DEF Inv

LEMMA DeleteFailsInv == ASSUME Inv, NEW s \in Sweepers, DeleteFails(s) PROVE Inv' /\ Final
<1>1. TypeOK'
  BY ThreadAssumption, FaultsAssumption DEF DeleteFails, AfterDelete, Fault,
     IdleSweep, Inv, TypeOK, ScansSound, SweepsSound, States, Unbound, Terminal
<1>2. SweepsSound'
  BY ThreadAssumption DEF DeleteFails, AfterDelete, Fault, IdleSweep, Inv, TypeOK,
     ScansSound, SweepsSound, States, Unbound, Terminal
<1>3. (ScansSound /\ ScansAlone /\ CleanSound)' /\ Final
  BY DEF DeleteFails, Inv, ScansSound, ScansAlone, CleanSound, Final
<1> QED BY <1>1, <1>2, <1>3 DEF Inv

LEMMA SweeperDiesInv == ASSUME Inv, NEW s \in Sweepers, SweeperDies(s) PROVE Inv' /\ Final
<1>1. TypeOK'
  BY ThreadAssumption, FaultsAssumption DEF SweeperDies, Fault, IdleSweep, Inv,
     TypeOK, ScansSound, SweepsSound, States, Unbound, Terminal
<1>2. SweepsSound'
  BY ThreadAssumption DEF SweeperDies, Fault, IdleSweep, Inv, TypeOK, ScansSound,
     SweepsSound, States, Unbound, Terminal
<1>3. (ScansSound /\ ScansAlone /\ CleanSound)' /\ Final
  BY DEF SweeperDies, Inv, ScansSound, ScansAlone, CleanSound, Final
<1> QED BY <1>1, <1>2, <1>3 DEF Inv

LEMMA StutterInv == ASSUME Inv, UNCHANGED vars PROVE Inv' /\ Final
  BY DEF vars, Inv, TypeOK, ScansSound, ScansAlone, SweepsSound, CleanSound, Final

LEMMA StepInv == ASSUME Inv, [Next]_vars PROVE Inv' /\ Final
  BY StutterInv, GrantInv, UploadInv, AnnounceInv, BindInv, LapseInv, ClaimInv, ScanFailsInv,
     ScanRefusesInv, ScanPassesInv, PromoteInv, PromotionFailsInv, RecordCleanInv, SettleInv,
     ScannerDiesInv, SeeInv, MarkInv, DeleteInv, DeleteFailsInv, SweeperDiesInv
     DEF Next, ScanStep

LEMMA InvAlways == Spec => []Inv
<1>1. Init => Inv
  BY InitInv
<1>2. Inv /\ [Next]_vars => Inv'
  BY StepInv
<1> QED BY <1>1, <1>2, PTL DEF Spec

-----------------------------------------------------------------------------
(* Rows, processes and the columns that belong together keep their type. *)
THEOREM TypeCorrect == Spec => []TypeOK
  BY InvAlways, PTL DEF Inv

(* What recipients can reach was scanned and found fit, and stays in clean storage,
   with any number of scanners and sweepers, alive or dead. *)
THEOREM ReachableWasScanned == Spec => []ReachableIsScanned
<1>1. Inv => ReachableIsScanned
  BY DEF Inv, CleanSound, ReachableIsScanned
<1> QED BY <1>1, InvAlways, PTL

(* No two workers scan one file. *)
THEOREM FilesAreScannedOnce == Spec => []OneScanPerFile
<1>1. ASSUME Inv, NEW f \in Files PROVE Cardinality({w \in Scanners : scan[w].file = f}) <= 1
  <2> DEFINE at == {w \in Scanners : scan[w].file = f}
  <2>1. CASE at = {}
    BY <2>1, FS_EmptySet
  <2>2. CASE at # {}
    <3>1. PICK w \in at : TRUE
      BY <2>2
    <3>2. at = {w}
      BY <1>1, <3>1, ThreadAssumption DEF Inv, ScansAlone
    <3>3. Cardinality({w}) = 1
      BY FS_Singleton
    <3> HIDE DEF at
    <3>4. Cardinality(at) = 1
      BY <3>2, <3>3
    <3> USE DEF at
    <3> QED BY <3>4
  <2> QED BY <2>1, <2>2
<1>2. Inv => OneScanPerFile
  BY <1>1 DEF OneScanPerFile
<1> QED BY <1>2, InvAlways, PTL

(* No late worker takes back a verdict, a binding or an expiry. *)
THEOREM NothingFinalIsUndone == Spec => TerminalIsFinal
<1>1. Inv /\ [Next]_vars => [Final]_vars
  BY StepInv
<1> QED BY <1>1, InvAlways, PTL DEF Spec, TerminalIsFinal, Final
=============================================================================
