----------------------------- MODULE Attachments -----------------------------
(***************************************************************************)
(* The attachment pipeline: grant, upload, announce, scan, promote, bind,  *)
(* expire.  A row of conversation.attachments says what an upload is; the  *)
(* object store holds its bytes.  The two are changed by separate calls,   *)
(* and every change of the row is one UPDATE ... WHERE state = <the state  *)
(* the caller expects>.                                                    *)
(*                                                                         *)
(* Scanners are the processes that run AttachmentScanSweep.process (the    *)
(* timer of an API instance, or a request that announces an upload);       *)
(* sweepers run AttachmentExpirySweep.run.  Either may die between two     *)
(* calls, the scanner or the store may be unreachable, a delete may fail.  *)
(***************************************************************************)
EXTENDS Naturals, FiniteSets

CONSTANTS Files, Messages, Scanners, Sweepers, None,
          Thread,     \* the conversation a file or a message belongs to
          Nature,     \* what a scan and the policy find the bytes of a file to be
          MaxFaults   \* bound on crashes, outages and failed deletes

ASSUME ThreadAssumption == /\ DOMAIN Thread = Files \cup Messages
                           /\ None \notin Files \cup Messages
ASSUME NatureAssumption == Nature \in [Files -> {"fit", "infected", "unfit"}]
ASSUME FaultsAssumption == MaxFaults \in Nat

VARIABLES row,       \* conversation.attachments: state, clean_key set, message_id
          due,       \* the files whose expires_at has passed
          bytes,     \* the object store: where the bytes of a file are
          verdicts,  \* conversation.attachment_scan_results
          scan,      \* per scanner: its file and what it does next
          sweep,     \* per sweeper: the record it read and what it does next
          faults

vars == <<row, due, bytes, verdicts, scan, sweep, faults>>

Unbound == {"UPLOAD_GRANTED", "QUARANTINED", "SCANNING", "CLEAN"}
Terminal == {"INFECTED", "REJECTED", "BOUND", "EXPIRED"}
States == {"NONE"} \cup Unbound \cup Terminal

NoRow == [state |-> "NONE", clean |-> FALSE, message |-> None]
IdleScan == [file |-> None, next |-> "idle"]
IdleSweep == [file |-> None, from |-> "NONE", clean |-> FALSE, next |-> "idle"]

Init ==
  /\ row = [f \in Files |-> NoRow]
  /\ due = {}
  /\ bytes = [f \in Files |-> "nowhere"]
  /\ verdicts = [f \in Files |-> {}]
  /\ scan = [w \in Scanners |-> IdleScan]
  /\ sweep = [s \in Sweepers |-> IdleSweep]
  /\ faults = 0

-----------------------------------------------------------------------------
(* The store *)

\* transition(): only if the row is still in the state expected
Moves(f, from, to) ==
  row' = IF row[f].state = from THEN [row EXCEPT ![f].state = to] ELSE row

\* mutant: a file in the middle of a scan is left alone
NotWhileScanned(f) == f \in due /\ row[f].state \in Unbound \ {"SCANNING"}

\* expirable(): unbound, past its deadline; isExpirable says the same of a state
Expirable(f) == f \in due /\ row[f].state \in Unbound

Fault == faults < MaxFaults /\ faults' = faults + 1

-----------------------------------------------------------------------------
(* The uploader *)

Grant(f) ==
  /\ row[f].state = "NONE"
  /\ row' = [row EXCEPT ![f].state = "UPLOAD_GRANTED"]
  /\ UNCHANGED <<due, bytes, verdicts, scan, sweep, faults>>

\* The bytes go straight to the store, once, while the row awaits them.
Upload(f) ==
  /\ row[f].state = "UPLOAD_GRANTED" /\ bytes[f] = "nowhere"
  /\ bytes' = [bytes EXCEPT ![f] = "quarantine"]
  /\ UNCHANGED <<row, due, verdicts, scan, sweep, faults>>

\* "I finished", believed without looking at the store; the scan that follows
\* in the same request is a scanner's Claim.
Announce(f) ==
  /\ row[f].state = "UPLOAD_GRANTED"
  /\ row' = [row EXCEPT ![f].state = "QUARANTINED"]
  /\ UNCHANGED <<due, bytes, verdicts, scan, sweep, faults>>

\* mutant: whatever is not refused may be attached
NotRefused(f) == row[f].state \in Unbound

Bindable(f) == row[f].state = "CLEAN"

Attached(f, m) == [row EXCEPT ![f].message = m, ![f].state = "BOUND"]

\* bind(), one statement per file of a message already sent: CLEAN, in the
\* same conversation, and from now on without a deadline.
Bind(f, m) ==
  /\ Bindable(f) /\ Thread[f] = Thread[m]
  /\ row' = Attached(f, m)
  /\ due' = due \ {f}
  /\ UNCHANGED <<bytes, verdicts, scan, sweep, faults>>

\* The clock passes expires_at.
Lapse(f) ==
  /\ row[f].state \in Unbound /\ f \notin due
  /\ due' = due \cup {f}
  /\ UNCHANGED <<row, bytes, verdicts, scan, sweep, faults>>

-----------------------------------------------------------------------------
(* A scan *)

\* mutant: a worker takes a row that another one is scanning
NotFinished(f) == row[f].state \in {"QUARANTINED", "SCANNING"}

Waiting(f) == row[f].state = "QUARANTINED"

Claim(w, f) ==
  /\ scan[w].next = "idle" /\ Waiting(f)
  /\ row' = [row EXCEPT ![f].state = "SCANNING"]
  /\ scan' = [scan EXCEPT ![w] = [file |-> f, next |-> "examine"]]
  /\ UNCHANGED <<due, bytes, verdicts, sweep, faults>>

Recorded(w, verdict, next) ==
  /\ verdicts' = [verdicts EXCEPT ![scan[w].file] = @ \cup {verdict}]
  /\ scan' = [scan EXCEPT ![w].next = next]
  /\ UNCHANGED <<row, due, bytes, sweep>>

\* The scanner could not look: unreachable, or nothing is stored at the key.
ScanFails(w) ==
  /\ scan[w].next = "examine"
  /\ IF bytes[scan[w].file] = "quarantine" THEN Fault ELSE UNCHANGED faults
  /\ Recorded(w, "FAILED", "QUARANTINED")

\* INFECTED, or refused by the scanner or by checkReceived
ScanRefuses(w) ==
  LET f == scan[w].file
      verdict == IF Nature[f] = "infected" THEN "INFECTED" ELSE "REJECTED"
  IN /\ scan[w].next = "examine" /\ bytes[f] = "quarantine" /\ Nature[f] # "fit"
     /\ Recorded(w, verdict, verdict)
     /\ UNCHANGED faults

ScanPasses(w) ==
  LET f == scan[w].file
  IN /\ scan[w].next = "examine" /\ bytes[f] = "quarantine" /\ Nature[f] = "fit"
     /\ scan' = [scan EXCEPT ![w].next = "promote"]
     /\ UNCHANGED <<row, due, bytes, verdicts, sweep, faults>>

\* Only now do the bytes leave quarantine.
Promote(w) ==
  LET f == scan[w].file
  IN /\ scan[w].next = "promote" /\ bytes[f] = "quarantine"
     /\ bytes' = [bytes EXCEPT ![f] = "clean"]
     /\ scan' = [scan EXCEPT ![w].next = "record"]
     /\ UNCHANGED <<row, due, verdicts, sweep, faults>>

\* The store is unreachable, or the sweep has deleted the object meanwhile.
PromotionFails(w) ==
  /\ scan[w].next = "promote"
  /\ IF bytes[scan[w].file] = "quarantine" THEN Fault ELSE UNCHANGED faults
  /\ scan' = [scan EXCEPT ![w].next = "QUARANTINED"]
  /\ UNCHANGED <<row, due, bytes, verdicts, sweep>>

RecordClean(w) ==
  /\ scan[w].next = "record"
  /\ Recorded(w, "CLEAN", "CLEAN")
  /\ UNCHANGED faults

\* The closing update, whose result nobody reads: the verdict, or back to the
\* queue.  CLEAN stores the clean key with it.
Settle(w) ==
  LET f == scan[w].file
      to == scan[w].next
      applies == row[f].state = "SCANNING"
  IN /\ to \in {"QUARANTINED", "INFECTED", "REJECTED", "CLEAN"}
     /\ IF applies /\ to = "CLEAN"
          THEN row' = [row EXCEPT ![f].state = to, ![f].clean = TRUE]
          ELSE Moves(f, "SCANNING", to)
     /\ scan' = [scan EXCEPT ![w] = IdleScan]
     /\ UNCHANGED <<due, bytes, verdicts, sweep, faults>>

ScannerDies(w) ==
  /\ scan[w].next # "idle" /\ Fault
  /\ scan' = [scan EXCEPT ![w] = IdleScan]
  /\ UNCHANGED <<row, due, bytes, verdicts, sweep>>

-----------------------------------------------------------------------------
(* The expiry sweep *)

See(s, f) ==
  /\ sweep[s].next = "idle" /\ Expirable(f)
  /\ sweep' = [sweep EXCEPT ![s] = [file |-> f, from |-> row[f].state,
                                    clean |-> row[f].clean, next |-> "mark"]]
  /\ UNCHANGED <<row, due, bytes, verdicts, scan, faults>>

\* EXPIRED from the state that was read, else nothing happens to this file.
Mark(s) ==
  LET f == sweep[s].file
  IN /\ sweep[s].next = "mark"
     /\ Moves(f, sweep[s].from, "EXPIRED")
     /\ sweep' = [sweep EXCEPT ![s] = IF row[f].state = sweep[s].from
                                        THEN [@ EXCEPT !.next = "quarantine"]
                                        ELSE IdleSweep]
     /\ UNCHANGED <<due, bytes, verdicts, scan, faults>>

AfterDelete(s) ==
  sweep' = [sweep EXCEPT ![s] = IF @.next = "quarantine" /\ @.clean
                                  THEN [@ EXCEPT !.next = "clean"]
                                  ELSE IdleSweep]

\* The quarantine key, then the clean key if the record that was read had one.
Delete(s) ==
  LET f == sweep[s].file
  IN /\ sweep[s].next \in {"quarantine", "clean"}
     /\ bytes' = [bytes EXCEPT ![f] = IF @ = sweep[s].next THEN "nowhere" ELSE @]
     /\ AfterDelete(s)
     /\ UNCHANGED <<row, due, verdicts, scan, faults>>

\* A delete that fails is logged and passed over.
DeleteFails(s) ==
  /\ sweep[s].next \in {"quarantine", "clean"} /\ Fault
  /\ AfterDelete(s)
  /\ UNCHANGED <<row, due, bytes, verdicts, scan>>

SweeperDies(s) ==
  /\ sweep[s].next # "idle" /\ Fault
  /\ sweep' = [sweep EXCEPT ![s] = IdleSweep]
  /\ UNCHANGED <<row, due, bytes, verdicts, scan>>

-----------------------------------------------------------------------------
ScanStep(w) == \/ ScanFails(w) \/ ScanRefuses(w) \/ ScanPasses(w)
               \/ Promote(w) \/ PromotionFails(w) \/ RecordClean(w) \/ Settle(w)

Next ==
  \/ \E f \in Files : Grant(f) \/ Upload(f) \/ Announce(f) \/ Lapse(f)
  \/ \E f \in Files, m \in Messages : Bind(f, m)
  \/ \E w \in Scanners, f \in Files : Claim(w, f)
  \/ \E w \in Scanners : ScanStep(w) \/ ScannerDies(w)
  \/ \E s \in Sweepers, f \in Files : See(s, f)
  \/ \E s \in Sweepers : Mark(s) \/ Delete(s) \/ DeleteFails(s) \/ SweeperDies(s)

Spec == Init /\ [][Next]_vars

(***************************************************************************)
(* Time passes and the expiry timer keeps ticking; a pass visits every     *)
(* file it can.  A scan holds a row for milliseconds of a period of        *)
(* seconds, so a sweep that keeps reading a file does not meet a scan of   *)
(* it each time: that is the strong fairness.  Nothing is assumed of       *)
(* uploaders, of scanners (which may stay down) or of faults.              *)
(***************************************************************************)
Expire(s, f) == sweep[s].file = f /\ row[f].state = sweep[s].from /\ Mark(s)

FairSpec ==
  /\ Spec
  /\ \A f \in Files : WF_vars(Lapse(f)) /\ WF_vars(\E s \in Sweepers : See(s, f))
  /\ \A s \in Sweepers : WF_vars(Mark(s)) /\ WF_vars(Delete(s))
  /\ \A f \in Files : SF_vars(\E s \in Sweepers : Expire(s, f))

-----------------------------------------------------------------------------
\* The row and the processes agree with the columns: a message id exactly on a
\* bound file, a clean key only after a scan (attachment-store.ts).
TypeOK ==
  /\ row \in [Files -> [state: States, clean: BOOLEAN, message: Messages \cup {None}]]
  /\ \A f \in Files :
       /\ (row[f].message # None) <=> (row[f].state = "BOUND")
       /\ row[f].clean => row[f].state \in {"CLEAN", "BOUND", "EXPIRED"}
  /\ due \subseteq Files
  /\ bytes \in [Files -> {"nowhere", "quarantine", "clean"}]
  /\ verdicts \in [Files -> SUBSET {"FAILED", "INFECTED", "REJECTED", "CLEAN"}]
  /\ scan \in [Scanners -> [file: Files \cup {None},
                            next: {"idle", "examine", "promote", "record", "QUARANTINED",
                                   "INFECTED", "REJECTED", "CLEAN"}]]
  /\ sweep \in [Sweepers -> [file: Files \cup {None}, from: States, clean: BOOLEAN,
                             next: {"idle", "mark", "quarantine", "clean"}]]
  /\ faults \in 0..MaxFaults

\* A file that recipients can reach was found fit, its verdict is on record, and
\* its bytes are in clean storage and stay there, whatever sweeps were in flight
\* when it was bound (attachment-sweeps.ts:12 and 346).
ReachableIsScanned ==
  \A f \in Files : row[f].state = "BOUND" =>
    /\ Nature[f] = "fit" /\ "CLEAN" \in verdicts[f]
    /\ row[f].clean /\ bytes[f] = "clean"

\* Two workers on one file produce one winner, so that no file is promoted while
\* another scan of it is pending (attachment-sweeps.ts:129).
OneScanPerFile ==
  \A f \in Files : Cardinality({w \in Scanners : scan[w].file = f}) <= 1

\* A verdict, a binding or an expiry is never taken back by a worker that
\* started earlier (pipeline.ts:91).
TerminalIsFinal ==
  [][\A f \in Files : row[f].state \in Terminal => row'[f] = row[f]]_vars

\* Every upload ends bound, refused or expired, even when the worker that had
\* claimed it died and no scan will look at it again (attachment-sweeps.ts:318).
UploadsEnd ==
  \A f \in Files : (row[f].state # "NONE") ~> (row[f].state \in Terminal)
=============================================================================
