---------------------------- MODULE Content_proofs ----------------------------
(***************************************************************************)
(* Proofs about what a Project is made of: Vault, for any number of        *)
(* workflows, tickets, errors and restarts, whatever each workflow is for, *)
(* and Revisions, for any operators, Cues, places and bounds.              *)
(***************************************************************************)
EXTENDS Vault, Revisions, FiniteSetTheorems, TLAPS

-----------------------------------------------------------------------------
(* The Vault.                                                              *)

Removing == {"delete", "remove"}
Counting == {"promoted", "inserted", "registered", "planned"}
Over == {"idle", "permitted", "check", "delete", "remove"}

Used == references # {} \/ \E k \in Tickets : ticket[k] = "COMPLETED"

(* Only a capsule plans a second time.                                     *)
PlannedIsCapsule == \A f \in Flows : step[f] = "planned" => f \in Capsules

(* As long as a removal has never met another workflow: who counts on the   *)
(* object finds it, and what is removed is used by nobody and, once its row *)
(* is gone, has none.                                                       *)
CountedOnIsThere ==
  \A f \in Flows :
    /\ step[f] \in Counting => blob
    /\ step[f] \in Counting \ {"promoted"} => metadata
RemovedIsUnused ==
  \A f \in Flows :
    /\ step[f] \in Removing => ~Used
    /\ step[f] = "remove" => ~metadata
UsedIsThere == Used => metadata /\ blob
Undisturbed == ~Overlap /\ CountedOnIsThere /\ RemovedIsUnused /\ UsedIsThere

KeyedIsRegistered == references \cap Keyed # {} => metadata

(* A job runs only while its upload does.                                  *)
JobsEnd == \A f \in Uploads : step[f] \in Over => bulk[f] \notin {"RUNNING", "PAUSED"}

VaultInv ==
  /\ VaultTypeOK
  /\ PlannedIsCapsule
  /\ ~overtaken => Undisturbed
  /\ KeyedIsRegistered
  /\ JobsEnd

(* What every step does beside its own.                                    *)
History == overtaken' = (overtaken \/ Overlap') /\ UNCHANGED work

USE DEF Removing, Counting, Over, At, Goto, SetJob

-----------------------------------------------------------------------------
(* Before the bytes.                                                       *)

LEMMA IssueTicketKeepsInv ==
  ASSUME VaultInv, History, NEW k \in Tickets, IssueTicket(k)
  PROVE  VaultInv'
<1>1. VaultTypeOK'
  BY DEF VaultInv, VaultTypeOK, IssueTicket, History, Uploads, Capsules
<1>2. PlannedIsCapsule' /\ KeyedIsRegistered' /\ JobsEnd'
  BY DEF VaultInv, IssueTicket, History, PlannedIsCapsule, KeyedIsRegistered, JobsEnd,
     Uploads, Capsules
<1>3. ~overtaken' => Undisturbed'
  BY DEF VaultInv, VaultTypeOK, IssueTicket, History, Undisturbed, CountedOnIsThere,
     RemovedIsUnused, UsedIsThere, Used
<1> QED
  BY <1>1, <1>2, <1>3 DEF VaultInv

LEMMA WithdrawTicketKeepsInv ==
  ASSUME VaultInv, History, NEW k \in Tickets, WithdrawTicket(k)
  PROVE  VaultInv'
<1>1. VaultTypeOK'
  BY DEF VaultInv, VaultTypeOK, WithdrawTicket, History, Uploads, Capsules
<1>2. PlannedIsCapsule' /\ KeyedIsRegistered' /\ JobsEnd'
  BY DEF VaultInv, WithdrawTicket, History, PlannedIsCapsule, KeyedIsRegistered, JobsEnd,
     Uploads, Capsules
<1>3. ~overtaken' => Undisturbed'
  BY DEF VaultInv, VaultTypeOK, WithdrawTicket, History, Undisturbed, CountedOnIsThere,
     RemovedIsUnused, UsedIsThere, Used
<1> QED
  BY <1>1, <1>2, <1>3 DEF VaultInv

LEMMA AuthorizeKeepsInv ==
  ASSUME VaultInv, History, NEW f \in Flows, Authorize(f)
  PROVE  VaultInv'
<1>1. VaultTypeOK'
  BY DEF VaultInv, VaultTypeOK, Authorize, History, Uploads, Capsules, Steps
<1>2. PlannedIsCapsule' /\ KeyedIsRegistered' /\ JobsEnd'
  BY DEF VaultInv, VaultTypeOK, Authorize, History, PlannedIsCapsule, KeyedIsRegistered,
     JobsEnd, Uploads, Capsules
<1>3. ~overtaken' => Undisturbed'
  BY DEF VaultInv, VaultTypeOK, Authorize, History, Undisturbed, CountedOnIsThere,
     RemovedIsUnused, UsedIsThere, Overlap, Used
<1> QED
  BY <1>1, <1>2, <1>3 DEF VaultInv

LEMMA BeginUploadKeepsInv ==
  ASSUME VaultInv, History, NEW f \in Flows, BeginUpload(f)
  PROVE  VaultInv'
<1>1. VaultTypeOK'
  BY DEF VaultInv, VaultTypeOK, BeginUpload, History, Uploads, Capsules, Steps
<1>2. PlannedIsCapsule' /\ KeyedIsRegistered' /\ JobsEnd'
  BY DEF VaultInv, VaultTypeOK, BeginUpload, History, PlannedIsCapsule, KeyedIsRegistered,
     JobsEnd, Uploads, Capsules
<1>3. ~overtaken' => Undisturbed'
  BY DEF VaultInv, VaultTypeOK, BeginUpload, History, Undisturbed, CountedOnIsThere,
     RemovedIsUnused, UsedIsThere, Overlap, Used
<1> QED
  BY <1>1, <1>2, <1>3 DEF VaultInv

LEMMA BeginImportKeepsInv ==
  ASSUME VaultInv, History, NEW f \in Flows, BeginImport(f)
  PROVE  VaultInv'
<1>1. VaultTypeOK'
  BY DEF VaultInv, VaultTypeOK, BeginImport, History, Uploads, Capsules, Steps
<1>2. PlannedIsCapsule' /\ KeyedIsRegistered' /\ JobsEnd'
  BY DEF VaultInv, BeginImport, History, PlannedIsCapsule, KeyedIsRegistered, JobsEnd,
     Uploads, Capsules
<1>3. ~overtaken' => Undisturbed'
  BY DEF VaultInv, VaultTypeOK, BeginImport, History, Undisturbed, CountedOnIsThere,
     RemovedIsUnused, UsedIsThere, Used
<1> QED
  BY <1>1, <1>2, <1>3 DEF VaultInv

LEMMA PlanCapsuleKeepsInv ==
  ASSUME VaultInv, History, NEW f \in Flows, PlanCapsule(f)
  PROVE  VaultInv'
<1>1. VaultTypeOK'
  BY DEF VaultInv, VaultTypeOK, PlanCapsule, History, Uploads, Capsules, Steps
<1>2. PlannedIsCapsule' /\ KeyedIsRegistered' /\ JobsEnd'
  BY DEF VaultInv, PlanCapsule, History, PlannedIsCapsule, KeyedIsRegistered, JobsEnd,
     Uploads, Capsules
<1>3. ~overtaken' => Undisturbed'
  BY DEF VaultInv, VaultTypeOK, PlanCapsule, History, Undisturbed, CountedOnIsThere,
     RemovedIsUnused, UsedIsThere, Used
<1> QED
  BY <1>1, <1>2, <1>3 DEF VaultInv

-----------------------------------------------------------------------------
(* The import.                                                             *)

LEMMA StreamKeepsInv ==
  ASSUME VaultInv, History, NEW f \in Flows, Stream(f)
  PROVE  VaultInv'
<1>1. VaultTypeOK'
  BY DEF VaultInv, VaultTypeOK, Stream, History, Uploads, Capsules, Steps
<1>2. PlannedIsCapsule' /\ KeyedIsRegistered' /\ JobsEnd'
  BY DEF VaultInv, VaultTypeOK, Stream, History, PlannedIsCapsule, KeyedIsRegistered,
     JobsEnd, Uploads, Capsules
<1>3. ~overtaken' => Undisturbed'
  BY DEF VaultInv, VaultTypeOK, Stream, History, Undisturbed, CountedOnIsThere,
     RemovedIsUnused, UsedIsThere, Overlap, Used
<1> QED
  BY <1>1, <1>2, <1>3 DEF VaultInv

LEMMA InspectKeepsInv ==
  ASSUME VaultInv, History, NEW f \in Flows, Inspect(f)
  PROVE  VaultInv'
<1>1. VaultTypeOK'
  BY DEF VaultInv, VaultTypeOK, Inspect, History, Uploads, Capsules, Steps
<1>2. PlannedIsCapsule' /\ KeyedIsRegistered' /\ JobsEnd'
  BY DEF VaultInv, Inspect, History, PlannedIsCapsule, KeyedIsRegistered, JobsEnd,
     Uploads, Capsules
<1>3. ~overtaken' => Undisturbed'
  BY DEF VaultInv, VaultTypeOK, Inspect, History, Undisturbed, CountedOnIsThere,
     RemovedIsUnused, UsedIsThere, Used
<1> QED
  BY <1>1, <1>2, <1>3 DEF VaultInv

LEMMA LinkKeepsInv ==
  ASSUME VaultInv, History, NEW f \in Flows, Link(f)
  PROVE  VaultInv'
<1>1. VaultTypeOK'
  BY DEF VaultInv, VaultTypeOK, Link, History, Uploads, Capsules, Steps
<1>2. PlannedIsCapsule' /\ KeyedIsRegistered' /\ JobsEnd'
  BY DEF VaultInv, Link, History, PlannedIsCapsule, KeyedIsRegistered, JobsEnd, Uploads,
     Capsules
<1>3. ~overtaken' => Undisturbed'
  BY DEF VaultInv, VaultTypeOK, Link, History, Undisturbed, CountedOnIsThere,
     RemovedIsUnused, UsedIsThere, Used
<1> QED
  BY <1>1, <1>2, <1>3 DEF VaultInv

LEMMA InspectAgainKeepsInv ==
  ASSUME VaultInv, History, NEW f \in Flows, InspectAgain(f)
  PROVE  VaultInv'
<1>1. VaultTypeOK'
  BY DEF VaultInv, VaultTypeOK, InspectAgain, History, Uploads, Capsules, Steps
<1>2. PlannedIsCapsule' /\ KeyedIsRegistered' /\ JobsEnd'
  BY DEF VaultInv, VaultTypeOK, InspectAgain, History, PlannedIsCapsule,
     KeyedIsRegistered, JobsEnd, Uploads, Capsules
<1>3. ~overtaken' => Undisturbed'
  BY DEF VaultInv, VaultTypeOK, InspectAgain, History, Undisturbed, CountedOnIsThere,
     RemovedIsUnused, UsedIsThere, Overlap, Used
<1> QED
  BY <1>1, <1>2, <1>3 DEF VaultInv

LEMMA InsertKeepsInv ==
  ASSUME VaultInv, History, NEW f \in Flows, Insert(f)
  PROVE  VaultInv'
<1>1. VaultTypeOK'
  BY DEF VaultInv, VaultTypeOK, Insert, History, Uploads, Capsules, Steps
<1>2. PlannedIsCapsule' /\ KeyedIsRegistered' /\ JobsEnd'
  BY DEF VaultInv, Insert, History, PlannedIsCapsule, KeyedIsRegistered, JobsEnd, Uploads,
     Capsules
<1>3. ~overtaken' => Undisturbed'
  BY DEF VaultInv, VaultTypeOK, Insert, History, Undisturbed, CountedOnIsThere,
     RemovedIsUnused, UsedIsThere, Overlap
<1> QED
  BY <1>1, <1>2, <1>3 DEF VaultInv

LEMMA ReadBackKeepsInv ==
  ASSUME VaultInv, History, NEW f \in Flows, ReadBack(f)
  PROVE  VaultInv'
<1>1. VaultTypeOK'
  BY DEF VaultInv, VaultTypeOK, ReadBack, History, Uploads, Capsules, Steps
<1>2. PlannedIsCapsule' /\ KeyedIsRegistered' /\ JobsEnd'
  BY DEF VaultInv, VaultTypeOK, ReadBack, History, PlannedIsCapsule, KeyedIsRegistered,
     JobsEnd, Uploads, Capsules
<1>3. ~overtaken' => Undisturbed'
  BY DEF VaultInv, VaultTypeOK, ReadBack, History, Undisturbed, CountedOnIsThere,
     RemovedIsUnused, UsedIsThere, Used
<1> QED
  BY <1>1, <1>2, <1>3 DEF VaultInv

-----------------------------------------------------------------------------
(* The reference.                                                          *)

LEMMA BindCaptureKeepsInv ==
  ASSUME VaultInv, History, NEW f \in Flows, BindCapture(f)
  PROVE  VaultInv'
<1>1. VaultTypeOK'
  BY DEF VaultInv, VaultTypeOK, BindCapture, History, Uploads, Capsules, Steps, Refer,
     Named
<1>2. PlannedIsCapsule' /\ KeyedIsRegistered' /\ JobsEnd'
  BY DEF VaultInv, BindCapture, History, PlannedIsCapsule, KeyedIsRegistered, JobsEnd,
     Uploads, Capsules
<1>3. ~overtaken' => Undisturbed'
  BY DEF VaultInv, VaultTypeOK, BindCapture, History, Undisturbed, CountedOnIsThere,
     RemovedIsUnused, UsedIsThere, Overlap
<1> QED
  BY <1>1, <1>2, <1>3 DEF VaultInv

LEMMA RegisterPackageKeepsInv ==
  ASSUME VaultInv, History, NEW f \in Flows, RegisterPackage(f)
  PROVE  VaultInv'
<1>1. VaultTypeOK'
  BY DEF VaultInv, VaultTypeOK, RegisterPackage, History, Uploads, Capsules, Steps, Refer,
     Keyed
<1>2. PlannedIsCapsule' /\ KeyedIsRegistered' /\ JobsEnd'
  BY DEF VaultInv, RegisterPackage, History, PlannedIsCapsule, KeyedIsRegistered, JobsEnd,
     Uploads, Capsules
<1>3. ~overtaken' => Undisturbed'
  BY DEF VaultInv, VaultTypeOK, RegisterPackage, History, Undisturbed, CountedOnIsThere,
     RemovedIsUnused, UsedIsThere, Overlap
<1> QED
  BY <1>1, <1>2, <1>3 DEF VaultInv

LEMMA CompleteUploadKeepsInv ==
  ASSUME VaultInv, History, NEW f \in Flows, CompleteUpload(f)
  PROVE  VaultInv'
<1>1. VaultTypeOK'
  BY DEF VaultInv, VaultTypeOK, CompleteUpload, History, Uploads, Capsules, Steps
<1>2. PlannedIsCapsule' /\ KeyedIsRegistered' /\ JobsEnd'
  BY DEF VaultInv, VaultTypeOK, CompleteUpload, History, PlannedIsCapsule,
     KeyedIsRegistered, JobsEnd, Uploads, Capsules
<1>3. ~overtaken' => Undisturbed'
  BY DEF VaultInv, VaultTypeOK, CompleteUpload, History, Undisturbed, CountedOnIsThere,
     RemovedIsUnused, UsedIsThere, Overlap
<1> QED
  BY <1>1, <1>2, <1>3 DEF VaultInv

LEMMA CompleteUnreadKeepsInv ==
  ASSUME VaultInv, History, NEW f \in Flows, CompleteUnread(f)
  PROVE  VaultInv'
<1>1. VaultTypeOK'
  <2>1. troubles' \in 0..MaxTrouble
    BY VaultAssumption DEF VaultInv, VaultTypeOK, CompleteUnread
  <2>2. ticket' \in [Tickets -> {"none", "ACTIVE", "COMPLETED", "CANCELLED", "EXPIRED"}]
    BY DEF VaultInv, VaultTypeOK, CompleteUnread
  <2>3. step' \in [Flows -> Steps]
    BY DEF VaultInv, VaultTypeOK, CompleteUnread, Steps
  <2> QED
    BY <2>1, <2>3 DEF VaultInv, VaultTypeOK, CompleteUnread, History, Uploads, Capsules
<1>2. PlannedIsCapsule' /\ KeyedIsRegistered' /\ JobsEnd'
  BY DEF VaultInv, VaultTypeOK, CompleteUnread, History, PlannedIsCapsule,
     KeyedIsRegistered, JobsEnd, Uploads, Capsules
<1>3. ~overtaken' => Undisturbed'
  BY DEF VaultInv, VaultTypeOK, CompleteUnread, History, Undisturbed, CountedOnIsThere,
     RemovedIsUnused, UsedIsThere, Overlap
<1> QED
  BY <1>1, <1>2, <1>3 DEF VaultInv

LEMMA PlanAgainKeepsInv ==
  ASSUME VaultInv, History, NEW f \in Flows, PlanAgain(f)
  PROVE  VaultInv'
<1>1. VaultTypeOK'
  BY DEF VaultInv, VaultTypeOK, PlanAgain, History, Uploads, Capsules, Steps, RollBack
<1>2. PlannedIsCapsule' /\ KeyedIsRegistered' /\ JobsEnd'
  BY DEF VaultInv, PlanAgain, History, PlannedIsCapsule, KeyedIsRegistered, JobsEnd,
     Uploads, Capsules
<1>3. ~overtaken' => Undisturbed'
  BY DEF VaultInv, VaultTypeOK, PlanAgain, History, Undisturbed, CountedOnIsThere,
     RemovedIsUnused, UsedIsThere, Used, RollBack
<1> QED
  BY <1>1, <1>2, <1>3 DEF VaultInv

LEMMA ImportProjectKeepsInv ==
  ASSUME VaultInv, History, NEW f \in Flows, ImportProject(f)
  PROVE  VaultInv'
<1>1. VaultTypeOK'
  <2>1. f \in Capsules
    BY DEF VaultInv, PlannedIsCapsule, ImportProject
  <2>2. references' \subseteq Keyed \cup Named /\ step' \in [Flows -> Steps]
    BY DEF VaultInv, VaultTypeOK, ImportProject, Refer, Keyed, Named, Steps, RollBack
  <2>3. imported' \subseteq Capsules
    BY <2>1 DEF VaultInv, VaultTypeOK, ImportProject
  <2> QED
    BY <2>2, <2>3 DEF VaultInv, VaultTypeOK, ImportProject, History, Uploads, Capsules
<1>2. PlannedIsCapsule' /\ KeyedIsRegistered' /\ JobsEnd'
  BY DEF VaultInv, VaultTypeOK, ImportProject, History, PlannedIsCapsule,
     KeyedIsRegistered, JobsEnd, Uploads, Capsules, Refer, Keyed
<1>3. ~overtaken' => Undisturbed'
  BY DEF VaultInv, VaultTypeOK, ImportProject, History, Undisturbed, CountedOnIsThere,
     RemovedIsUnused, UsedIsThere, Overlap, RollBack
<1> QED
  BY <1>1, <1>2, <1>3 DEF VaultInv

LEMMA DropReferenceKeepsInv ==
  ASSUME VaultInv, History, DropReference
  PROVE  VaultInv'
<1>1. VaultTypeOK'
  BY DEF VaultInv, VaultTypeOK, DropReference, History, Uploads, Capsules
<1>2. PlannedIsCapsule' /\ KeyedIsRegistered' /\ JobsEnd'
  BY DEF VaultInv, DropReference, History, PlannedIsCapsule, KeyedIsRegistered, JobsEnd,
     Uploads, Capsules
<1>3. ~overtaken' => Undisturbed'
  BY DEF VaultInv, DropReference, History, Undisturbed, CountedOnIsThere, RemovedIsUnused,
     UsedIsThere, Used
<1> QED
  BY <1>1, <1>2, <1>3 DEF VaultInv

-----------------------------------------------------------------------------
(* The removal.                                                            *)

LEMMA CheckReferencesKeepsInv ==
  ASSUME VaultInv, History, NEW f \in Flows, CheckReferences(f)
  PROVE  VaultInv'
<1>1. VaultTypeOK'
  BY DEF VaultInv, VaultTypeOK, CheckReferences, History, Uploads, Capsules, Steps
<1>2. PlannedIsCapsule' /\ KeyedIsRegistered' /\ JobsEnd'
  BY DEF VaultInv, CheckReferences, History, PlannedIsCapsule, KeyedIsRegistered, JobsEnd,
     Uploads, Capsules
<1>3. ~overtaken' => Undisturbed'
  BY DEF VaultInv, VaultTypeOK, CheckReferences, History, Undisturbed, CountedOnIsThere,
     RemovedIsUnused, UsedIsThere, Used, Referenced
<1> QED
  BY <1>1, <1>2, <1>3 DEF VaultInv

LEMMA DeleteRowKeepsInv ==
  ASSUME VaultInv, History, NEW f \in Flows, DeleteRow(f)
  PROVE  VaultInv'
<1>1. VaultTypeOK'
  BY DEF VaultInv, VaultTypeOK, DeleteRow, History, Uploads, Capsules, Steps
<1>2. PlannedIsCapsule' /\ KeyedIsRegistered' /\ JobsEnd'
  BY DEF VaultInv, VaultTypeOK, DeleteRow, History, PlannedIsCapsule, KeyedIsRegistered,
     JobsEnd, Uploads, Capsules
<1>3. ~overtaken' => Undisturbed'
  BY DEF VaultInv, VaultTypeOK, DeleteRow, History, Undisturbed, CountedOnIsThere,
     RemovedIsUnused, UsedIsThere, Overlap, Used
<1> QED
  BY <1>1, <1>2, <1>3 DEF VaultInv

LEMMA RemoveFileKeepsInv ==
  ASSUME VaultInv, History, NEW f \in Flows, RemoveFile(f)
  PROVE  VaultInv'
<1>1. VaultTypeOK'
  BY DEF VaultInv, VaultTypeOK, RemoveFile, History, Uploads, Capsules, Steps
<1>2. PlannedIsCapsule' /\ KeyedIsRegistered' /\ JobsEnd'
  BY DEF VaultInv, RemoveFile, History, PlannedIsCapsule, KeyedIsRegistered, JobsEnd,
     Uploads, Capsules
<1>3. ~overtaken' => Undisturbed'
  BY DEF VaultInv, VaultTypeOK, RemoveFile, History, Undisturbed, CountedOnIsThere,
     RemovedIsUnused, UsedIsThere, Overlap, Used
<1> QED
  BY <1>1, <1>2, <1>3 DEF VaultInv

-----------------------------------------------------------------------------
(* Errors, restarts and the SHOW.                                          *)

LEMMA FailKeepsInv ==
  ASSUME VaultInv, History, NEW f \in Flows, Fail(f)
  PROVE  VaultInv'
<1>1. VaultTypeOK'
  BY VaultAssumption DEF VaultInv, VaultTypeOK, Fail, History, Uploads, Capsules, Steps,
     RollBack
<1>2. PlannedIsCapsule' /\ KeyedIsRegistered' /\ JobsEnd'
  BY DEF VaultInv, VaultTypeOK, Fail, History, PlannedIsCapsule, KeyedIsRegistered,
     JobsEnd, Uploads, Capsules, RollBack
<1>3. ~overtaken' => Undisturbed'
  BY DEF VaultInv, VaultTypeOK, Fail, History, Undisturbed, CountedOnIsThere,
     RemovedIsUnused, UsedIsThere, Overlap, Used, RollBack
<1> QED
  BY <1>1, <1>2, <1>3 DEF VaultInv

LEMMA RestartVaultKeepsInv ==
  ASSUME VaultInv, History, RestartVault
  PROVE  VaultInv'
<1>1. VaultTypeOK'
  BY VaultAssumption DEF VaultInv, VaultTypeOK, RestartVault, History, Uploads, Capsules,
     Steps
<1>2. PlannedIsCapsule' /\ KeyedIsRegistered' /\ JobsEnd'
  BY DEF VaultInv, RestartVault, History, PlannedIsCapsule, KeyedIsRegistered, JobsEnd,
     Uploads
<1>3. ~overtaken' => Undisturbed'
  BY DEF VaultInv, RestartVault, History, Undisturbed, CountedOnIsThere, RemovedIsUnused,
     UsedIsThere, Used
<1> QED
  BY <1>1, <1>2, <1>3 DEF VaultInv

LEMMA ToggleShowKeepsInv ==
  ASSUME VaultInv, History, ToggleShow
  PROVE  VaultInv'
<1>1. VaultTypeOK'
  BY DEF VaultInv, VaultTypeOK, ToggleShow, History, Uploads, Capsules
<1>2. PlannedIsCapsule' /\ KeyedIsRegistered' /\ JobsEnd'
  BY DEF VaultInv, ToggleShow, History, PlannedIsCapsule, KeyedIsRegistered, JobsEnd,
     Uploads, Capsules
<1>3. ~overtaken' => Undisturbed'
  BY DEF VaultInv, ToggleShow, History, Undisturbed, CountedOnIsThere, RemovedIsUnused,
     UsedIsThere, Used
<1> QED
  BY <1>1, <1>2, <1>3 DEF VaultInv

-----------------------------------------------------------------------------
(* The specification.                                                      *)

LEMMA InitInv == VaultInit => VaultInv
<1> SUFFICES ASSUME VaultInit PROVE VaultInv
  OBVIOUS
<1>1. VaultTypeOK
  <2>1. troubles \in 0..MaxTrouble
    BY VaultAssumption DEF VaultInit
  <2>2. step \in [Flows -> Steps] /\ bulk \in [Uploads -> {"none"}]
    BY DEF VaultInit, Steps
  <2> QED
    BY <2>1, <2>2 DEF VaultInit, VaultTypeOK
<1>2. PlannedIsCapsule /\ JobsEnd
  BY DEF VaultInit, PlannedIsCapsule, JobsEnd
<1>3. KeyedIsRegistered
  BY DEF VaultInit, KeyedIsRegistered
<1>4. ~Used
  BY DEF VaultInit, Used
<1>5. CountedOnIsThere /\ RemovedIsUnused /\ ~Overlap
  BY DEF VaultInit, CountedOnIsThere, RemovedIsUnused, Overlap
<1>6. Undisturbed
  BY <1>4, <1>5 DEF Undisturbed, UsedIsThere
<1> QED
  BY <1>1, <1>2, <1>3, <1>6 DEF VaultInv

LEMMA NextKeepsInv == VaultInv /\ [VaultNext]_vaultVars => VaultInv'
<1> SUFFICES ASSUME VaultInv, [VaultNext]_vaultVars PROVE VaultInv'
  OBVIOUS
<1>1. CASE UNCHANGED vaultVars
  BY <1>1 DEF vaultVars, VaultInv, VaultTypeOK, PlannedIsCapsule, Undisturbed,
     CountedOnIsThere, RemovedIsUnused, UsedIsThere, Overlap, Used, KeyedIsRegistered,
     JobsEnd, Uploads, Capsules
<1>2. CASE VaultNext
  <2>1. History
    BY <1>2 DEF VaultNext, History
  <2>2. ASSUME NEW k \in Tickets, IssueTicket(k) \/ WithdrawTicket(k)
        PROVE  VaultInv'
    BY <2>1, <2>2, IssueTicketKeepsInv, WithdrawTicketKeepsInv
  <2>3. ASSUME NEW f \in Flows,
               \/ Authorize(f) \/ BeginUpload(f) \/ BeginImport(f) \/ PlanCapsule(f)
               \/ Stream(f) \/ Inspect(f) \/ Link(f) \/ InspectAgain(f)
               \/ Insert(f) \/ ReadBack(f)
               \/ BindCapture(f) \/ RegisterPackage(f)
               \/ CompleteUpload(f) \/ CompleteUnread(f)
               \/ PlanAgain(f) \/ ImportProject(f)
               \/ CheckReferences(f) \/ DeleteRow(f) \/ RemoveFile(f)
               \/ Fail(f)
        PROVE  VaultInv'
    BY <2>1, <2>3, AuthorizeKeepsInv, BeginUploadKeepsInv, BeginImportKeepsInv,
         PlanCapsuleKeepsInv, StreamKeepsInv, InspectKeepsInv, LinkKeepsInv,
         InspectAgainKeepsInv, InsertKeepsInv, ReadBackKeepsInv, BindCaptureKeepsInv,
         RegisterPackageKeepsInv, CompleteUploadKeepsInv, CompleteUnreadKeepsInv,
         PlanAgainKeepsInv, ImportProjectKeepsInv, CheckReferencesKeepsInv,
         DeleteRowKeepsInv, RemoveFileKeepsInv, FailKeepsInv
  <2> QED
    BY <1>2, <2>1, <2>2, <2>3, DropReferenceKeepsInv, RestartVaultKeepsInv,
         ToggleShowKeepsInv DEF VaultNext, VaultStep
<1> QED
  BY <1>1, <1>2

(* What the invariant means for the property.                              *)
LEMMA InvMeansKept == VaultInv => UsedContentIsKept
  BY DEF VaultInv, UsedContentIsKept, Undisturbed, UsedIsThere, Used, KeyedIsRegistered,
     JobsEnd

(* The invariant of every import, completion, rollback and restart.        *)
THEOREM VaultInvariant == VaultSpec => []VaultInv
<1> QED
  BY InitInv, NextKeepsInv, PTL DEF VaultSpec

(* Every state of the Vault is of its type: no workflow is at a step that  *)
(* is not its own (VaultTypeOK).                                           *)
THEOREM VaultTypes == VaultSpec => []VaultTypeOK
<1>1. VaultInv => VaultTypeOK
  BY DEF VaultInv
<1> QED
  BY <1>1, VaultInvariant, PTL

(* What a row, a document or a completed upload names is registered and its *)
(* file is there, whichever imports failed, were rolled back or died in     *)
(* between, unless a removal and another workflow overlapped                *)
(* (RemoveObjectIfUnreferenced, DeleteVaultObjectIfUnreferenced).           *)
THEOREM UsedContentKept == VaultSpec => []UsedContentIsKept
<1> QED
  BY VaultInvariant, InvMeansKept, PTL

-----------------------------------------------------------------------------
(* Revisions.                                                              *)

Stages ==
  {"idle", "ensure", "copyCues", "copyRest", "fork", "map", "apply", "write",
   "validate", "freeze", "readCues", "readRest", "insert", "reopen"}
Ids == 0..MaxRevision
Values == {"good", "reserved"}
Request ==
  [kind : {"none", "cue", "reorder", "add", "output", "publish"}, at : Stages,
   from : Ids, source : Ids, target : Ids,
   names : Seq(CueNames), places : Seq(1..MaxPlace), picked : Seq(CueNames),
   cues : Places, output : Values \cup {"none"}, hasTarget : BOOLEAN, touched : BOOLEAN]

RevisionsTyped ==
  /\ current \in Revisions
  /\ revision \in [Revisions -> {"none", "DRAFT", "VALIDATED", "SUPERSEDED"}]
  /\ parent \in [Revisions -> Ids]
  /\ cues \in [Revisions -> Places] /\ \A r \in Revisions : Distinct(cues[r])
  /\ outputs \in [Revisions -> Values]
  /\ hasTarget \in BOOLEAN /\ onShow \in BOOLEAN
  /\ snapshots = [r \in Revisions |-> snapshots[r]]
  /\ editing \in [Operators -> Request]
  /\ edits \in 0..MaxEdit /\ mishaps \in 0..MaxMishap

Live(r) == revision[r] \in {"DRAFT", "VALIDATED"}

\* Revisions are known in their order; those that are not superseded are the
\* current one and its ancestors, of which only the current one may be a DRAFT.
LineageOK ==
  /\ \E k \in Revisions : Known = 1..k
  /\ Live(current)
  /\ \A r \in Known :
       /\ parent[r] # NoRevision => parent[r] \in Known
       /\ revision[r] = "DRAFT" => r = current
       /\ Live(r) => parent[r] # current
       /\ Live(r) /\ parent[r] # NoRevision => revision[parent[r]] = "VALIDATED"
       /\ \A q \in Known :
            Live(r) /\ Live(q) /\ parent[r] = parent[q] /\ parent[r] # NoRevision => r = q
  /\ stray \subseteq Known

\* A Snapshot is what its revision is, but for what came late.
SnapshotOK(r) ==
  /\ snapshots[r] # {} => revision[r] = "VALIDATED" /\ \E s : snapshots[r] = {s}
  /\ \A s \in snapshots[r] :
       /\ s.cues = cues[r]
       /\ r \notin late => s.output = outputs[r]
       /\ ~s.touched => s.hasTarget /\ s.output = "good"

Copying(t) == t.at \in {"ensure", "copyCues", "copyRest", "fork", "map"}
Holding(t) == t.at \in {"readCues", "readRest", "insert", "reopen"}

\* Where the Cues are in which a request will look for the copies.
Sought(t) ==
  IF t.at = "ensure" THEN cues[current]
  ELSE IF t.at = "copyCues" THEN cues[t.source]
  ELSE IF t.at \in {"copyRest", "fork"} THEN t.cues
  ELSE cues[t.target]

EditOK(t) ==
  /\ Copying(t) =>
       /\ t.from \in Known /\ Len(t.names) = Len(t.places)
       /\ ~t.touched =>
            /\ Sought(t) = cues[t.from]
            /\ \A i \in DOMAIN t.names :
                 t.names[i] \in DOMAIN cues[t.from] /\ cues[t.from][t.names[i]] = t.places[i]
  /\ t.at \in {"copyCues", "copyRest", "fork"} =>
       t.source \in Known /\ (revision[t.source] = "VALIDATED" \/ t.source \in reopened)
  /\ t.at \in {"copyRest", "fork"} =>
       t.cues = cues[t.source] \/ t.source \in reopened
  /\ t.at \in {"copyRest", "fork"} => Distinct(t.cues)
  /\ t.at = "fork" =>
       /\ t.output # "none"
       /\ t.output = outputs[t.source] \/ t.source \in late \cup reopened
  /\ t.at \in {"map", "apply", "write"} => t.target \in Known
  /\ t.at = "apply" /\ ~t.touched => t.picked = t.names

PublicationOK(t) ==
  /\ t.at \in {"validate", "freeze"} \/ Holding(t) => t.source \in Known
  /\ Holding(t) => revision[t.source] = "VALIDATED" /\ snapshots[t.source] = {}
  /\ t.at \in {"readRest", "insert"} => t.cues = cues[t.source]
  /\ t.at = "insert" => t.source \in late \/ t.output = outputs[t.source]
  /\ ~t.touched =>
       /\ t.at \in {"validate", "freeze", "readCues", "readRest"} => hasTarget
       /\ t.at \in {"freeze", "readCues", "readRest"} => outputs[t.source] = "good"
       /\ t.at = "insert" => t.hasTarget /\ t.output = "good"

HoldersOK ==
  \A c, d \in Operators :
    Holding(editing[c]) /\ Holding(editing[d]) /\ editing[c].source = editing[d].source
      => c = d

RevisionsInv ==
  /\ RevisionsTyped /\ LineageOK
  /\ \A r \in Revisions : SnapshotOK(r)
  /\ \A c \in Operators : EditOK(editing[c]) /\ PublicationOK(editing[c])
  /\ HoldersOK
  /\ \A r \in stray : parent[r] \in late \cup reopened

LEMMA OrderTypes ==
  ASSUME NEW o
  PROVE  o \in Places <=> DOMAIN o \subseteq CueNames /\ o \in [DOMAIN o -> 1..MaxPlace]
  BY DEF Places

LEMMA NoOrder == << >> \in Places /\ Distinct(<< >>)
  <1>1. DOMAIN << >> = {}
    OBVIOUS
  <1>2. << >> \in [DOMAIN << >> -> 1..MaxPlace]
    <2>1. << >> = [n \in {} |-> 1]
      OBVIOUS
    <2> QED
      BY <1>1, <2>1
  <1> QED
    BY <1>1, <1>2, OrderTypes DEF Distinct

LEMMA RequestTypes ==
  ASSUME NEW t \in Request
  PROVE  /\ t.at \in Stages /\ t.from \in Ids /\ t.source \in Ids /\ t.target \in Ids
         /\ t.names \in Seq(CueNames) /\ t.places \in Seq(1..MaxPlace)
         /\ t.picked \in Seq(CueNames) /\ t.cues \in Places
         /\ t.output \in Values \cup {"none"} /\ t.hasTarget \in BOOLEAN
         /\ t.touched \in BOOLEAN
  BY DEF Request

LEMMA IdleRequest ==
  /\ NoRequest \in Request /\ NoRequest.at = "idle"
  /\ EditOK(NoRequest) /\ PublicationOK(NoRequest) /\ ~Holding(NoRequest)
  <1>1. NoRequest \in Request
    BY NoOrder, RevisionsAssumption DEF NoRequest, Request, Stages, Ids, NoRevision, Values
  <1>2. NoRequest.at = "idle"
    BY DEF NoRequest
  <1> QED
    BY <1>1, <1>2 DEF EditOK, PublicationOK, Holding, Copying

LEMMA RevisionsBegin == RevisionsInit => RevisionsInv
  <1> SUFFICES ASSUME RevisionsInit PROVE RevisionsInv
    OBVIOUS
  <1>1. /\ 1 \in Revisions /\ \A r \in Revisions : r \in Nat \ {0}
        /\ Known = 1..1 /\ Known = {1}
    BY RevisionsAssumption DEF RevisionsInit, Revisions, Known
  <1>2. RevisionsTyped
    <2>1. cues \in [Revisions -> Places] /\ \A r \in Revisions : Distinct(cues[r])
      BY NoOrder, RevisionsAssumption DEF RevisionsInit
    <2>2. editing \in [Operators -> Request]
      BY IdleRequest DEF RevisionsInit
    <2>3. edits \in 0..MaxEdit /\ mishaps \in 0..MaxMishap /\ NoRevision \in Ids
      BY RevisionsAssumption DEF RevisionsInit, Ids, NoRevision
    <2> QED
      BY <1>1, <2>1, <2>2, <2>3 DEF RevisionsInit, RevisionsTyped, Values
  <1>3. LineageOK
    BY <1>1 DEF RevisionsInit, LineageOK, Live, NoRevision
  <1>4. \A r \in Revisions : SnapshotOK(r)
    BY DEF RevisionsInit, SnapshotOK
  <1>5. \A c \in Operators : editing[c] = NoRequest
    BY DEF RevisionsInit
  <1> QED
    BY <1>2, <1>3, <1>4, <1>5, IdleRequest DEF RevisionsInv, RevisionsInit, HoldersOK

\* Of a step, what matters to all requests, and to one that it may overtake.
Onward ==
  /\ Known \subseteq Known' /\ late \subseteq late' /\ reopened \subseteq reopened'
  /\ \A r \in Known :
       /\ revision[r] = "VALIDATED" => revision'[r] = "VALIDATED" \/ r \in reopened'
       /\ outputs'[r] = outputs[r] \/ revision[r] = "DRAFT" \/ r \in late'
Publishes(t) == t.at \in {"validate", "freeze", "readCues", "readRest"}
Overtaken(t, x) ==
  /\ x.at = t.at /\ x.from = t.from /\ x.source = t.source /\ x.target = t.target
  /\ x.names = t.names /\ x.places = t.places /\ x.picked = t.picked
  /\ x.cues = t.cues /\ x.output = t.output /\ x.hasTarget = t.hasTarget
  /\ t.touched => x.touched
Kept(t, x) ==
  /\ Overtaken(t, x)
  /\ \A r \in Known :
       cues'[r] = cues[r] \/ (revision[r] = "DRAFT" /\ (Copying(t) => x.touched))
  /\ t.at = "ensure" /\ ~x.touched => cues'[current'] = cues[current]
  /\ Holding(t) => revision'[t.source] = "VALIDATED" /\ snapshots'[t.source] = {}
  /\ Publishes(t) /\ ~x.touched => hasTarget' = hasTarget /\ outputs'[t.source] = outputs[t.source]

LEMMA EditKept ==
  ASSUME NEW d \in Operators, EditOK(editing[d]), Onward, Kept(editing[d], editing'[d])
  PROVE  EditOK(editing[d])'
  <1> DEFINE t == editing[d]  x == editing'[d]
  <1>1. /\ Overtaken(t, x) /\ Known \subseteq Known' /\ late \subseteq late' /\ reopened \subseteq reopened'
        /\ \A r \in Known : cues'[r] = cues[r] \/ (revision[r] = "DRAFT" /\ (Copying(t) => x.touched))
    BY DEF Onward, Kept
  <1>2. Copying(x) => x.from \in Known' /\ Len(x.names) = Len(x.places)
    BY <1>1 DEF EditOK, Copying, Overtaken
  <1>3. ASSUME Copying(x), ~x.touched
        PROVE  /\ Sought(editing[d])' = cues'[x.from]
               /\ \A i \in DOMAIN x.names :
                    x.names[i] \in DOMAIN cues'[x.from] /\ cues'[x.from][x.names[i]] = x.places[i]
    <2>1. /\ Copying(t) /\ ~t.touched /\ t.from \in Known /\ cues'[t.from] = cues[t.from]
          /\ Sought(t) = cues[t.from]
      BY <1>1, <1>3 DEF EditOK, Copying, Overtaken
    <2>2. Sought(editing[d])' = Sought(t)
      <3>1. CASE t.at = "ensure"
        BY <1>1, <1>3, <3>1 DEF Sought, Kept, Overtaken
      <3>2. CASE t.at = "copyCues"
        BY <1>1, <1>3, <3>2 DEF Sought, Overtaken, EditOK, Copying
      <3>3. CASE t.at \in {"copyRest", "fork"}
        BY <1>1, <3>3 DEF Sought, Overtaken
      <3>4. CASE t.at = "map"
        BY <1>1, <1>3, <3>4 DEF Sought, Overtaken, EditOK, Copying
      <3> QED
        BY <2>1, <3>1, <3>2, <3>3, <3>4 DEF Copying
    <2> QED
      BY <1>1, <2>1, <2>2 DEF EditOK, Overtaken
  <1>4. x.at \in {"copyCues", "copyRest", "fork"} =>
          x.source \in Known' /\ (revision'[x.source] = "VALIDATED" \/ x.source \in reopened')
    BY <1>1 DEF EditOK, Overtaken, Onward
  <1>5. x.at \in {"copyRest", "fork"} => x.cues = cues'[x.source] \/ x.source \in reopened'
    BY <1>1 DEF EditOK, Overtaken, Onward
  <1>6. x.at = "fork" =>
          x.output # "none" /\ (x.output = outputs'[x.source] \/ x.source \in late' \cup reopened')
    BY <1>1 DEF EditOK, Overtaken, Onward
  <1>7. /\ x.at \in {"copyRest", "fork"} => Distinct(x.cues)
        /\ x.at \in {"map", "apply", "write"} => x.target \in Known'
        /\ x.at = "apply" /\ ~x.touched => x.picked = x.names
    BY <1>1 DEF EditOK, Overtaken
  <1> QED
    BY <1>2, <1>3, <1>4, <1>5, <1>6, <1>7 DEF EditOK

LEMMA PublicationKept ==
  ASSUME NEW d \in Operators, PublicationOK(editing[d]), Onward, Kept(editing[d], editing'[d])
  PROVE  PublicationOK(editing[d])'
  <1> DEFINE t == editing[d]  x == editing'[d]
  <1>1. Overtaken(t, x) /\ Known \subseteq Known' /\ late \subseteq late'
    BY DEF Onward, Kept
  <1>2. x.at \in {"validate", "freeze"} \/ Holding(x) => x.source \in Known'
    BY <1>1 DEF PublicationOK, Overtaken, Holding
  <1>3. Holding(x) => revision'[x.source] = "VALIDATED" /\ snapshots'[x.source] = {}
    BY <1>1 DEF Kept, Overtaken, Holding
  <1>4. Holding(x) => /\ cues'[x.source] = cues[x.source]
                      /\ outputs'[x.source] = outputs[x.source] \/ x.source \in late'
    BY <1>1 DEF Kept, Overtaken, Holding, PublicationOK, Onward
  <1>5. x.at \in {"readRest", "insert"} => x.cues = cues'[x.source]
    BY <1>1, <1>4 DEF Overtaken, PublicationOK, Holding
  <1>6. x.at = "insert" => x.source \in late' \/ x.output = outputs'[x.source]
    BY <1>1, <1>4 DEF Overtaken, PublicationOK, Holding
  <1>7. ~x.touched =>
          /\ x.at \in {"validate", "freeze", "readCues", "readRest"} => hasTarget'
          /\ x.at \in {"freeze", "readCues", "readRest"} => outputs'[x.source] = "good"
          /\ x.at = "insert" => x.hasTarget /\ x.output = "good"
    BY <1>1 DEF Overtaken, PublicationOK, Kept, Publishes
  <1> QED
    BY <1>2, <1>3, <1>5, <1>6, <1>7 DEF PublicationOK

\* A step that moves one request and nothing else.
LEMMA OnlyRequest ==
  ASSUME RevisionsInv, NEW c \in Operators, NEW t \in Request,
         editing' = [editing EXCEPT ![c] = t], EditOK(t), PublicationOK(t),
         Holding(t) => Holding(editing[c]) /\ t.source = editing[c].source,
         UNCHANGED <<current, revision, parent, cues, outputs, hasTarget, snapshots, onShow,
                     late, reopened, stray>>,
         edits' \in 0..MaxEdit /\ mishaps' \in 0..MaxMishap
  PROVE  RevisionsInv'
  <1>1. /\ editing' \in [Operators -> Request] /\ editing'[c] = t
        /\ \A d \in Operators : d # c => editing'[d] = editing[d]
    BY DEF RevisionsInv, RevisionsTyped
  <1>2. RevisionsTyped'
    BY <1>1 DEF RevisionsInv, RevisionsTyped
  <1>3. LineageOK' /\ Known' = Known
    BY DEF RevisionsInv, LineageOK, Known, Live
  <1>4. \A r \in Revisions : SnapshotOK(r)'
    BY DEF RevisionsInv, SnapshotOK
  <1>5. EditOK(editing[c])' /\ PublicationOK(editing[c])'
    BY <1>1, <1>3 DEF EditOK, PublicationOK, Sought
  <1>6. \A d \in Operators : d # c => EditOK(editing[d])' /\ PublicationOK(editing[d])'
    BY <1>1, <1>3 DEF RevisionsInv, EditOK, PublicationOK, Sought
  <1>7. HoldersOK'
    BY <1>1 DEF RevisionsInv, HoldersOK
  <1> QED
    BY <1>2, <1>3, <1>4, <1>5, <1>6, <1>7 DEF RevisionsInv

LEMMA RequestEnds ==
  ASSUME RevisionsInv, NEW c \in Operators, End(c),
         UNCHANGED <<current, revision, parent, cues, outputs, hasTarget, snapshots, onShow,
                     late, reopened, stray>>,
         edits' \in 0..MaxEdit /\ mishaps' \in 0..MaxMishap
  PROVE  RevisionsInv'
  BY IdleRequest, OnlyRequest DEF End

LEMMA Unhindered ==
  ASSUME RevisionsInv
  PROVE  /\ edits \in 0..MaxEdit /\ mishaps \in 0..MaxMishap
         /\ Edit => edits' \in 0..MaxEdit
         /\ Mishap => mishaps' \in 0..MaxMishap
  BY RevisionsAssumption DEF RevisionsInv, RevisionsTyped, Edit, Mishap

LEMMA CurrentKnown ==
  ASSUME RevisionsInv
  PROVE  /\ current \in Known /\ current \in Ids /\ current \in Revisions
         /\ revision[current] \in {"DRAFT", "VALIDATED"}
         /\ cues[current] \in Places /\ Distinct(cues[current])
         /\ Known \subseteq Revisions /\ Revisions \subseteq Ids /\ NoRevision \notin Revisions
  BY RevisionsAssumption
     DEF RevisionsInv, RevisionsTyped, LineageOK, Live, Known, Revisions, Ids, NoRevision

LEMMA OperatorKnown ==
  ASSUME RevisionsInv, NEW c \in Operators
  PROVE  editing[c] \in Request /\ EditOK(editing[c]) /\ PublicationOK(editing[c])
  BY DEF RevisionsInv, RevisionsTyped

\* A request for Cues of the current revision, with the places they have.
LEMMA NamingOK ==
  ASSUME RevisionsInv, NEW kind \in {"cue", "reorder", "add", "output"},
         NEW names \in Seq(DOMAIN cues[current])
  PROVE  LET t == Naming(kind, names) IN
         t \in Request /\ EditOK(t) /\ PublicationOK(t) /\ ~Holding(t)
  <1> DEFINE t == Naming(kind, names)
             places == [i \in DOMAIN names |-> cues[current][names[i]]]
  <1>1. /\ Len(names) \in Nat /\ DOMAIN names = 1..Len(names) /\ names \in Seq(CueNames)
        /\ \A i \in DOMAIN names : names[i] \in DOMAIN cues[current]
    BY CurrentKnown, OrderTypes
  <1>2. \A i \in DOMAIN names : cues[current][names[i]] \in 1..MaxPlace
    BY <1>1, CurrentKnown, OrderTypes
  <1>3. places \in Seq(1..MaxPlace) /\ Len(places) = Len(names)
        /\ \A i \in DOMAIN names : places[i] = cues[current][names[i]]
    BY <1>1, <1>2
  <1> HIDE DEF places
  <1>4. t = [NoRequest EXCEPT !.kind = kind, !.at = "ensure", !.from = current,
                              !.names = names, !.places = places]
    BY DEF Naming, places
  <1>5. /\ t \in Request /\ t.at = "ensure" /\ t.from = current /\ t.names = names
        /\ t.places = places
    BY <1>1, <1>3, <1>4, IdleRequest, CurrentKnown DEF Request, Stages
  <1> HIDE DEF t
  <1>6. Sought(t) = cues[t.from]
    BY <1>5 DEF Sought
  <1>7. EditOK(t)
    BY <1>1, <1>3, <1>5, <1>6, CurrentKnown DEF EditOK
  <1>8. PublicationOK(t) /\ ~Holding(t)
    BY <1>5 DEF PublicationOK, Holding
  <1> QED
    BY <1>5, <1>7, <1>8 DEF t

LEMMA Requests ==
  ASSUME RevisionsInv, NEW c \in Operators,
         RequestCue(c) \/ RequestReorder(c) \/ RequestOther(c) \/ ValidateTarget(c)
  PROVE  RevisionsInv'
  <1>1. ASSUME NEW kind \in {"cue", "reorder", "add", "output"},
               NEW names \in Seq(DOMAIN cues[current]), Begin(c, Naming(kind, names))
        PROVE  RevisionsInv'
    <2> DEFINE t == Naming(kind, names)
    <2>1. /\ editing' = [editing EXCEPT ![c] = t]
          /\ UNCHANGED <<current, revision, parent, cues, outputs, hasTarget, snapshots, onShow,
                         late, reopened, stray, edits, mishaps>>
      BY <1>1 DEF Begin
    <2>2. t \in Request /\ EditOK(t) /\ PublicationOK(t) /\ ~Holding(t)
      BY NamingOK
    <2> HIDE DEF t
    <2> QED
      BY <2>1, <2>2, OnlyRequest, Unhindered
  <1>2. CASE RequestCue(c)
    <2>1. PICK n \in DOMAIN cues[current] : Begin(c, Naming("cue", <<n>>))
      BY <1>2 DEF RequestCue
    <2> DEFINE N == DOMAIN cues[current]
    <2>2. <<n>> \in Seq(N)
      <3>1. n \in N
        OBVIOUS
      <3> HIDE DEF N
      <3> QED
        BY <3>1
    <2> QED
      BY <1>1, <2>1, <2>2
  <1>3. CASE RequestReorder(c)
    <2>1. PICK s \in Arrangements(DOMAIN cues[current]) : Begin(c, Naming("reorder", s))
      BY <1>3 DEF RequestReorder
    <2>2. s \in [1..Cardinality(DOMAIN cues[current]) -> DOMAIN cues[current]]
      BY DEF Arrangements
    <2>3. Cardinality(DOMAIN cues[current]) \in Nat
      BY CurrentKnown, OrderTypes, RevisionsAssumption, FS_Subset, FS_CardinalityType
    <2>4. s \in Seq(DOMAIN cues[current])
      BY <2>2, <2>3
    <2> QED
      BY <1>1, <2>1, <2>4
  <1>4. CASE RequestOther(c)
    <2>1. PICK kind \in {"add", "output"} : Begin(c, Naming(kind, << >>))
      BY <1>4 DEF RequestOther
    <2>2. << >> \in Seq(DOMAIN cues[current]) /\ kind \in {"cue", "reorder", "add", "output"}
      OBVIOUS
    <2> QED
      BY <1>1, <2>1, <2>2
  <1>5. CASE ValidateTarget(c)
    <2> DEFINE t == [NoRequest EXCEPT !.kind = "publish", !.at = "validate", !.source = current]
    <2>1. /\ editing' = [editing EXCEPT ![c] = t] /\ hasTarget
          /\ UNCHANGED <<current, revision, parent, cues, outputs, hasTarget, snapshots, onShow,
                         late, reopened, stray, edits, mishaps>>
      BY <1>5 DEF ValidateTarget, Begin
    <2>2. t \in Request /\ t.at = "validate" /\ t.source = current
      BY IdleRequest, CurrentKnown DEF Request, Stages
    <2> HIDE DEF t
    <2>3. EditOK(t) /\ PublicationOK(t) /\ ~Holding(t)
      BY <2>1, <2>2, CurrentKnown DEF EditOK, PublicationOK, Holding, Copying
    <2> QED
      BY <2>1, <2>2, <2>3, OnlyRequest, Unhindered
  <1> QED
    BY <1>2, <1>3, <1>4, <1>5

LEMMA DraftEnsured ==
  ASSUME RevisionsInv, NEW c \in Operators, EnsureDraft(c)
  PROVE  RevisionsInv'
  <1> DEFINE t == editing[c]
  <1>1. /\ t.at = "ensure"
        /\ UNCHANGED <<current, revision, parent, cues, outputs, hasTarget, snapshots, onShow,
                       late, reopened, stray, edits, mishaps>>
    BY DEF EnsureDraft, Doing
  <1>2. t \in Request /\ EditOK(t) /\ PublicationOK(t)
    BY OperatorKnown
  <1>3. CASE End(c)
    BY <1>1, <1>3, RequestEnds, Unhindered
  <1>4. CASE editing' = [editing EXCEPT ![c].target = current, ![c].at = "map"]
    <2> DEFINE x == [t EXCEPT !.target = current, !.at = "map"]
    <2>1. editing' = [editing EXCEPT ![c] = x]
      BY <1>4 DEF RevisionsInv, RevisionsTyped
    <2>2. /\ x \in Request /\ x.at = "map" /\ x.target = current /\ x.from = t.from
          /\ x.names = t.names /\ x.places = t.places /\ x.touched = t.touched
      BY <1>2, CurrentKnown DEF Request, Stages
    <2> HIDE DEF x
    <2>3. Sought(x) = Sought(t)
      BY <1>1, <2>2 DEF Sought
    <2>4. EditOK(x) /\ PublicationOK(x) /\ ~Holding(x)
      BY <1>1, <1>2, <2>2, <2>3, CurrentKnown DEF EditOK, PublicationOK, Holding, Copying
    <2> QED
      BY <1>1, <2>1, <2>2, <2>4, OnlyRequest, Unhindered
  <1>5. CASE /\ revision[current] # "DRAFT"
             /\ editing' = [editing EXCEPT ![c].source = current, ![c].at = "copyCues"]
    <2> DEFINE x == [t EXCEPT !.source = current, !.at = "copyCues"]
    <2>1. editing' = [editing EXCEPT ![c] = x]
      BY <1>5 DEF RevisionsInv, RevisionsTyped
    <2>2. /\ x \in Request /\ x.at = "copyCues" /\ x.source = current /\ x.from = t.from
          /\ x.names = t.names /\ x.places = t.places /\ x.touched = t.touched
      BY <1>2, CurrentKnown DEF Request, Stages
    <2> HIDE DEF x
    <2>3. Sought(x) = Sought(t)
      BY <1>1, <2>2 DEF Sought
    <2>4. EditOK(x) /\ PublicationOK(x) /\ ~Holding(x)
      BY <1>1, <1>2, <1>5, <2>2, <2>3, CurrentKnown DEF EditOK, PublicationOK, Holding, Copying
    <2> QED
      BY <1>1, <2>1, <2>2, <2>4, OnlyRequest, Unhindered
  <1> QED
    BY <1>3, <1>4, <1>5 DEF EnsureDraft

LEMMA CuesCopied ==
  ASSUME RevisionsInv, NEW c \in Operators, CopyCues(c)
  PROVE  RevisionsInv'
  <1> DEFINE t == editing[c]  x == [t EXCEPT !.cues = cues[t.source], !.at = "copyRest"]
  <1>1. /\ t.at = "copyCues" /\ editing' = [editing EXCEPT ![c] = x]
        /\ UNCHANGED <<current, revision, parent, cues, outputs, hasTarget, snapshots, onShow,
                       late, reopened, stray, edits, mishaps>>
    BY DEF CopyCues, Doing, RevisionsInv, RevisionsTyped
  <1>2. t \in Request /\ EditOK(t) /\ PublicationOK(t)
    BY OperatorKnown
  <1>3. t.source \in Known /\ cues[t.source] \in Places /\ Distinct(cues[t.source])
    BY <1>1, <1>2 DEF EditOK, RevisionsInv, RevisionsTyped, Known
  <1>4. /\ x \in Request /\ x.at = "copyRest" /\ x.source = t.source /\ x.from = t.from
        /\ x.names = t.names /\ x.places = t.places /\ x.touched = t.touched
        /\ x.cues = cues[t.source]
    BY <1>2, <1>3 DEF Request, Stages
  <1> HIDE DEF x
  <1>5. Sought(x) = Sought(t)
    BY <1>1, <1>4 DEF Sought
  <1>6. EditOK(x) /\ PublicationOK(x) /\ ~Holding(x)
    BY <1>1, <1>2, <1>3, <1>4, <1>5 DEF EditOK, PublicationOK, Holding, Copying
  <1> QED
    BY <1>1, <1>4, <1>6, OnlyRequest, Unhindered

LEMMA RestCopied ==
  ASSUME RevisionsInv, NEW c \in Operators, CopyRest(c)
  PROVE  RevisionsInv'
  <1> DEFINE t == editing[c]  x == [t EXCEPT !.output = outputs[t.source], !.at = "fork"]
  <1>1. /\ t.at = "copyRest" /\ editing' = [editing EXCEPT ![c] = x]
        /\ UNCHANGED <<current, revision, parent, cues, outputs, hasTarget, snapshots, onShow,
                       late, reopened, stray, edits, mishaps>>
    BY DEF CopyRest, Doing, RevisionsInv, RevisionsTyped
  <1>2. t \in Request /\ EditOK(t) /\ PublicationOK(t)
    BY OperatorKnown
  <1>3. t.source \in Known /\ outputs[t.source] \in Values
    BY <1>1, <1>2 DEF EditOK, RevisionsInv, RevisionsTyped, Known
  <1>4. /\ x \in Request /\ x.at = "fork" /\ x.source = t.source /\ x.from = t.from
        /\ x.names = t.names /\ x.places = t.places /\ x.touched = t.touched
        /\ x.cues = t.cues /\ x.output = outputs[t.source]
    BY <1>2, <1>3 DEF Request, Stages
  <1> HIDE DEF x
  <1>5. Sought(x) = Sought(t) /\ x.output # "none"
    BY <1>1, <1>3, <1>4 DEF Sought, Values
  <1>6. EditOK(x) /\ PublicationOK(x) /\ ~Holding(x)
    BY <1>1, <1>2, <1>3, <1>4, <1>5 DEF EditOK, PublicationOK, Holding, Copying
  <1> QED
    BY <1>1, <1>4, <1>6, OnlyRequest, Unhindered

\* The place finds the copy that has the name, if nothing has changed.
LEMMA CuesMapped ==
  ASSUME RevisionsInv, NEW c \in Operators, MapCues(c)
  PROVE  RevisionsInv'
  <1> DEFINE t == editing[c]
             copies(i) == CopiesAt(cues[t.target], t.places[i])
             picked == IF t.target = t.from THEN t.names
                       ELSE [i \in DOMAIN t.places |-> CHOOSE n \in copies(i) : TRUE]
             x == [t EXCEPT !.picked = picked, !.places = << >>, !.from = NoRevision,
                            !.source = NoRevision, !.at = "apply"]
  <1>1. /\ t.at = "map"
        /\ UNCHANGED <<current, revision, parent, cues, outputs, hasTarget, snapshots, onShow,
                       late, reopened, stray, edits, mishaps>>
    BY DEF MapCues, Doing
  <1>2. /\ t \in Request /\ EditOK(t) /\ PublicationOK(t) /\ t.target \in Known
        /\ Len(t.names) = Len(t.places)
        /\ t.names \in Seq(CueNames) /\ t.places \in Seq(1..MaxPlace)
    BY <1>1, OperatorKnown, RequestTypes DEF EditOK, Copying
  <1>3. CASE End(c)
    BY <1>1, <1>3, RequestEnds, Unhindered
  <1>4. CASE /\ t.target = t.from \/ \A i \in DOMAIN t.places : copies(i) # {}
             /\ editing' = [editing EXCEPT ![c].picked = picked, ![c].places = << >>,
                              ![c].from = NoRevision, ![c].source = NoRevision, ![c].at = "apply"]
    <2>1. /\ cues[t.target] \in Places /\ Distinct(cues[t.target])
          /\ DOMAIN cues[t.target] \subseteq CueNames
      BY <1>2, OrderTypes DEF RevisionsInv, RevisionsTyped, Known
    <2>2. picked \in Seq(CueNames)
      <3>1. CASE t.target = t.from
        BY <1>2, <3>1
      <3>2. CASE t.target # t.from
        <4>1. \A i \in DOMAIN t.places : (CHOOSE n \in copies(i) : TRUE) \in CueNames
          BY <1>4, <2>1, <3>2 DEF CopiesAt
        <4>2. DOMAIN t.places = 1..Len(t.places) /\ Len(t.places) \in Nat
          BY <1>2
        <4>3. [i \in DOMAIN t.places |-> CHOOSE n \in copies(i) : TRUE] \in Seq(CueNames)
          BY <4>1, <4>2
        <4> QED
          BY <3>2, <4>3
      <3> QED
        BY <3>1, <3>2
    <2>3. ~t.touched => picked = t.names
      <3>1. ASSUME ~t.touched, t.target # t.from PROVE picked = t.names
        <4>1. /\ cues[t.target] = cues[t.from]
              /\ \A i \in DOMAIN t.names :
                   t.names[i] \in DOMAIN cues[t.from] /\ cues[t.from][t.names[i]] = t.places[i]
          BY <1>1, <1>2, <3>1 DEF EditOK, Copying, Sought
        <4>2. \A i \in DOMAIN t.names : copies(i) = {t.names[i]}
          BY <2>1, <4>1 DEF CopiesAt, Distinct
        <4>3. \A i \in DOMAIN t.names : (CHOOSE n \in copies(i) : TRUE) = t.names[i]
          BY <4>2
        <4>4. /\ DOMAIN t.names = DOMAIN t.places
              /\ t.names = [i \in DOMAIN t.names |-> t.names[i]]
          BY <1>2
        <4>5. [i \in DOMAIN t.places |-> CHOOSE n \in copies(i) : TRUE] = t.names
          BY <4>3, <4>4
        <4> QED
          BY <3>1, <4>5
      <3> QED
        BY <3>1
    <2> HIDE DEF picked
    <2>4. editing' = [editing EXCEPT ![c] = x]
      BY <1>4 DEF RevisionsInv, RevisionsTyped
    <2>5. << >> \in Seq(1..MaxPlace) /\ NoRevision \in Ids
      BY RevisionsAssumption DEF NoRevision, Ids
    <2>6. /\ x \in Request /\ x.at = "apply" /\ x.target = t.target /\ x.names = t.names
          /\ x.picked = picked /\ x.touched = t.touched
      BY <1>2, <2>2, <2>5 DEF Request, Stages
    <2> HIDE DEF x
    <2>7. EditOK(x) /\ PublicationOK(x) /\ ~Holding(x)
      BY <1>2, <2>3, <2>6 DEF EditOK, PublicationOK, Holding, Copying
    <2> QED
      BY <1>1, <2>4, <2>6, <2>7, OnlyRequest, Unhindered
  <1> QED
    BY <1>3, <1>4 DEF MapCues

\* What only moves the request on to another step.
LEMMA MovesOn ==
  ASSUME RevisionsInv, NEW c \in Operators, NEW s \in Stages, GoOn(c, s),
         \/ Doing(c, "apply") /\ s = "write"
         \/ Doing(c, "validate") /\ s = "freeze" /\ outputs[editing[c].source] = "good"
         \/ Holding(editing[c]) /\ s = "reopen",
         UNCHANGED <<current, revision, parent, cues, outputs, hasTarget, snapshots, onShow,
                     late, reopened, stray>>,
         edits' \in 0..MaxEdit /\ mishaps' \in 0..MaxMishap
  PROVE  RevisionsInv'
  <1> DEFINE t == editing[c]  x == [t EXCEPT !.at = s]
  <1>1. editing' = [editing EXCEPT ![c] = x]
    BY DEF GoOn, RevisionsInv, RevisionsTyped
  <1>2. t \in Request /\ EditOK(t) /\ PublicationOK(t)
    BY OperatorKnown
  <1>3. /\ x \in Request /\ x.at = s /\ x.source = t.source /\ x.target = t.target
        /\ x.touched = t.touched
    BY <1>2 DEF Request
  <1> HIDE DEF x
  <1>4. EditOK(x)
    BY <1>2, <1>3 DEF EditOK, Copying, Doing, Holding
  <1>5. PublicationOK(x) /\ (Holding(x) => Holding(t) /\ x.source = t.source)
    BY <1>2, <1>3 DEF PublicationOK, Doing, Holding
  <1> QED
    BY <1>1, <1>3, <1>4, <1>5, OnlyRequest

LEMMA RevisionsRead ==
  ASSUME RevisionsInv, NEW c \in Operators, ReadCues(c) \/ ReadRest(c)
  PROVE  RevisionsInv'
  <1> DEFINE t == editing[c]
  <1>1. UNCHANGED <<current, revision, parent, cues, outputs, hasTarget, snapshots, onShow,
                    late, reopened, stray, edits, mishaps>>
    BY DEF ReadCues, ReadRest
  <1>2. t \in Request /\ EditOK(t) /\ PublicationOK(t)
    BY OperatorKnown
  <1>3. CASE ReadCues(c)
    <2> DEFINE x == [t EXCEPT !.cues = cues[t.source], !.at = "readRest"]
    <2>1. t.at = "readCues" /\ t.source \in Known /\ revision[t.source] = "VALIDATED"
          /\ snapshots[t.source] = {} /\ cues[t.source] \in Places
      BY <1>2, <1>3 DEF ReadCues, Doing, PublicationOK, Holding, RevisionsInv, RevisionsTyped, Known
    <2>2. editing' = [editing EXCEPT ![c] = x]
      BY <1>3, <2>1 DEF ReadCues, RevisionsInv, RevisionsTyped
    <2>3. /\ x \in Request /\ x.at = "readRest" /\ x.source = t.source /\ x.touched = t.touched
          /\ x.cues = cues[t.source]
      BY <1>2, <2>1 DEF Request, Stages
    <2> HIDE DEF x
    <2>4. EditOK(x) /\ PublicationOK(x) /\ Holding(t)
      BY <1>2, <2>1, <2>3 DEF EditOK, PublicationOK, Holding, Copying
    <2> QED
      BY <1>1, <2>2, <2>3, <2>4, OnlyRequest, Unhindered
  <1>4. CASE ReadRest(c)
    <2> DEFINE x == [t EXCEPT !.output = outputs[t.source], !.hasTarget = hasTarget,
                              !.at = "insert"]
    <2>1. t.at = "readRest" /\ t.source \in Known /\ outputs[t.source] \in Values
          /\ hasTarget \in BOOLEAN
      BY <1>2, <1>4 DEF ReadRest, Doing, PublicationOK, Holding, RevisionsInv, RevisionsTyped, Known
    <2>2. editing' = [editing EXCEPT ![c] = x]
      BY <1>4 DEF ReadRest, RevisionsInv, RevisionsTyped
    <2>3. /\ x \in Request /\ x.at = "insert" /\ x.source = t.source /\ x.touched = t.touched
          /\ x.cues = t.cues /\ x.output = outputs[t.source] /\ x.hasTarget = hasTarget
      BY <1>2, <2>1 DEF Request, Stages
    <2> HIDE DEF x
    <2>4. EditOK(x) /\ PublicationOK(x) /\ Holding(t)
      BY <1>2, <2>1, <2>3 DEF EditOK, PublicationOK, Holding, Copying
    <2> QED
      BY <1>1, <2>2, <2>3, <2>4, OnlyRequest, Unhindered
  <1> QED
    BY <1>3, <1>4

LEMMA RequestMoves ==
  ASSUME RevisionsInv, NEW c \in Operators,
         CheckOutput(c) \/ ValidateRest(c) \/ FailRequest(c)
  PROVE  RevisionsInv'
  <1>1. /\ UNCHANGED <<current, revision, parent, cues, outputs, hasTarget, snapshots, onShow,
                       late, reopened, stray>>
        /\ edits' \in 0..MaxEdit /\ mishaps' \in 0..MaxMishap
    BY Unhindered DEF CheckOutput, ValidateRest, FailRequest
  <1>2. \/ End(c)
        \/ Doing(c, "apply") /\ GoOn(c, "write")
        \/ Doing(c, "validate") /\ GoOn(c, "freeze") /\ outputs[editing[c].source] = "good"
        \/ Holding(editing[c]) /\ GoOn(c, "reopen")
    BY DEF CheckOutput, ValidateRest, FailRequest, Holding
  <1>3. {"write", "freeze", "reopen"} \subseteq Stages
    BY DEF Stages
  <1> QED
    BY <1>1, <1>2, <1>3, RequestEnds, MovesOn

-----------------------------------------------------------------------------
(* Steps that change the configuration.                                    *)

LEMMA Overtakes ==
  ASSUME RevisionsInv, NEW d \in Operators, NEW b \in BOOLEAN,
         NEW x, x = [editing[d] EXCEPT !.touched = @ \/ b]
  PROVE  x \in Request /\ Overtaken(editing[d], x) /\ (x.touched <=> editing[d].touched \/ b)
  <1>1. editing[d] \in Request /\ editing[d].touched \in BOOLEAN
    BY OperatorKnown, RequestTypes
  <1>2. (editing[d].touched \/ b) \in BOOLEAN
    OBVIOUS
  <1> QED
    BY <1>1, <1>2 DEF Request, Overtaken

LEMMA OthersOvertaken ==
  ASSUME RevisionsInv, RevisionsTyped', LineageOK', \A r \in Revisions : SnapshotOK(r)',
         \A r \in stray' : parent'[r] \in late' \cup reopened', Onward,
         \A d \in Operators : editing'[d] = NoRequest \/ Kept(editing[d], editing'[d])
  PROVE  RevisionsInv'
  <1>1. ASSUME NEW d \in Operators
        PROVE  EditOK(editing[d])' /\ PublicationOK(editing[d])'
    <2>1. CASE editing'[d] = NoRequest
      BY <2>1, IdleRequest DEF EditOK, PublicationOK, Holding, Copying
    <2>2. CASE Kept(editing[d], editing'[d])
      BY <2>2, OperatorKnown, EditKept, PublicationKept
    <2> QED
      BY <2>1, <2>2
  <1>2. \A d \in Operators :
          Holding(editing'[d]) => Holding(editing[d]) /\ editing'[d].source = editing[d].source
    BY IdleRequest DEF Kept, Overtaken, Holding
  <1>3. HoldersOK'
    BY <1>2 DEF RevisionsInv, HoldersOK
  <1> QED
    BY <1>1, <1>3 DEF RevisionsInv

\* The Cues of a DRAFT are written.
LEMMA CuesWritten ==
  ASSUME RevisionsInv, NEW r \in Known, revision[r] = "DRAFT", NEW o \in Places, Distinct(o),
         cues' = [cues EXCEPT ![r] = o],
         UNCHANGED <<current, revision, parent, outputs, hasTarget, snapshots, onShow, late,
                     reopened, stray>>,
         edits' \in 0..MaxEdit /\ mishaps' \in 0..MaxMishap,
         editing' = [d \in Operators |-> editing'[d]],
         \A d \in Operators :
           \/ editing'[d] = NoRequest
           \/ editing'[d] = [editing[d] EXCEPT !.touched = @ \/ Mapping(d)]
  PROVE  RevisionsInv'
  <1>1. /\ cues' \in [Revisions -> Places] /\ cues'[r] = o
        /\ \A q \in Revisions : q # r => cues'[q] = cues[q]
        /\ \A q \in Revisions : Distinct(cues'[q])
    BY DEF RevisionsInv, RevisionsTyped, Known
  <1>2. ASSUME NEW d \in Operators
        PROVE  /\ editing'[d] \in Request
               /\ editing'[d] = NoRequest \/ Kept(editing[d], editing'[d])
    <2>1. CASE editing'[d] = NoRequest
      BY <2>1, IdleRequest
    <2>2. CASE editing'[d] = [editing[d] EXCEPT !.touched = @ \/ Mapping(d)]
      <3>1. Mapping(d) \in BOOLEAN /\ (Mapping(d) <=> Copying(editing[d]))
        BY DEF Mapping, Copying
      <3>2. /\ editing'[d] \in Request /\ Overtaken(editing[d], editing'[d])
            /\ editing'[d].touched <=> editing[d].touched \/ Copying(editing[d])
        BY <2>2, <3>1, Overtakes
      <3>3. Holding(editing[d]) =>
              revision[editing[d].source] = "VALIDATED" /\ snapshots[editing[d].source] = {}
        BY OperatorKnown DEF PublicationOK
      <3>4. \A q \in Known : cues'[q] = cues[q] \/ revision[q] = "DRAFT"
        BY <1>1 DEF Known
      <3> QED
        BY <3>2, <3>3, <3>4 DEF Kept, Copying
    <2> QED
      BY <2>1, <2>2
  <1>3. RevisionsTyped'
    BY <1>1, <1>2 DEF RevisionsInv, RevisionsTyped
  <1>4. LineageOK' /\ Onward
    BY DEF RevisionsInv, LineageOK, Known, Live, Onward
  <1>5. \A q \in Revisions : SnapshotOK(q)'
    BY <1>1 DEF RevisionsInv, SnapshotOK
  <1> QED
    BY <1>2, <1>3, <1>4, <1>5, OthersOvertaken DEF RevisionsInv

LEMMA OrdersWritten ==
  ASSUME NEW o \in Places, Distinct(o)
  PROVE  /\ \A n \in CueNames : \A w \in Replacements(o, n) : w \in Places /\ Distinct(w)
         /\ \A n : Deletion(o, n) \in Places /\ Distinct(Deletion(o, n))
         /\ \A w \in Additions(o) : w \in Places /\ Distinct(w)
  <1>1. DOMAIN o \subseteq CueNames /\ o \in [DOMAIN o -> 1..MaxPlace]
    BY OrderTypes
  <1>2. ASSUME NEW n \in CueNames, NEW p \in 1..MaxPlace PROVE With(o, n, p) \in Places
    <2>1. /\ DOMAIN With(o, n, p) = DOMAIN o \cup {n}
          /\ With(o, n, p) \in [DOMAIN o \cup {n} -> 1..MaxPlace]
      BY <1>1 DEF With
    <2> QED
      BY <1>1, <2>1, OrderTypes
  <1>3. ASSUME NEW n PROVE Deletion(o, n) \in Places /\ Distinct(Deletion(o, n))
    <2>1. /\ DOMAIN Deletion(o, n) = DOMAIN o \ {n}
          /\ Deletion(o, n) \in [DOMAIN o \ {n} -> 1..MaxPlace]
          /\ \A m \in DOMAIN o \ {n} : Deletion(o, n)[m] = o[m]
      BY <1>1 DEF Deletion
    <2> QED
      BY <1>1, <2>1, OrderTypes DEF Distinct
  <1>4. Fresh \subseteq CueNames
    BY DEF Fresh
  <1> QED
    BY <1>2, <1>3, <1>4 DEF Replacements, Additions

\* The order asked for has a place for each Cue.
LEMMA Reordered ==
  ASSUME NEW o \in Places, Distinct(o), NEW s \in Arrangements(DOMAIN o)
  PROVE  LET w == [n \in DOMAIN o |-> CHOOSE i \in DOMAIN s : s[i] = n]
         IN  w \in Places /\ Distinct(w)
  <1> DEFINE N == DOMAIN o  k == Cardinality(N)
             w == [n \in N |-> CHOOSE i \in DOMAIN s : s[i] = n]
  <1>1. N \subseteq CueNames /\ o \in [N -> 1..MaxPlace]
    BY OrderTypes
  <1>2. o \in Injection(N, 1..MaxPlace)
    BY <1>1 DEF Distinct, Injection, IsInjective
  <1>3. IsFiniteSet(1..MaxPlace) /\ Cardinality(1..MaxPlace) = MaxPlace /\ MaxPlace \in Nat
    BY RevisionsAssumption, FS_Interval
  <1>4. k <= MaxPlace /\ k \in Nat
    BY <1>2, <1>3, FS_Injection, FS_CardinalityType
  <1>5. s \in [1..k -> N] /\ \A n \in N : \E i \in DOMAIN s : s[i] = n
    BY DEF Arrangements
  <1>6. \A n \in N : w[n] \in 1..k /\ s[w[n]] = n
    BY <1>5
  <1> HIDE DEF w, k
  <1>7. DOMAIN w = N /\ w \in [N -> 1..MaxPlace]
    <2>1. \A n \in N : w[n] \in 1..MaxPlace
      BY <1>3, <1>4, <1>6
    <2>2. w = [n \in N |-> w[n]]
      BY DEF w
    <2> QED
      BY <2>1, <2>2
  <1>8. Distinct(w)
    BY <1>6, <1>7 DEF Distinct
  <1> QED
    BY <1>1, <1>7, <1>8, OrderTypes DEF w

LEMMA CuesApplied ==
  ASSUME RevisionsInv, NEW c \in Operators, ApplyCue(c) \/ ApplyReorder(c) \/ AddCue(c)
  PROVE  RevisionsInv'
  <1> DEFINE t == editing[c]  r == t.target
  <1>1. /\ t.at = "apply" /\ r \in Known
        /\ cues[r] \in Places /\ Distinct(cues[r]) /\ DOMAIN cues[r] \subseteq CueNames
    BY OperatorKnown, OrderTypes
       DEF ApplyCue, ApplyReorder, AddCue, Doing, EditOK, RevisionsInv, RevisionsTyped, Known
  <1>2. /\ UNCHANGED <<current, revision, parent, outputs, hasTarget, snapshots, onShow, late,
                       reopened, stray>>
        /\ mishaps' \in 0..MaxMishap
    BY Unhindered DEF ApplyCue, ApplyReorder, AddCue
  <1>3. CASE RefuseEdit(c)
    BY <1>2, <1>3, RequestEnds, Unhindered DEF RefuseEdit
  <1>4. ASSUME NEW o \in Places, Distinct(o), SetCues(r, o), MayWriteCues(r), Edit,
               EndTouching(c, Mapping)
        PROVE  RevisionsInv'
    <2>1. /\ revision[r] = "DRAFT" /\ cues' = [cues EXCEPT ![r] = o] /\ edits' \in 0..MaxEdit
          /\ editing' = [d \in Operators |-> editing'[d]]
          /\ \A d \in Operators :
               \/ editing'[d] = NoRequest
               \/ editing'[d] = [editing[d] EXCEPT !.touched = @ \/ Mapping(d)]
      BY <1>4, Unhindered DEF SetCues, MayWriteCues, EndTouching
    <2> QED
      BY <1>1, <1>2, <1>4, <2>1, CuesWritten
  <1>5. CASE ApplyCue(c)
    <2>1. CASE /\ MayWriteCues(r) /\ t.picked[1] \in DOMAIN cues[r] /\ Edit
               /\ \E o \in Replacements(cues[r], t.picked[1]) \cup {Deletion(cues[r], t.picked[1])}
                             \cup Additions(cues[r]) : SetCues(r, o)
               /\ EndTouching(c, Mapping)
      BY <1>1, <1>4, <2>1, OrdersWritten
    <2> QED
      BY <1>3, <1>5, <2>1 DEF ApplyCue
  <1>6. CASE ApplyReorder(c)
    <2> DEFINE N == DOMAIN cues[r]  w == [n \in N |-> CHOOSE i \in DOMAIN t.picked : t.picked[i] = n]
    <2>1. CASE /\ MayWriteCues(r) /\ t.picked \in Arrangements(N) /\ Edit
               /\ SetCues(r, w) /\ EndTouching(c, Mapping)
      <3>1. w \in Places /\ Distinct(w)
        BY <1>1, <2>1, Reordered
      <3> HIDE DEF w
      <3> QED
        BY <1>4, <2>1, <3>1
    <2> QED
      BY <1>3, <1>6, <2>1 DEF ApplyReorder
  <1>7. CASE AddCue(c)
    <2>1. CASE /\ MayWriteCues(r) /\ Edit /\ \E o \in Additions(cues[r]) : SetCues(r, o)
               /\ EndTouching(c, Mapping)
      BY <1>1, <1>4, <2>1, OrdersWritten
    <2> QED
      BY <1>3, <1>7, <2>1 DEF AddCue
  <1> QED
    BY <1>5, <1>6, <1>7

LEMMA BatchApplied ==
  ASSUME RevisionsInv, ApplyBatch
  PROVE  RevisionsInv'
  <1>1. /\ revision[current] = "DRAFT" /\ edits' \in 0..MaxEdit /\ mishaps' \in 0..MaxMishap
        /\ UNCHANGED <<current, revision, parent, outputs, hasTarget, snapshots, onShow, late,
                       reopened, stray>>
        /\ editing' = [d \in Operators |-> editing'[d]]
        /\ \A d \in Operators : editing'[d] = [editing[d] EXCEPT !.touched = @ \/ Mapping(d)]
    BY Unhindered DEF ApplyBatch, MayWriteCues, Touching
  <1> DEFINE A == Additions(cues[current])
             N == DOMAIN cues[current]
             B == UNION {Replacements(cues[current], n) : n \in N}
  <1>2. PICK o \in A \cup B : SetCues(current, o)
    BY DEF ApplyBatch
  <1>3. /\ \A w \in A : w \in Places /\ Distinct(w)
        /\ \A n \in N : \A w \in Replacements(cues[current], n) : w \in Places /\ Distinct(w)
    BY OrdersWritten, CurrentKnown, OrderTypes
  <1>4. \A w \in B : w \in Places /\ Distinct(w)
    BY <1>3
  <1>5. o \in Places /\ Distinct(o) /\ cues' = [cues EXCEPT ![current] = o]
    BY <1>2, <1>3, <1>4 DEF SetCues
  <1> HIDE DEF A, B, N
  <1> QED
    BY <1>1, <1>5, CurrentKnown, CuesWritten

\* Content of one statement is written: publications are overtaken.
LEMMA RestWritten ==
  ASSUME RevisionsInv, outputs' \in [Revisions -> Values], hasTarget' \in BOOLEAN,
         \A r \in Known : outputs'[r] = outputs[r] \/ revision[r] = "DRAFT" \/ r \in late',
         late \subseteq late',
         UNCHANGED <<current, revision, parent, cues, snapshots, onShow, reopened, stray>>,
         edits' \in 0..MaxEdit /\ mishaps' \in 0..MaxMishap,
         editing' = [d \in Operators |-> editing'[d]],
         \A d \in Operators :
           \/ editing'[d] = NoRequest
           \/ editing'[d] = [editing[d] EXCEPT !.touched = @ \/ Publishing(d)]
  PROVE  RevisionsInv'
  <1>1. ASSUME NEW d \in Operators
        PROVE  /\ editing'[d] \in Request
               /\ editing'[d] = NoRequest \/ Kept(editing[d], editing'[d])
    <2>1. CASE editing'[d] = NoRequest
      BY <2>1, IdleRequest
    <2>2. CASE editing'[d] = [editing[d] EXCEPT !.touched = @ \/ Publishing(d)]
      <3>1. Publishing(d) \in BOOLEAN /\ (Publishing(d) <=> Publishes(editing[d]))
        BY DEF Publishing, Publishes
      <3>2. /\ editing'[d] \in Request /\ Overtaken(editing[d], editing'[d])
            /\ editing'[d].touched <=> editing[d].touched \/ Publishes(editing[d])
        BY <2>2, <3>1, Overtakes
      <3>3. Holding(editing[d]) =>
              revision[editing[d].source] = "VALIDATED" /\ snapshots[editing[d].source] = {}
        BY OperatorKnown DEF PublicationOK
      <3> QED
        BY <3>2, <3>3 DEF Kept
    <2> QED
      BY <2>1, <2>2
  <1>2. RevisionsTyped'
    BY <1>1 DEF RevisionsInv, RevisionsTyped
  <1>3. LineageOK' /\ Onward
    BY DEF RevisionsInv, LineageOK, Known, Live, Onward
  <1>4. \A r \in Revisions : SnapshotOK(r)'
    BY DEF RevisionsInv, SnapshotOK, Known
  <1>5. \A r \in stray' : parent'[r] \in late' \cup reopened'
    BY DEF RevisionsInv
  <1> QED
    BY <1>1, <1>2, <1>3, <1>4, <1>5, OthersOvertaken

LEMMA OutputWritten ==
  ASSUME RevisionsInv, NEW c \in Operators, WriteOutput(c)
  PROVE  RevisionsInv'
  <1> DEFINE r == editing[c].target
  <1>1. r \in Known /\ r \in Revisions
    BY OperatorKnown, CurrentKnown DEF WriteOutput, Doing, EditOK
  <1>2. /\ UNCHANGED <<current, revision, parent, cues, hasTarget, snapshots, onShow, reopened,
                       stray>>
        /\ mishaps' \in 0..MaxMishap /\ hasTarget' \in BOOLEAN
    BY Unhindered DEF WriteOutput, RevisionsInv, RevisionsTyped
  <1>3. CASE End(c) /\ UNCHANGED <<outputs, late, edits>>
    BY <1>2, <1>3, RequestEnds, Unhindered
  <1>4. CASE /\ Edit /\ \E value \in {"good", "reserved"} : outputs' = [outputs EXCEPT ![r] = value]
             /\ late' = IF revision[r] = "DRAFT" THEN late ELSE late \cup {r}
             /\ EndTouching(c, Publishing)
    <2>1. /\ outputs' \in [Revisions -> Values] /\ edits' \in 0..MaxEdit /\ late \subseteq late'
          /\ \A q \in Known : outputs'[q] = outputs[q] \/ revision[q] = "DRAFT" \/ q \in late'
      BY <1>1, <1>4, Unhindered DEF RevisionsInv, RevisionsTyped, Values, Known
    <2>2. /\ editing' = [d \in Operators |-> editing'[d]]
          /\ \A d \in Operators :
               \/ editing'[d] = NoRequest
               \/ editing'[d] = [editing[d] EXCEPT !.touched = @ \/ Publishing(d)]
      BY <1>4 DEF EndTouching
    <2> QED
      BY <1>2, <2>1, <2>2, RestWritten
  <1> QED
    BY <1>3, <1>4 DEF WriteOutput

LEMMA TargetChanged ==
  ASSUME RevisionsInv, ChangeTarget
  PROVE  RevisionsInv'
  <1>1. /\ UNCHANGED <<current, revision, parent, cues, outputs, snapshots, onShow, late,
                       reopened, stray>>
        /\ mishaps' \in 0..MaxMishap /\ edits' \in 0..MaxEdit /\ hasTarget' \in BOOLEAN
        /\ outputs' \in [Revisions -> Values]
    BY Unhindered DEF ChangeTarget, RevisionsInv, RevisionsTyped
  <1>2. /\ editing' = [d \in Operators |-> editing'[d]]
        /\ \A d \in Operators : editing'[d] = [editing[d] EXCEPT !.touched = @ \/ Publishing(d)]
    BY DEF ChangeTarget, Touching
  <1> QED
    BY <1>1, <1>2, RestWritten

\* Back to the parent.
LEMMA DraftDiscarded ==
  ASSUME RevisionsInv, Discard
  PROVE  RevisionsInv'
  <1> DEFINE p == parent[current]
  <1>1. /\ revision[current] = "DRAFT" /\ p # NoRevision /\ revision[p] = "VALIDATED"
        /\ current' = p /\ revision' = [revision EXCEPT ![current] = "SUPERSEDED"]
        /\ UNCHANGED <<parent, cues, outputs, hasTarget, snapshots, onShow, late, reopened, stray>>
        /\ edits' \in 0..MaxEdit /\ mishaps' \in 0..MaxMishap
        /\ editing' = [d \in Operators |-> editing'[d]]
        /\ \A d \in Operators : editing'[d] = [editing[d] EXCEPT !.touched = @ \/ Mapping(d)]
    BY Unhindered DEF Discard, Touching
  <1>2. /\ current \in Known /\ p \in Known /\ Known \subseteq Revisions
        /\ revision'[current] = "SUPERSEDED"
        /\ \A r \in Revisions : r # current => revision'[r] = revision[r]
    BY <1>1, CurrentKnown DEF RevisionsInv, LineageOK, RevisionsTyped
  <1>3. Known' = Known
    BY <1>1, <1>2 DEF Known
  <1>4. LineageOK'
    <2>1. \A r \in Revisions : Live(r)' <=> Live(r) /\ r # current
      BY <1>1, <1>2 DEF Live
    <2>2. Live(current)' /\ \E k \in Revisions : Known' = 1..k
      <3>1. p # current /\ p \in Revisions /\ revision'[p] = "VALIDATED" /\ current' = p
        BY <1>1, <1>2
      <3>2. Live(current)'
        BY <3>1 DEF Live
      <3>3. \E k \in Revisions : Known = 1..k
        BY DEF RevisionsInv, LineageOK
      <3> QED
        BY <1>3, <3>2, <3>3
    <2>3. ASSUME NEW r \in Known'
          PROVE  /\ parent'[r] # NoRevision => parent'[r] \in Known'
                 /\ revision'[r] = "DRAFT" => r = current'
                 /\ Live(r)' => parent'[r] # current'
                 /\ Live(r)' /\ parent'[r] # NoRevision => revision'[parent'[r]] = "VALIDATED"
                 /\ \A q \in Known' :
                      Live(r)' /\ Live(q)' /\ parent'[r] = parent'[q] /\ parent'[r] # NoRevision
                        => r = q
      <3>1. r \in Known /\ r \in Revisions /\ parent' = parent
        BY <1>1, <1>2, <1>3
      <3>2. /\ parent[r] # NoRevision => parent[r] \in Known
            /\ revision[r] = "DRAFT" => r = current
            /\ Live(r) => parent[r] # current
            /\ Live(r) /\ parent[r] # NoRevision => revision[parent[r]] = "VALIDATED"
            /\ \A q \in Known :
                 Live(r) /\ Live(q) /\ parent[r] = parent[q] /\ parent[r] # NoRevision => r = q
        BY <3>1 DEF RevisionsInv, LineageOK
      <3>3. Live(current)
        BY <1>1 DEF Live
      <3> QED
        BY <1>1, <1>2, <1>3, <2>1, <3>1, <3>2, <3>3
    <2>4. stray' \subseteq Known'
      BY <1>1, <1>3 DEF RevisionsInv, LineageOK
    <2> QED
      BY <2>2, <2>3, <2>4 DEF LineageOK
  <1>5. ASSUME NEW d \in Operators
        PROVE  editing'[d] \in Request /\ Kept(editing[d], editing'[d])
    <2>1. Mapping(d) \in BOOLEAN /\ (Mapping(d) <=> Copying(editing[d]))
      BY DEF Mapping, Copying
    <2>2. /\ editing'[d] \in Request /\ Overtaken(editing[d], editing'[d])
          /\ editing'[d].touched <=> editing[d].touched \/ Copying(editing[d])
      BY <1>1, <2>1, Overtakes
    <2>3. Holding(editing[d]) =>
            revision'[editing[d].source] = "VALIDATED" /\ snapshots[editing[d].source] = {}
      BY <1>1, <1>2, OperatorKnown DEF PublicationOK
    <2> QED
      BY <1>1, <2>2, <2>3 DEF Kept, Copying
  <1>6. RevisionsTyped'
    BY <1>1, <1>2, <1>5 DEF RevisionsInv, RevisionsTyped
  <1>7. \A r \in Revisions : SnapshotOK(r)'
    BY <1>1, <1>2 DEF RevisionsInv, SnapshotOK
  <1>8. Onward
    BY <1>1, <1>2, <1>3 DEF Onward
  <1> QED
    BY <1>1, <1>4, <1>5, <1>6, <1>7, <1>8, OthersOvertaken DEF RevisionsInv

LEMMA NothingElse ==
  ASSUME RevisionsInv, onShow' \in BOOLEAN,
         UNCHANGED <<current, revision, parent, cues, outputs, hasTarget, snapshots, editing,
                     late, reopened, stray>>,
         edits' \in 0..MaxEdit /\ mishaps' \in 0..MaxMishap
  PROVE  RevisionsInv'
  <1>1. RevisionsTyped'
    BY DEF RevisionsInv, RevisionsTyped
  <1>2. LineageOK' /\ Onward
    BY DEF RevisionsInv, LineageOK, Known, Live, Onward
  <1>3. \A r \in Revisions : SnapshotOK(r)'
    BY DEF RevisionsInv, SnapshotOK
  <1>4. \A d \in Operators : Kept(editing[d], editing'[d])
    BY OperatorKnown DEF Kept, Overtaken, PublicationOK
  <1> QED
    BY <1>1, <1>2, <1>3, <1>4, OthersOvertaken DEF RevisionsInv

LEMMA HubRestarted ==
  ASSUME RevisionsInv, RestartHub \/ SwitchShow \/ UNCHANGED revisionVars
  PROVE  RevisionsInv'
  <1>1. CASE RestartHub
    <2>1. \A d \in Operators : editing'[d] = NoRequest
      BY <1>1 DEF RestartHub
    <2>2. mishaps' \in 0..MaxMishap
      BY <1>1, Unhindered DEF RestartHub
    <2>3. RevisionsTyped'
      BY <1>1, <2>2, IdleRequest DEF RestartHub, RevisionsInv, RevisionsTyped
    <2>4. LineageOK' /\ Onward
      BY <1>1 DEF RestartHub, RevisionsInv, LineageOK, Known, Live, Onward
    <2>5. \A r \in Revisions : SnapshotOK(r)'
      BY <1>1 DEF RestartHub, RevisionsInv, SnapshotOK
    <2>6. \A r \in stray' : parent'[r] \in late' \cup reopened'
      BY <1>1 DEF RestartHub, RevisionsInv
    <2> QED
      BY <2>1, <2>3, <2>4, <2>5, <2>6, OthersOvertaken
  <1>2. CASE SwitchShow
    <2>1. onShow' \in BOOLEAN /\ edits' \in 0..MaxEdit /\ mishaps' \in 0..MaxMishap
      BY <1>2, Unhindered DEF SwitchShow, RevisionsInv, RevisionsTyped
    <2> QED
      BY <1>2, <2>1, NothingElse DEF SwitchShow
  <1>3. CASE UNCHANGED revisionVars
    <2>1. onShow' \in BOOLEAN /\ edits' \in 0..MaxEdit /\ mishaps' \in 0..MaxMishap
      BY <1>3, Unhindered DEF revisionVars, RevisionsInv, RevisionsTyped
    <2> QED
      BY <1>3, <2>1, NothingElse DEF revisionVars
  <1> QED
    BY <1>1, <1>2, <1>3

\* A step that makes of one request what it will, and overtakes the others.
LEMMA OneRequest ==
  ASSUME RevisionsInv, NEW c \in Operators, RevisionsTyped', LineageOK',
         \A r \in Revisions : SnapshotOK(r)',
         \A r \in stray' : parent'[r] \in late' \cup reopened', Onward,
         EditOK(editing[c])', PublicationOK(editing[c])',
         \A d \in Operators : d # c => Kept(editing[d], editing'[d]),
         \A d \in Operators : d # c /\ Holding(editing[d]) /\ Holding(editing'[c]) =>
                                editing[d].source # editing'[c].source
  PROVE  RevisionsInv'
  <1>1. ASSUME NEW d \in Operators
        PROVE  EditOK(editing[d])' /\ PublicationOK(editing[d])'
    <2>1. CASE d = c
      BY <2>1
    <2>2. CASE d # c
      BY <2>2, OperatorKnown, EditKept, PublicationKept
    <2> QED
      BY <2>1, <2>2
  <1>2. \A d \in Operators : d # c /\ Holding(editing'[d]) =>
          Holding(editing[d]) /\ editing'[d].source = editing[d].source
    BY DEF Kept, Overtaken, Holding
  <1>3. HoldersOK'
    BY <1>2 DEF RevisionsInv, HoldersOK
  <1> QED
    BY <1>1, <1>3 DEF RevisionsInv

LEMMA RevisionFrozen ==
  ASSUME RevisionsInv, NEW c \in Operators, Freeze(c)
  PROVE  RevisionsInv'
  <1> DEFINE t == editing[c]  r == t.source  x == [t EXCEPT !.at = "readCues"]
  <1>1. /\ t.at = "freeze"
        /\ UNCHANGED <<current, parent, cues, outputs, hasTarget, snapshots, onShow, late,
                       reopened, stray, edits, mishaps>>
    BY DEF Freeze, Doing
  <1>2. t \in Request /\ PublicationOK(t) /\ r \in Known /\ r \in Revisions
    BY <1>1, OperatorKnown, CurrentKnown DEF PublicationOK
  <1>3. CASE End(c) /\ UNCHANGED revision
    BY <1>1, <1>3, RequestEnds, Unhindered
  <1>4. CASE /\ revision[r] = "DRAFT" /\ revision' = [revision EXCEPT ![r] = "VALIDATED"]
             /\ GoOn(c, "readCues")
    <2>1. /\ revision' \in [Revisions -> {"none", "DRAFT", "VALIDATED", "SUPERSEDED"}]
          /\ revision'[r] = "VALIDATED" /\ revision[r] = "DRAFT"
          /\ \A q \in Revisions : q # r => revision'[q] = revision[q]
      BY <1>2, <1>4 DEF RevisionsInv, RevisionsTyped
    <2>2. editing' \in [Operators -> Request] /\ editing'[c] = x
          /\ \A d \in Operators : d # c => editing'[d] = editing[d]
      <3>1. x \in Request
        BY <1>2 DEF Request, Stages
      <3> QED
        BY <1>4, <3>1 DEF GoOn, RevisionsInv, RevisionsTyped
    <2>3. /\ x.at = "readCues" /\ x.source = r /\ x.touched = t.touched
      BY <1>2 DEF Request
    <2> HIDE DEF x
    <2>4. Known' = Known /\ \A q \in Revisions : Live(q)' <=> Live(q)
      BY <1>2, <2>1 DEF Known, Live
    <2>5. RevisionsTyped'
      BY <1>1, <2>1, <2>2 DEF RevisionsInv, RevisionsTyped
    <2>6. LineageOK'
      <3>1. /\ \A q \in Known : revision'[q] = "DRAFT" => revision[q] = "DRAFT"
            /\ \A q \in Known : revision[q] = "VALIDATED" => revision'[q] = "VALIDATED"
        BY <2>1, CurrentKnown
      <3> QED
        BY <1>1, <2>4, <3>1, CurrentKnown DEF RevisionsInv, LineageOK
    <2>7. Onward
      BY <1>1, <2>1, <2>4, CurrentKnown DEF Onward
    <2>8. snapshots[r] = {} /\ \A q \in Revisions : SnapshotOK(q)'
      BY <1>1, <1>2, <2>1 DEF RevisionsInv, SnapshotOK
    <2>9. EditOK(editing[c])'
      BY <2>2, <2>3 DEF EditOK, Copying
    <2>10. PublicationOK(editing[c])'
      BY <1>1, <1>2, <2>1, <2>2, <2>3, <2>4, <2>8 DEF PublicationOK, Holding
    <2>11. ASSUME NEW d \in Operators, d # c
           PROVE  /\ Kept(editing[d], editing'[d])
                  /\ Holding(editing[d]) => editing[d].source # r
      <3>1. Holding(editing[d]) =>
              /\ editing[d].source \in Known /\ revision[editing[d].source] = "VALIDATED"
              /\ snapshots[editing[d].source] = {}
        BY OperatorKnown DEF PublicationOK
      <3> QED
        BY <1>1, <2>1, <2>2, <2>11, <3>1, CurrentKnown DEF Kept, Overtaken
    <2> QED
      BY <1>1, <2>2, <2>3, <2>5, <2>6, <2>7, <2>8, <2>9, <2>10, <2>11, OneRequest
         DEF RevisionsInv
  <1> QED
    BY <1>3, <1>4 DEF Freeze

LEMMA SnapshotInserted ==
  ASSUME RevisionsInv, NEW c \in Operators, InsertSnapshot(c)
  PROVE  RevisionsInv'
  <1> DEFINE t == editing[c]  r == t.source  m == ManifestOf(t)
  <1>1. /\ t.at = "insert" /\ Holding(t)
        /\ UNCHANGED <<current, revision, parent, cues, outputs, hasTarget, onShow, late,
                       reopened, stray, edits, mishaps>>
    BY DEF InsertSnapshot, Doing, Holding
  <1>2. /\ t \in Request /\ PublicationOK(t) /\ r \in Known /\ r \in Revisions
        /\ revision[r] = "VALIDATED" /\ snapshots[r] = {}
    BY <1>1, OperatorKnown, CurrentKnown DEF PublicationOK
  <1>3. CASE GoOn(c, "reopen") /\ UNCHANGED snapshots
    <2>1. "reopen" \in Stages
      BY DEF Stages
    <2> QED
      BY <1>1, <1>3, <2>1, MovesOn, Unhindered
  <1>4. CASE snapshots' = [snapshots EXCEPT ![r] = @ \cup {m}] /\ End(c)
    <2>1. /\ snapshots' = [q \in Revisions |-> snapshots'[q]] /\ snapshots'[r] = {m}
          /\ \A q \in Revisions : q # r => snapshots'[q] = snapshots[q]
      BY <1>2, <1>4 DEF RevisionsInv, RevisionsTyped
    <2>2. /\ editing' \in [Operators -> Request] /\ editing'[c] = NoRequest
          /\ \A d \in Operators : d # c => editing'[d] = editing[d]
      BY <1>4, IdleRequest DEF End, RevisionsInv, RevisionsTyped
    <2>3. RevisionsTyped'
      BY <1>1, <2>1, <2>2 DEF RevisionsInv, RevisionsTyped
    <2>4. LineageOK' /\ Onward
      BY <1>1 DEF RevisionsInv, LineageOK, Known, Live, Onward
    <2>5. /\ m.cues = cues[r]
          /\ r \notin late => m.output = outputs[r]
          /\ ~m.touched => m.hasTarget /\ m.output = "good"
      BY <1>1, <1>2 DEF PublicationOK, ManifestOf
    <2> HIDE DEF m
    <2>6. ASSUME NEW q \in Revisions PROVE SnapshotOK(q)'
      <3>1. CASE q = r
        <4>1. /\ snapshots'[q] = {m} /\ revision'[q] = "VALIDATED" /\ cues'[q] = m.cues
              /\ q \notin late' => m.output = outputs'[q]
          BY <1>1, <1>2, <2>1, <2>5, <3>1
        <4>2. \E p : snapshots'[q] = {p}
          BY <4>1
        <4> QED
          BY <2>5, <4>1, <4>2 DEF SnapshotOK
      <3>2. CASE q # r
        <4>1. SnapshotOK(q) /\ snapshots'[q] = snapshots[q]
          BY <2>1, <3>2 DEF RevisionsInv
        <4> QED
          BY <1>1, <4>1 DEF SnapshotOK
      <3> QED
        BY <3>1, <3>2
    <2>7. ASSUME NEW d \in Operators, d # c PROVE Kept(editing[d], editing'[d])
      <3>1. Holding(editing[d]) =>
              /\ editing[d].source \in Known /\ revision[editing[d].source] = "VALIDATED"
              /\ snapshots[editing[d].source] = {} /\ editing[d].source # r
        BY <1>1, <2>7, OperatorKnown DEF PublicationOK, RevisionsInv, HoldersOK
      <3> QED
        BY <1>1, <2>1, <2>2, <2>7, <3>1, CurrentKnown DEF Kept, Overtaken
    <2> QED
      BY <1>1, <2>2, <2>3, <2>4, <2>6, <2>7, OthersOvertaken DEF RevisionsInv
  <1> QED
    BY <1>3, <1>4 DEF InsertSnapshot

LEMMA RevisionReopened ==
  ASSUME RevisionsInv, NEW c \in Operators, Reopen(c)
  PROVE  RevisionsInv'
  <1> DEFINE t == editing[c]  r == t.source
  <1>1. /\ t.at = "reopen" /\ Holding(t) /\ End(c)
        /\ UNCHANGED <<current, parent, cues, outputs, hasTarget, snapshots, onShow, late,
                       stray, edits, mishaps>>
    BY DEF Reopen, Doing, Holding
  <1>2. CASE UNCHANGED <<revision, reopened>>
    BY <1>1, <1>2, RequestEnds, Unhindered
  <1>3. CASE /\ current = r /\ revision[r] = "VALIDATED" /\ snapshots[r] = {}
             /\ revision' = [revision EXCEPT ![r] = "DRAFT"] /\ reopened' = reopened \cup {r}
    <2>1. /\ revision' \in [Revisions -> {"none", "DRAFT", "VALIDATED", "SUPERSEDED"}]
          /\ revision'[r] = "DRAFT" /\ r \in Known /\ r \in Revisions /\ r = current
          /\ \A q \in Revisions : q # r => revision'[q] = revision[q]
      BY <1>3, CurrentKnown DEF RevisionsInv, RevisionsTyped
    <2>2. /\ editing' \in [Operators -> Request] /\ editing'[c] = NoRequest
          /\ \A d \in Operators : d # c => editing'[d] = editing[d]
      BY <1>1, IdleRequest DEF End, RevisionsInv, RevisionsTyped
    <2>3. RevisionsTyped'
      BY <1>1, <2>1, <2>2 DEF RevisionsInv, RevisionsTyped
    <2>4. Known' = Known /\ \A q \in Revisions : Live(q)' <=> Live(q)
      BY <1>3, <2>1 DEF Known, Live
    <2>5. LineageOK'
      <3>1. \A q \in Known :
              /\ revision'[q] = "DRAFT" => q = current
              /\ Live(q) /\ parent[q] # NoRevision => revision'[parent[q]] = "VALIDATED"
        BY <2>1, CurrentKnown DEF RevisionsInv, LineageOK
      <3> QED
        BY <1>1, <2>4, <3>1, CurrentKnown DEF RevisionsInv, LineageOK
    <2>6. Onward
      BY <1>1, <1>3, <2>1, <2>4, CurrentKnown DEF Onward
    <2>7. ASSUME NEW q \in Revisions PROVE SnapshotOK(q)'
      <3>1. SnapshotOK(q) /\ snapshots'[q] = snapshots[q]
        BY <1>1 DEF RevisionsInv
      <3>2. snapshots[q] # {} => revision'[q] = revision[q]
        BY <1>3, <2>1
      <3> QED
        BY <1>1, <3>1, <3>2 DEF SnapshotOK
    <2>8. \A q \in stray' : parent'[q] \in late' \cup reopened'
      BY <1>1, <1>3 DEF RevisionsInv
    <2>9. ASSUME NEW d \in Operators, d # c PROVE Kept(editing[d], editing'[d])
      <3>1. Holding(editing[d]) =>
              /\ editing[d].source \in Known /\ revision[editing[d].source] = "VALIDATED"
              /\ snapshots[editing[d].source] = {} /\ editing[d].source # r
        BY <1>1, <2>9, OperatorKnown DEF PublicationOK, RevisionsInv, HoldersOK
      <3> QED
        BY <1>1, <2>1, <2>2, <2>9, <3>1, CurrentKnown DEF Kept, Overtaken
    <2> QED
      BY <2>2, <2>3, <2>5, <2>6, <2>7, <2>8, <2>9, OthersOvertaken
  <1> QED
    BY <1>2, <1>3 DEF Reopen

\* The successor of the current revision.
LEMMA RevisionForked ==
  ASSUME RevisionsInv, NEW c \in Operators, Fork(c)
  PROVE  RevisionsInv'
  <1> DEFINE t == editing[c]  r == Cardinality(Known) + 1  s == t.source
             x == [t EXCEPT !.target = r, !.at = "map", !.cues = << >>, !.output = "none"]
             b == t.cues # cues[s]
             w(d) == IF d = c THEN x ELSE editing[d]
  <1>1. /\ t.at = "fork" /\ r \in Revisions
        /\ UNCHANGED <<hasTarget, snapshots, onShow, late, reopened, edits, mishaps>>
    BY DEF Fork, Doing
  <1>2. /\ t \in Request /\ EditOK(t) /\ s \in Known /\ t.output \in Values
        /\ t.cues \in Places /\ Distinct(t.cues)
        /\ t.cues = cues[s] \/ s \in reopened
        /\ t.output = outputs[s] \/ s \in late \cup reopened
        /\ t.from \in Known /\ Len(t.names) = Len(t.places)
    BY <1>1, OperatorKnown, RequestTypes DEF EditOK, Copying
  <1>3. CASE End(c) /\ UNCHANGED <<current, revision, parent, cues, outputs, stray>>
    BY <1>1, <1>3, RequestEnds, Unhindered
  <1>4. CASE /\ current = s /\ NoDraft /\ current' = r
             /\ revision' = [revision EXCEPT ![r] = "DRAFT"]
             /\ parent' = [parent EXCEPT ![r] = s]
             /\ cues' = [cues EXCEPT ![r] = t.cues]
             /\ outputs' = [outputs EXCEPT ![r] = t.output]
             /\ stray' = IF t.cues = cues[s] /\ t.output = outputs[s] THEN stray
                         ELSE stray \cup {r}
             /\ editing' = [d \in Operators |-> [w(d) EXCEPT !.touched = @ \/ (Mapping(d) /\ b)]]
    <2>1. PICK k \in Revisions : Known = 1..k
      BY DEF RevisionsInv, LineageOK
    <2>2. r = k + 1 /\ r \notin Known /\ k \in Nat /\ k # 0
      <3>1. k \in Nat /\ k # 0
        BY DEF Revisions
      <3>2. Cardinality(1..k) = k
        BY <3>1, FS_Interval
      <3> QED
        BY <2>1, <3>1, <3>2
    <2> HIDE DEF r
    <2>3. /\ revision' \in [Revisions -> {"none", "DRAFT", "VALIDATED", "SUPERSEDED"}]
          /\ parent' \in [Revisions -> Ids] /\ cues' \in [Revisions -> Places]
          /\ outputs' \in [Revisions -> Values]
          /\ revision'[r] = "DRAFT" /\ parent'[r] = s /\ cues'[r] = t.cues
          /\ outputs'[r] = t.output /\ revision[r] = "none"
      BY <1>1, <1>2, <1>4, <2>2, CurrentKnown DEF RevisionsInv, RevisionsTyped, Known
    <2>4. \A q \in Revisions : q # r =>
            /\ revision'[q] = revision[q] /\ parent'[q] = parent[q] /\ cues'[q] = cues[q]
            /\ outputs'[q] = outputs[q]
      BY <1>1, <1>4 DEF RevisionsInv, RevisionsTyped
    <2>5. Known' = Known \cup {r} /\ Known' = 1..r /\ \A q \in Known : q # r /\ q \in Revisions
      BY <1>1, <2>1, <2>2, <2>3, <2>4 DEF Known
    <2>6. ASSUME NEW d \in Operators, d # c
          PROVE  editing'[d] \in Request /\ Kept(editing[d], editing'[d])
      <3>1. Mapping(d) \in BOOLEAN /\ (Mapping(d) <=> Copying(editing[d])) /\ b \in BOOLEAN
        BY DEF Mapping, Copying
      <3>2. editing'[d] = [editing[d] EXCEPT !.touched = @ \/ (Mapping(d) /\ b)]
        BY <1>4, <2>6
      <3>3. /\ editing'[d] \in Request /\ Overtaken(editing[d], editing'[d])
            /\ editing'[d].touched <=> editing[d].touched \/ (Copying(editing[d]) /\ b)
        BY <3>1, <3>2, Overtakes
      <3>4. Holding(editing[d]) =>
              /\ editing[d].source \in Known /\ revision[editing[d].source] = "VALIDATED"
              /\ snapshots[editing[d].source] = {}
        BY OperatorKnown DEF PublicationOK
      <3>5. Publishes(editing[d]) => editing[d].source \in Known
        BY OperatorKnown DEF PublicationOK, Publishes, Holding
      <3>6. editing[d].at = "ensure" /\ ~editing'[d].touched => cues'[current'] = cues[current]
        BY <1>4, <2>3, <3>3 DEF Copying
      <3> QED
        BY <1>1, <2>4, <2>5, <3>3, <3>4, <3>5, <3>6 DEF Kept
    <2>7. /\ editing'[c] \in Request /\ editing'[c].at = "map" /\ editing'[c].target = r
          /\ editing'[c].from = t.from /\ editing'[c].names = t.names
          /\ editing'[c].places = t.places /\ (editing'[c].touched <=> t.touched \/ b)
      <3>1. Mapping(c) = TRUE /\ b \in BOOLEAN /\ t.touched \in BOOLEAN
        BY <1>1, <1>2, RequestTypes DEF Mapping
      <3>2. editing'[c] = [x EXCEPT !.touched = @ \/ (Mapping(c) /\ b)]
        BY <1>4
      <3>3. /\ x \in Request /\ x.at = "map" /\ x.target = r /\ x.from = t.from
            /\ x.names = t.names /\ x.places = t.places /\ x.touched = t.touched
        <4>1. r \in Ids
          BY <1>1, CurrentKnown
        <4> QED
          BY <1>2, <4>1, NoOrder DEF Request, Stages
      <3>4. (x.touched \/ (Mapping(c) /\ b)) \in BOOLEAN
        OBVIOUS
      <3> HIDE DEF x, b
      <3> QED
        BY <3>1, <3>2, <3>3, <3>4 DEF Request
    <2>8. RevisionsTyped'
      <3>1. \A q \in Revisions : Distinct(cues'[q])
        BY <1>2, <2>3, <2>4 DEF RevisionsInv, RevisionsTyped
      <3>2. editing' \in [Operators -> Request]
        <4>1. \A d \in Operators : editing'[d] \in Request
          BY <2>6, <2>7
        <4>2. editing' = [d \in Operators |-> editing'[d]]
          BY <1>4
        <4> QED
          BY <4>1, <4>2
      <3> QED
        BY <1>1, <1>4, <2>3, <3>1, <3>2 DEF RevisionsInv, RevisionsTyped
    <2>9. LineageOK'
      <3>1. /\ \A q \in Known : Live(q)' <=> Live(q)
            /\ \A q \in Known : revision'[q] = revision[q] /\ parent'[q] = parent[q]
        BY <2>4, <2>5 DEF Live
      <3>2. /\ Live(current) /\ revision[current] = "VALIDATED" /\ current \in Known
            /\ NoRevision # r
        BY <1>1, <1>4, CurrentKnown DEF NoDraft, RevisionsInv, LineageOK
      <3>3. ASSUME NEW q \in Known
            PROVE  /\ parent[q] # NoRevision => parent[q] \in Known
                   /\ revision[q] # "DRAFT"
                   /\ Live(q) => parent[q] # current
                   /\ Live(q) /\ parent[q] # NoRevision => revision[parent[q]] = "VALIDATED"
                   /\ \A p \in Known :
                        Live(q) /\ Live(p) /\ parent[q] = parent[p] /\ parent[q] # NoRevision
                          => q = p
        BY <1>4 DEF RevisionsInv, LineageOK, NoDraft
      <3>4. ASSUME NEW q \in Known'
            PROVE  /\ parent'[q] # NoRevision => parent'[q] \in Known'
                   /\ revision'[q] = "DRAFT" => q = current'
                   /\ Live(q)' => parent'[q] # current'
                   /\ Live(q)' /\ parent'[q] # NoRevision => revision'[parent'[q]] = "VALIDATED"
        <4>1. CASE q = r
          BY <1>4, <2>3, <2>5, <3>1, <3>2, <4>1
        <4>2. CASE q \in Known
          BY <1>4, <2>5, <3>1, <3>2, <3>3, <4>2
        <4> QED
          BY <2>5, <4>1, <4>2
      <3>5. ASSUME NEW q \in Known', NEW p \in Known', Live(q)', Live(p)',
                   parent'[q] = parent'[p], parent'[q] # NoRevision
            PROVE  q = p
        <4>1. CASE q = r /\ p = r
          BY <4>1
        <4>2. CASE q \in Known /\ p \in Known
          BY <3>1, <3>3, <3>5, <4>2
        <4>3. CASE q = r /\ p \in Known
          BY <1>4, <2>3, <3>1, <3>3, <3>5, <4>3
        <4>4. CASE q \in Known /\ p = r
          BY <1>4, <2>3, <3>1, <3>3, <3>5, <4>4
        <4> QED
          BY <2>5, <4>1, <4>2, <4>3, <4>4
      <3>6. stray' \subseteq Known'
        BY <1>4, <2>5 DEF RevisionsInv, LineageOK
      <3>7. Live(current)' /\ \E n \in Revisions : Known' = 1..n
        <4>1. Live(current)'
          BY <1>4, <2>3 DEF Live
        <4> QED
          BY <1>1, <2>5, <4>1
      <3> QED
        BY <3>4, <3>5, <3>6, <3>7 DEF LineageOK
    <2>10. ASSUME NEW q \in Revisions PROVE SnapshotOK(q)'
      <3>1. SnapshotOK(q) /\ snapshots'[q] = snapshots[q]
        BY <1>1 DEF RevisionsInv
      <3>2. snapshots[q] # {} => q # r
        BY <2>3, <3>1 DEF SnapshotOK
      <3>3. q # r => revision'[q] = revision[q] /\ cues'[q] = cues[q] /\ outputs'[q] = outputs[q]
        BY <2>4
      <3> QED
        BY <1>1, <3>1, <3>2, <3>3 DEF SnapshotOK
    <2>11. \A q \in stray' : parent'[q] \in late' \cup reopened'
      <3>1. \A q \in stray : q \in Known /\ parent[q] \in late \cup reopened
        BY DEF RevisionsInv, LineageOK
      <3>2. r \in stray' => s \in late \cup reopened
        BY <1>2, <1>4, <2>2, <3>1
      <3> QED
        BY <1>1, <1>4, <2>3, <2>4, <2>5, <3>1, <3>2
    <2>12. Onward
      BY <1>1, <2>4, <2>5 DEF Onward
    <2>13. EditOK(editing[c])'
      <3>1. ~editing'[c].touched =>
              /\ Sought(editing[c])' = cues'[t.from]
              /\ \A i \in DOMAIN t.names :
                   t.names[i] \in DOMAIN cues'[t.from] /\ cues'[t.from][t.names[i]] = t.places[i]
        <4>1. Sought(editing[c])' = cues'[r]
          BY <2>7 DEF Sought
        <4>2. cues'[t.from] = cues[t.from] /\ Sought(t) = t.cues
          BY <1>1, <1>2, <2>4, <2>5 DEF Sought
        <4> QED
          BY <1>1, <1>2, <2>3, <2>7, <4>1, <4>2 DEF EditOK, Copying
      <3> QED
        BY <1>2, <2>5, <2>7, <3>1 DEF EditOK, Copying
    <2>14. PublicationOK(editing[c])' /\ ~Holding(editing'[c])
      BY <2>7 DEF PublicationOK, Holding
    <2> QED
      BY <2>6, <2>8, <2>9, <2>10, <2>11, <2>12, <2>13, <2>14, OneRequest
  <1> QED
    BY <1>3, <1>4 DEF Fork

LEMMA RevisionsStep == RevisionsInv /\ [RevisionsNext]_revisionVars => RevisionsInv'
  <1> SUFFICES ASSUME RevisionsInv, [RevisionsNext]_revisionVars PROVE RevisionsInv'
    OBVIOUS
  <1>1. ASSUME NEW c \in Operators,
               RequestCue(c) \/ RequestReorder(c) \/ RequestOther(c) \/ ValidateTarget(c)
        PROVE  RevisionsInv'
    BY <1>1, Requests
  <1>2. ASSUME NEW c \in Operators,
               EnsureDraft(c) \/ CopyCues(c) \/ CopyRest(c) \/ Fork(c) \/ MapCues(c)
        PROVE  RevisionsInv'
    BY <1>2, DraftEnsured, CuesCopied, RestCopied, RevisionForked, CuesMapped
  <1>3. ASSUME NEW c \in Operators,
               \/ ApplyCue(c) \/ ApplyReorder(c) \/ AddCue(c) \/ CheckOutput(c) \/ WriteOutput(c)
               \/ ValidateRest(c) \/ FailRequest(c)
        PROVE  RevisionsInv'
    BY <1>3, CuesApplied, OutputWritten, RequestMoves
  <1>4. ASSUME NEW c \in Operators,
               \/ Freeze(c) \/ ReadCues(c) \/ ReadRest(c) \/ InsertSnapshot(c) \/ Reopen(c)
        PROVE  RevisionsInv'
    BY <1>4, RevisionFrozen, RevisionsRead, SnapshotInserted, RevisionReopened
  <1>5. CASE ApplyBatch \/ ChangeTarget \/ Discard
    BY <1>5, BatchApplied, TargetChanged, DraftDiscarded
  <1>6. CASE RestartHub \/ SwitchShow \/ UNCHANGED revisionVars
    BY <1>6, HubRestarted
  <1> QED
    BY <1>1, <1>2, <1>3, <1>4, <1>5, <1>6 DEF RevisionsNext

LEMMA RevisionsAlways == RevisionsSpec => []RevisionsInv
  <1>1. RevisionsInit => RevisionsInv
    BY RevisionsBegin
  <1>2. RevisionsInv /\ [RevisionsNext]_revisionVars => RevisionsInv'
    BY RevisionsStep
  <1> QED
    BY <1>1, <1>2, PTL DEF RevisionsSpec

\* Revisions, orders, Snapshots and the handlers' reads are of their types, for any
\* bounds (the rows of internal/store, the operator handlers).
THEOREM RevisionsTypes == RevisionsSpec => []RevisionsTypeOK
  <1>1. RevisionsInv => RevisionsTypeOK
    <2>1. RevisionsTyped /\ Ids \subseteq Revisions \cup {NoRevision} => RevisionsTypeOK
      BY DEF RevisionsTyped, RevisionsTypeOK, Values
    <2>2. Ids \subseteq Revisions \cup {NoRevision}
      BY RevisionsAssumption DEF Ids, Revisions, NoRevision
    <2> QED
      BY <2>1, <2>2 DEF RevisionsInv
  <1> QED
    BY <1>1, RevisionsAlways, PTL

\* What is published stays as it was published, and what precedes a DRAFT is
\* validated: for any operators, Cues, revisions, edits and faults (Service.Publish,
\* Builder.Create, EnsureProjectDraft).
THEOREM PublishedFrozen == RevisionsSpec => []PublishedIsFrozen
  <1>1. RevisionsInv => PublishedIsFrozen
    <2> SUFFICES ASSUME RevisionsInv, NEW r \in Known
                 PROVE  /\ revision[r] = "DRAFT" => r = current
                        /\ revision[r] = "DRAFT" /\ parent[r] # NoRevision =>
                             revision[parent[r]] = "VALIDATED"
                        /\ snapshots[r] # {} =>
                             revision[r] = "VALIDATED" /\ Cardinality(snapshots[r]) = 1
                        /\ \A s \in snapshots[r] :
                             /\ s.cues = cues[r]
                             /\ r \notin late => s.output = outputs[r]
                             /\ ~s.touched => s.hasTarget /\ s.output = "good"
      BY DEF RevisionsInv, PublishedIsFrozen
    <2>1. SnapshotOK(r)
      BY CurrentKnown DEF RevisionsInv
    <2>2. /\ revision[r] = "DRAFT" => r = current
          /\ revision[r] = "DRAFT" /\ parent[r] # NoRevision => revision[parent[r]] = "VALIDATED"
      BY DEF RevisionsInv, LineageOK, Live
    <2>3. snapshots[r] # {} => Cardinality(snapshots[r]) = 1
      BY <2>1, FS_Singleton DEF SnapshotOK
    <2> QED
      BY <2>1, <2>2, <2>3 DEF SnapshotOK
  <1> QED
    BY <1>1, RevisionsAlways, PTL

\* An edit changes the Cue it was asked for, or the copy of it, unless it was
\* overtaken (ensureEditableCue, ReorderDraftCues).
THEOREM EditHits == RevisionsSpec => []EditHitsItsCue
  <1>1. RevisionsInv => EditHitsItsCue
    BY OperatorKnown DEF EditHitsItsCue, Doing, EditOK
  <1> QED
    BY <1>1, RevisionsAlways, PTL
=============================================================================
