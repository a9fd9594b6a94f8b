-------------------------------- MODULE Vault --------------------------------
(***************************************************************************)
(* The Vault (internal/vault, internal/bulk and their store rows): imports *)
(* and removals of one content, addressed by its hash, by the workflows    *)
(* that use it.  Contents do not interact: a capsule with several objects  *)
(* is one whose import may still fail after this object was imported.      *)
(*                                                                         *)
(* A file is linked whole from the staging directory; damage to the disk   *)
(* and leftovers in the staging directory are left out.  An upload ticket  *)
(* expires, or its authority ends, at any time.                            *)
(***************************************************************************)
EXTENDS Naturals, FiniteSets

CONSTANTS
  Flows,      \* workflows that import the content
  Crews,      \* what each of them may be for
  Tickets,    \* companion_upload_tickets
  TicketOf,   \* the ticket an upload presents
  MaxTrouble  \* bound: errors, clients that leave and restarts

ASSUME VaultAssumption == TicketOf \in [Flows -> Tickets] /\ MaxTrouble \in Nat

VARIABLES
  work,       \* what each workflow is for
  blob,       \* the object's file exists
  metadata,   \* the vault_objects row exists
  references, \* kinds of durable rows that name the content
  ticket,     \* status of each ticket
  step,       \* where each workflow is
  bulk,       \* bulk.Manager job of each upload
  owns,       \* capsule imports that imported the object themselves
  imported,   \* capsule imports whose Project was written
  inShow,     \* a SHOW is active
  overtaken,  \* history: a removal and another workflow overlapped
  troubles

vaultVars ==
  <<work, blob, metadata, references, ticket, step, bulk, owns, imported, inShow,
    overtaken, troubles>>

Uploads == {f \in Flows : work[f] = "upload"}
Capsules == {f \in Flows : work[f] \in {"mediaCapsule", "environmentCapsule"}}

\* Rows with a foreign key on vault_objects, and documents that name the hash.
Keyed == {"media", "package"}
Named == {"manifest", "snapshot"}

Steps ==
  {"idle", "permitted", "stream", "staged", "linking", "again", "promoted",
   "inserted", "registered", "planned", "check", "delete", "remove"}

VaultInit ==
  /\ work \in Crews
  /\ blob = FALSE /\ metadata = FALSE /\ references = {}
  /\ ticket = [k \in Tickets |-> "none"]
  /\ step = [f \in Flows |-> "idle"]
  /\ bulk = [f \in Uploads |-> "none"]
  /\ owns = {} /\ imported = {}
  /\ inShow = FALSE /\ overtaken = FALSE /\ troubles = 0

At(f, s) == step[f] = s
Goto(f, s) == step' = [step EXCEPT ![f] = s]

\* Job.State of an upload; other workflows have none.
SetJob(f, s) ==
  bulk' = IF f \in Uploads THEN [bulk EXCEPT ![f] = s] ELSE bulk

-----------------------------------------------------------------------------
(* Before the bytes.                                                       *)

IssueTicket(k) ==
  /\ ticket[k] = "none"
  /\ ticket' = [ticket EXCEPT ![k] = "ACTIVE"]
  /\ UNCHANGED <<blob, metadata, references, step, bulk, owns, imported, inShow, troubles>>

\* The operation gave up on its upload.
WithdrawTicket(k) ==
  /\ ticket[k] = "ACTIVE"
  /\ ticket' = [ticket EXCEPT ![k] = "CANCELLED"]
  /\ UNCHANGED <<blob, metadata, references, step, bulk, owns, imported, inShow, troubles>>

\* The ticket is still good, or is found expired or without authority.
Authorize(f) ==
  /\ f \in Uploads /\ At(f, "idle") /\ ticket[TicketOf[f]] = "ACTIVE"
  /\ \/ Goto(f, "permitted") /\ UNCHANGED ticket
     \/ /\ \E s \in {"EXPIRED", "CANCELLED"} : ticket' = [ticket EXCEPT ![TicketOf[f]] = s]
        /\ UNCHANGED step
  /\ UNCHANGED <<blob, metadata, references, bulk, owns, imported, inShow, troubles>>

BeginUpload(f) ==
  /\ At(f, "permitted")
  /\ IF inShow THEN Goto(f, "idle") /\ UNCHANGED bulk
               ELSE Goto(f, "stream") /\ SetJob(f, "RUNNING")
  /\ UNCHANGED <<blob, metadata, references, ticket, owns, imported, inShow, troubles>>

\* A capture by hand is refused in a SHOW; a package is imported at any time.
BeginImport(f) ==
  /\ work[f] \in {"capture", "package"} /\ At(f, "idle")
  /\ work[f] = "capture" => ~inShow
  /\ Goto(f, "stream")
  /\ UNCHANGED <<blob, metadata, references, ticket, bulk, owns, imported, inShow, troubles>>

\* A registered object whose file is missing blocks the plan of a capsule;
\* one with its file is used as it is.
PlanCapsule(f) ==
  /\ f \in Capsules \ imported /\ At(f, "idle") /\ ~inShow
  /\ metadata => blob
  /\ Goto(f, IF metadata THEN "registered" ELSE "stream")
  /\ owns' = owns \ {f}
  /\ UNCHANGED <<blob, metadata, references, ticket, bulk, imported, inShow, troubles>>

-----------------------------------------------------------------------------
(* The import: staged, linked under its hash, registered.                  *)

\* A SHOW holds back the bytes of an upload, not of the others.
Stream(f) ==
  /\ At(f, "stream")
  /\ IF f \in Uploads /\ inShow
     THEN SetJob(f, "PAUSED") /\ UNCHANGED step
     ELSE SetJob(f, "RUNNING") /\ Goto(f, "staged")
  /\ UNCHANGED <<blob, metadata, references, ticket, owns, imported, inShow, troubles>>

\* The verified file exists already, or is to be linked.
Inspect(f) ==
  /\ At(f, "staged")
  /\ Goto(f, IF blob THEN "promoted" ELSE "linking")
  /\ UNCHANGED <<blob, metadata, references, ticket, bulk, owns, imported, inShow, troubles>>

\* Link does not overwrite: an identical import may have won.
Link(f) ==
  /\ At(f, "linking")
  /\ Goto(f, IF blob THEN "again" ELSE "promoted")
  /\ blob' = TRUE
  /\ UNCHANGED <<metadata, references, ticket, bulk, owns, imported, inShow, troubles>>

\* The file of the other one may be gone again.
InspectAgain(f) ==
  /\ At(f, "again")
  /\ IF blob THEN Goto(f, "promoted") /\ UNCHANGED bulk
             ELSE Goto(f, "idle") /\ SetJob(f, "FAILED")
  /\ UNCHANGED <<blob, metadata, references, ticket, owns, imported, inShow, troubles>>

Insert(f) ==
  /\ At(f, "promoted")
  /\ metadata' = TRUE
  /\ Goto(f, "inserted")
  /\ UNCHANGED <<blob, references, ticket, bulk, owns, imported, inShow, troubles>>

ReadBack(f) ==
  /\ At(f, "inserted")
  /\ IF metadata
     THEN /\ Goto(f, "registered") /\ UNCHANGED bulk
          /\ owns' = IF f \in Capsules THEN owns \cup {f} ELSE owns
     ELSE Goto(f, "idle") /\ SetJob(f, "FAILED") /\ UNCHANGED owns
  /\ UNCHANGED <<blob, metadata, references, ticket, imported, inShow, troubles>>

-----------------------------------------------------------------------------
(* The reference, in a transaction of its own.                             *)

Refer(kind) == references' = references \cup {kind}

\* Refused in a SHOW and for an object that is no longer registered.
BindCapture(f) ==
  /\ work[f] = "capture" /\ At(f, "registered")
  /\ IF metadata /\ ~inShow THEN Refer("manifest") ELSE UNCHANGED references
  /\ Goto(f, "idle")
  /\ UNCHANGED <<blob, metadata, ticket, bulk, owns, imported, inShow, troubles>>

RegisterPackage(f) ==
  /\ work[f] = "package" /\ At(f, "registered")
  /\ IF metadata THEN Refer("package") ELSE UNCHANGED references
  /\ Goto(f, "idle")
  /\ UNCHANGED <<blob, metadata, ticket, bulk, owns, imported, inShow, troubles>>

\* A ticket that is no longer good makes the upload a failure to roll back.
CompleteUpload(f) ==
  LET k == TicketOf[f] IN
  /\ f \in Uploads /\ At(f, "registered")
  /\ \/ /\ ticket[k] = "ACTIVE" /\ ticket' = [ticket EXCEPT ![k] = "COMPLETED"]
        /\ SetJob(f, "COMPLETED") /\ Goto(f, "idle")
     \/ /\ ticket[k] = "ACTIVE"
        /\ \E s \in {"EXPIRED", "CANCELLED"} : ticket' = [ticket EXCEPT ![k] = s]
        /\ SetJob(f, "FAILED") /\ Goto(f, "check")
     \/ /\ ticket[k] # "ACTIVE" /\ UNCHANGED ticket
        /\ SetJob(f, "FAILED") /\ Goto(f, "check")
  /\ UNCHANGED <<blob, metadata, references, owns, imported, inShow, troubles>>

\* The completion is committed, and then cannot be read.
CompleteUnread(f) ==
  /\ f \in Uploads /\ At(f, "registered") /\ ticket[TicketOf[f]] = "ACTIVE"
  /\ troubles < MaxTrouble /\ troubles' = troubles + 1
  /\ ticket' = [ticket EXCEPT ![TicketOf[f]] = "COMPLETED"]
  /\ SetJob(f, "FAILED") /\ Goto(f, "check")
  /\ UNCHANGED <<blob, metadata, references, owns, imported, inShow>>

\* Only objects that this import imported are rolled back.
RollBack(f) == IF f \in owns THEN "check" ELSE "idle"

\* The second plan: an object that is no longer registered does not block it.
PlanAgain(f) ==
  /\ f \in Capsules /\ At(f, "registered")
  /\ Goto(f, IF ~inShow /\ (metadata => blob) THEN "planned" ELSE RollBack(f))
  /\ UNCHANGED <<blob, metadata, references, ticket, bulk, owns, imported, inShow, troubles>>

\* Refused in a SHOW.  Media need a registered object; the snapshot of an
\* environment only names it.
ImportProject(f) ==
  /\ At(f, "planned")
  /\ IF ~inShow /\ (work[f] = "mediaCapsule" => metadata)
     THEN /\ Refer(IF work[f] = "mediaCapsule" THEN "media" ELSE "snapshot")
          /\ imported' = imported \cup {f} /\ Goto(f, "idle")
     ELSE Goto(f, RollBack(f)) /\ UNCHANGED <<references, imported>>
  /\ UNCHANGED <<blob, metadata, ticket, bulk, owns, inShow, troubles>>

\* A manifest is bound to other content, or it or a snapshot is deleted.
DropReference ==
  /\ ~inShow
  /\ \E kind \in references \cap Named : references' = references \ {kind}
  /\ UNCHANGED <<blob, metadata, ticket, step, bulk, owns, imported, inShow, troubles>>

-----------------------------------------------------------------------------
(* The removal of an object that nobody refers to.                         *)

\* Faulty variant: a completed ticket does not count.
ReferencedByActive == references # {} \/ \E k \in Tickets : ticket[k] = "ACTIVE"

Referenced ==
  references # {} \/ \E k \in Tickets : ticket[k] \in {"ACTIVE", "COMPLETED"}

CheckReferences(f) ==
  /\ At(f, "check")
  /\ Goto(f, IF metadata /\ ~Referenced THEN "delete" ELSE "idle")
  /\ UNCHANGED <<blob, metadata, references, ticket, bulk, owns, imported, inShow, troubles>>

\* A foreign key that appeared since then wins.
DeleteRow(f) ==
  /\ At(f, "delete")
  /\ IF metadata /\ references \cap Keyed = {}
     THEN metadata' = FALSE /\ Goto(f, "remove")
     ELSE Goto(f, "idle") /\ UNCHANGED metadata
  /\ UNCHANGED <<blob, references, ticket, bulk, owns, imported, inShow, troubles>>

RemoveFile(f) ==
  /\ At(f, "remove")
  /\ blob' = FALSE
  /\ Goto(f, "idle")
  /\ UNCHANGED <<metadata, references, ticket, bulk, owns, imported, inShow, troubles>>

-----------------------------------------------------------------------------
(* Errors, clients that leave, restarts; the SHOW.                         *)

\* The bytes do not match, the reserve is short, a step fails: what was
\* registered for a ticket or a Project is rolled back.  A rollback that fails
\* is not repeated.
Fail(f) ==
  /\ troubles < MaxTrouble /\ troubles' = troubles + 1
  /\ step[f] \notin {"idle", "permitted"}
  /\ IF step[f] \in {"registered", "planned"}
     THEN /\ Goto(f, IF f \in Uploads THEN "check" ELSE RollBack(f))
          /\ SetJob(f, "FAILED")
     ELSE /\ Goto(f, "idle")
          /\ IF step[f] \in {"check", "delete", "remove"} THEN UNCHANGED bulk
             ELSE \E s \in {"FAILED", "CANCELLED"} : SetJob(f, s)
  /\ UNCHANGED <<blob, metadata, references, ticket, owns, imported, inShow>>

RestartVault ==
  /\ troubles < MaxTrouble /\ troubles' = troubles + 1
  /\ step' = [f \in Flows |-> "idle"]
  /\ bulk' = [f \in Uploads |-> "none"]
  /\ UNCHANGED <<blob, metadata, references, ticket, owns, imported, inShow>>

ToggleShow ==
  /\ inShow' = ~inShow
  /\ UNCHANGED <<blob, metadata, references, ticket, step, bulk, owns, imported, troubles>>

\* One workflow decided to remove the object while another counts on it.
Overlap ==
  \E f, g \in Flows :
    /\ f # g
    /\ step[f] \in {"delete", "remove"}
    /\ step[g] \in {"promoted", "inserted", "registered", "planned"}

VaultStep ==
  \/ \E k \in Tickets : IssueTicket(k) \/ WithdrawTicket(k)
  \/ \E f \in Flows :
       \/ Authorize(f) \/ BeginUpload(f) \/ BeginImport(f) \/ PlanCapsule(f)
       \/ Stream(f) \/ Inspect(f) \/ Link(f) \/ InspectAgain(f) \/ Insert(f) \/ ReadBack(f)
       \/ BindCapture(f) \/ RegisterPackage(f)
       \/ CompleteUpload(f) \/ CompleteUnread(f)
       \/ PlanAgain(f) \/ ImportProject(f)
       \/ CheckReferences(f) \/ DeleteRow(f) \/ RemoveFile(f)
       \/ Fail(f)
  \/ DropReference \/ RestartVault \/ ToggleShow

VaultNext == VaultStep /\ overtaken' = (overtaken \/ Overlap') /\ UNCHANGED work

VaultSpec == VaultInit /\ [][VaultNext]_vaultVars

-----------------------------------------------------------------------------

VaultTypeOK ==
  /\ work \in Crews
  /\ blob \in BOOLEAN /\ metadata \in BOOLEAN
  /\ references \subseteq Keyed \cup Named
  /\ ticket \in [Tickets -> {"none", "ACTIVE", "COMPLETED", "CANCELLED", "EXPIRED"}]
  /\ step \in [Flows -> Steps]
  /\ bulk \in [Uploads -> {"none", "RUNNING", "PAUSED", "COMPLETED", "FAILED", "CANCELLED"}]
  /\ owns \subseteq Capsules /\ imported \subseteq Capsules
  /\ inShow \in BOOLEAN /\ overtaken \in BOOLEAN
  /\ troubles \in 0..MaxTrouble

\* What a manifest, a snapshot, a medium, a package or a completed upload names
\* is registered and its file is there, whichever imports failed, were rolled
\* back or died in between, unless a removal and another workflow overlapped:
\* then the file, and the row of what no foreign key names, may be lost.  An
\* upload that is over has no job that still runs.
UsedContentIsKept ==
  /\ ~overtaken /\ (references # {} \/ \E k \in Tickets : ticket[k] = "COMPLETED")
       => metadata /\ blob
  /\ references \cap Keyed # {} => metadata
  /\ \A f \in Uploads : step[f] = "idle" => bulk[f] \notin {"RUNNING", "PAUSED"}
=============================================================================
