------------------------------- MODULE Revisions -------------------------------
(***************************************************************************)
(* The configuration of a Project and its publication (internal/publish,   *)
(* internal/snapshot, the revision and configuration rows of              *)
(* internal/store, the operator handlers that edit them).  The database    *)
(* has one connection whose transactions exclude each other; a handler is  *)
(* a series of statements and transactions with nothing around them.       *)
(*                                                                         *)
(* Of a revision there are the places of its Cues and one output, which    *)
(* stands for all that is written by a statement of its own: inputs,       *)
(* outputs, deleted Routes, lighting bindings, execution environments.  A  *)
(* Cue keeps its name in the copies that later revisions have of it.       *)
(* Sound content has an output that may be published and the target that   *)
(* Cues and outputs name; targets belong to the Project.                   *)
(***************************************************************************)
EXTENDS Naturals, Sequences, FiniteSets

CONSTANTS
  Operators,    \* clients
  Duties,       \* what each of them does
  CueNames, FirstCues,
  MaxPlace, MaxRevision,
  MaxEdit,      \* bound on writes
  MaxMishap     \* bound on failures, restarts and SHOWs

VARIABLES
  current,    \* projects.current_revision_id
  revision,   \* status of each revision
  parent,     \* parent_revision_id
  cues,       \* revision -> Cue -> order_index
  outputs,    \* revision -> its output
  hasTarget,  \* the target alias exists
  snapshots,  \* revision -> its Runtime Snapshots
  editing,    \* what each operator's handler is doing
  onShow,     \* a SHOW is active
  late,       \* history: revisions that were written when no longer DRAFT
  reopened,   \* history: revisions that were DRAFT again
  stray,      \* history: successors that are no copy of their parent
  edits, mishaps

revisionVars ==
  <<current, revision, parent, cues, outputs, hasTarget, snapshots, editing, onShow,
    late, reopened, stray, edits, mishaps>>

Revisions == 1..MaxRevision
Known == {r \in Revisions : revision[r] # "none"}
NoRevision == 0

Places == UNION {[N -> 1..MaxPlace] : N \in SUBSET CueNames}
Distinct(order) == \A n, m \in DOMAIN order : n # m => order[n] # order[m]

ASSUME RevisionsAssumption ==
  /\ MaxPlace \in Nat /\ MaxRevision \in Nat \ {0} /\ MaxEdit \in Nat /\ MaxMishap \in Nat
  /\ IsFiniteSet(CueNames)
  /\ FirstCues \in Places /\ Distinct(FirstCues)

\* names asks for Cues of the revision from, at the places it has them;
\* touched is a history: what the handler read has changed since.
NoRequest ==
  [kind |-> "none", at |-> "idle",
   from |-> NoRevision, source |-> NoRevision, target |-> NoRevision,
   names |-> << >>, places |-> << >>, picked |-> << >>,
   cues |-> << >>, output |-> "none", hasTarget |-> FALSE, touched |-> FALSE]

RevisionsInit ==
  /\ current = 1
  /\ revision = [r \in Revisions |-> IF r = 1 THEN "DRAFT" ELSE "none"]
  /\ parent = [r \in Revisions |-> NoRevision]
  /\ cues = [r \in Revisions |-> IF r = 1 THEN FirstCues ELSE << >>]
  /\ outputs = [r \in Revisions |-> "good"]
  /\ hasTarget = TRUE
  /\ snapshots = [r \in Revisions |-> {}]
  /\ editing = [c \in Operators |-> NoRequest]
  /\ onShow = FALSE
  /\ late = {} /\ reopened = {} /\ stray = {}
  /\ edits = 0 /\ mishaps = 0

Doing(c, s) == editing[c].at = s
GoOn(c, s) == editing' = [editing EXCEPT ![c].at = s]
End(c) == editing' = [editing EXCEPT ![c] = NoRequest]

Edit == edits < MaxEdit /\ edits' = edits + 1
Mishap == mishaps < MaxMishap /\ mishaps' = mishaps + 1

\* The triggers of the SHOW lock abort every write to the configuration.
Writable == ~onShow

\* Operators that have read Cues to be mapped, and content to be published.
Mapping(c) == editing[c].at \in {"ensure", "copyCues", "copyRest", "fork", "map"}
Publishing(c) == editing[c].at \in {"validate", "freeze", "readCues", "readRest"}

\* The handler of c ends, and those that read what it wrote are overtaken.
EndTouching(c, Reader(_)) ==
  editing' = [d \in Operators |->
             IF d = c THEN NoRequest
             ELSE [editing[d] EXCEPT !.touched = @ \/ Reader(d)]]
Touching(Reader(_)) ==
  editing' = [d \in Operators |-> [editing[d] EXCEPT !.touched = @ \/ Reader(d)]]

-----------------------------------------------------------------------------
(* A request to edit, and the DRAFT it needs.                              *)

Begin(c, t) ==
  /\ Doing(c, "idle") /\ t.kind \in Duties[c]
  /\ editing' = [editing EXCEPT ![c] = t]
  /\ UNCHANGED <<current, revision, parent, cues, outputs, hasTarget, snapshots, onShow,
                 late, reopened, stray, edits, mishaps>>

Naming(kind, names) ==
  [NoRequest EXCEPT !.kind = kind, !.at = "ensure", !.from = current, !.names = names,
                 !.places = [i \in DOMAIN names |-> cues[current][names[i]]]]

RequestCue(c) ==
  \E n \in DOMAIN cues[current] : Begin(c, Naming("cue", <<n>>))

\* Every Cue exactly once.
Arrangements(N) == {s \in [1..Cardinality(N) -> N] : \A n \in N : \E i \in DOMAIN s : s[i] = n}

RequestReorder(c) ==
  /\ DOMAIN cues[current] # {}
  /\ \E s \in Arrangements(DOMAIN cues[current]) : Begin(c, Naming("reorder", s))

RequestOther(c) == \E kind \in {"add", "output"} : Begin(c, Naming(kind, << >>))

EnsureDraft(c) ==
  /\ Doing(c, "ensure")
  /\ IF onShow THEN End(c)
     ELSE IF revision[current] = "DRAFT"
     THEN editing' = [editing EXCEPT ![c].target = current, ![c].at = "map"]
     ELSE editing' = [editing EXCEPT ![c].source = current, ![c].at = "copyCues"]
  /\ UNCHANGED <<current, revision, parent, cues, outputs, hasTarget, snapshots, onShow,
                 late, reopened, stray, edits, mishaps>>

CopyCues(c) ==
  /\ Doing(c, "copyCues")
  /\ editing' = [editing EXCEPT ![c].cues = cues[editing[c].source], ![c].at = "copyRest"]
  /\ UNCHANGED <<current, revision, parent, cues, outputs, hasTarget, snapshots, onShow,
                 late, reopened, stray, edits, mishaps>>

CopyRest(c) ==
  /\ Doing(c, "copyRest")
  /\ editing' = [editing EXCEPT ![c].output = outputs[editing[c].source], ![c].at = "fork"]
  /\ UNCHANGED <<current, revision, parent, cues, outputs, hasTarget, snapshots, onShow,
                 late, reopened, stray, edits, mishaps>>

\* one_draft_revision_per_project
NoDraft == \A r \in Known : revision[r] # "DRAFT"

Fork(c) ==
  LET t == editing[c]
      r == Cardinality(Known) + 1 IN
  /\ Doing(c, "fork") /\ r \in Revisions
  /\ IF Writable /\ current = t.source /\ NoDraft
     THEN /\ current' = r
          /\ revision' = [revision EXCEPT ![r] = "DRAFT"]
          /\ parent' = [parent EXCEPT ![r] = t.source]
          /\ cues' = [cues EXCEPT ![r] = t.cues]
          /\ outputs' = [outputs EXCEPT ![r] = t.output]
          /\ stray' = IF t.cues = cues[t.source] /\ t.output = outputs[t.source]
                      THEN stray ELSE stray \cup {r}
          /\ editing' = [d \in Operators |->
               [(IF d = c
                 THEN [t EXCEPT !.target = r, !.at = "map", !.cues = << >>, !.output = "none"]
                 ELSE editing[d])
                 EXCEPT !.touched = @ \/ (Mapping(d) /\ t.cues # cues[t.source])]]
     ELSE End(c) /\ UNCHANGED <<current, revision, parent, cues, outputs, stray>>
  /\ UNCHANGED <<hasTarget, snapshots, onShow, late, reopened, edits, mishaps>>

\* Faulty variant: the place is taken for a position in the list, whose
\* places need not be consecutive.
CopiesByPosition(order, place) ==
  {n \in DOMAIN order : Cardinality({m \in DOMAIN order : order[m] <= order[n]}) = place}
CopiesAt(order, place) == {n \in DOMAIN order : order[n] = place}

\* Cues of the revision that was read are found by identity, their copies in
\* another revision by the place.
MapCues(c) ==
  LET t == editing[c]
      copies(i) == CopiesAt(cues[t.target], t.places[i])
      picked == IF t.target = t.from THEN t.names
                ELSE [i \in DOMAIN t.places |-> CHOOSE n \in copies(i) : TRUE] IN
  /\ Doing(c, "map")
  /\ IF t.target = t.from \/ \A i \in DOMAIN t.places : copies(i) # {}
     THEN editing' = [editing EXCEPT ![c].picked = picked, ![c].places = << >>,
                               ![c].from = NoRevision, ![c].source = NoRevision, ![c].at = "apply"]
     ELSE End(c)
  /\ UNCHANGED <<current, revision, parent, cues, outputs, hasTarget, snapshots, onShow,
                 late, reopened, stray, edits, mishaps>>

-----------------------------------------------------------------------------
(* The edit, in a transaction that checks the revision once more, but for  *)
(* what is written by a single statement after the check.                  *)

\* A name nobody has or remembers: a new Cue has a new identity.
Fresh ==
  CueNames \ UNION ({DOMAIN cues[r] : r \in Revisions}
                      \cup {DOMAIN s.cues : s \in UNION {snapshots[r] : r \in Revisions}}
                      \cup {DOMAIN editing[c].cues : c \in Operators}
                      \cup {{editing[c].names[i] : i \in DOMAIN editing[c].names} :
                              c \in Operators})

With(order, n, p) == [m \in DOMAIN order \cup {n} |-> IF m = n THEN p ELSE order[m]]
Replacements(order, n) == {o \in {With(order, n, p) : p \in 1..MaxPlace} : Distinct(o)}
Deletion(order, n) == [m \in DOMAIN order \ {n} |-> order[m]]
Additions(order) ==
  {o \in {With(order, n, p) : n \in Fresh, p \in 1..MaxPlace} : Distinct(o)}

\* Faulty variant: the transaction does not check the revision once more.
MayWriteUnchecked(r) == Writable
MayWriteCues(r) == Writable /\ revision[r] = "DRAFT"

SetCues(r, order) == cues' = [cues EXCEPT ![r] = order]

RefuseEdit(c) == End(c) /\ UNCHANGED <<cues, edits>>

\* Replaced, deleted unless a Route starts it, or duplicated.
ApplyCue(c) ==
  LET t == editing[c]
      order == cues[t.target]
      n == t.picked[1] IN
  /\ Doing(c, "apply") /\ t.kind = "cue"
  /\ \/ /\ MayWriteCues(t.target) /\ n \in DOMAIN order /\ Edit
        /\ \E o \in Replacements(order, n) \cup {Deletion(order, n)} \cup Additions(order) :
             SetCues(t.target, o)
        /\ EndTouching(c, Mapping)
     \/ RefuseEdit(c)
  /\ UNCHANGED <<current, revision, parent, outputs, hasTarget, snapshots, onShow,
                 late, reopened, stray, mishaps>>

ApplyReorder(c) ==
  LET t == editing[c]
      N == DOMAIN cues[t.target] IN
  /\ Doing(c, "apply") /\ t.kind = "reorder"
  /\ \/ /\ MayWriteCues(t.target) /\ t.picked \in Arrangements(N) /\ Edit
        /\ SetCues(t.target, [n \in N |-> CHOOSE i \in DOMAIN t.picked : t.picked[i] = n])
        /\ EndTouching(c, Mapping)
     \/ RefuseEdit(c)
  /\ UNCHANGED <<current, revision, parent, outputs, hasTarget, snapshots, onShow,
                 late, reopened, stray, mishaps>>

AddCue(c) ==
  LET t == editing[c] IN
  /\ Doing(c, "apply") /\ t.kind = "add"
  /\ \/ /\ MayWriteCues(t.target) /\ Edit
        /\ \E o \in Additions(cues[t.target]) : SetCues(t.target, o)
        /\ EndTouching(c, Mapping)
     \/ RefuseEdit(c)
  /\ UNCHANGED <<current, revision, parent, outputs, hasTarget, snapshots, onShow,
                 late, reopened, stray, mishaps>>

CheckOutput(c) ==
  /\ Doing(c, "apply") /\ editing[c].kind = "output"
  /\ IF revision[editing[c].target] = "DRAFT" THEN GoOn(c, "write") ELSE End(c)
  /\ UNCHANGED <<current, revision, parent, cues, outputs, hasTarget, snapshots, onShow,
                 late, reopened, stray, edits, mishaps>>

WriteOutput(c) ==
  LET r == editing[c].target IN
  /\ Doing(c, "write")
  /\ \/ /\ Writable /\ Edit
        /\ \E value \in {"good", "reserved"} : outputs' = [outputs EXCEPT ![r] = value]
        /\ late' = IF revision[r] = "DRAFT" THEN late ELSE late \cup {r}
        /\ EndTouching(c, Publishing)
     \/ End(c) /\ UNCHANGED <<outputs, late, edits>>
  /\ UNCHANGED <<current, revision, parent, cues, hasTarget, snapshots, onShow,
                 reopened, stray, mishaps>>

\* Proposals of the Assistant: one transaction, for the revision they were
\* made for, which must be the current DRAFT.
ApplyBatch ==
  /\ MayWriteCues(current) /\ Edit
  /\ \E o \in Additions(cues[current])
              \cup UNION {Replacements(cues[current], n) : n \in DOMAIN cues[current]} :
       SetCues(current, o)
  /\ Touching(Mapping)
  /\ UNCHANGED <<current, revision, parent, outputs, hasTarget, snapshots, onShow,
                 late, reopened, stray, mishaps>>

ChangeTarget ==
  /\ Writable /\ Edit
  /\ hasTarget' = ~hasTarget
  /\ Touching(Publishing)
  /\ UNCHANGED <<current, revision, parent, cues, outputs, snapshots, onShow,
                 late, reopened, stray, mishaps>>

\* Back to the parent, for a DRAFT that has one.
Discard ==
  LET p == parent[current] IN
  /\ Writable /\ Edit
  /\ revision[current] = "DRAFT" /\ p # NoRevision /\ revision[p] = "VALIDATED"
  /\ current' = p
  /\ revision' = [revision EXCEPT ![current] = "SUPERSEDED"]
  /\ Touching(Mapping)
  /\ UNCHANGED <<parent, cues, outputs, hasTarget, snapshots, onShow, late, reopened,
                 stray, mishaps>>

-----------------------------------------------------------------------------
(* Publication: validated, frozen, read table by table, inserted.          *)

ValidateTarget(c) ==
  /\ revision[current] = "DRAFT" /\ hasTarget
  /\ Begin(c, [NoRequest EXCEPT !.kind = "publish", !.at = "validate", !.source = current])

ValidateRest(c) ==
  /\ Doing(c, "validate")
  /\ IF outputs[editing[c].source] = "good" THEN GoOn(c, "freeze") ELSE End(c)
  /\ UNCHANGED <<current, revision, parent, cues, outputs, hasTarget, snapshots, onShow,
                 late, reopened, stray, edits, mishaps>>

Freeze(c) ==
  LET r == editing[c].source IN
  /\ Doing(c, "freeze")
  /\ IF Writable /\ revision[r] = "DRAFT"
     THEN revision' = [revision EXCEPT ![r] = "VALIDATED"] /\ GoOn(c, "readCues")
     ELSE End(c) /\ UNCHANGED revision
  /\ UNCHANGED <<current, parent, cues, outputs, hasTarget, snapshots, onShow,
                 late, reopened, stray, edits, mishaps>>

ReadCues(c) ==
  LET r == editing[c].source IN
  /\ Doing(c, "readCues")
  /\ IF revision[r] = "VALIDATED"
     THEN editing' = [editing EXCEPT ![c].cues = cues[r], ![c].at = "readRest"]
     ELSE GoOn(c, "reopen")
  /\ UNCHANGED <<current, revision, parent, cues, outputs, hasTarget, snapshots, onShow,
                 late, reopened, stray, edits, mishaps>>

ReadRest(c) ==
  /\ Doing(c, "readRest")
  /\ editing' = [editing EXCEPT ![c].output = outputs[editing[c].source],
                          ![c].hasTarget = hasTarget, ![c].at = "insert"]
  /\ UNCHANGED <<current, revision, parent, cues, outputs, hasTarget, snapshots, onShow,
                 late, reopened, stray, edits, mishaps>>

ManifestOf(t) ==
  [cues |-> t.cues, output |-> t.output, hasTarget |-> t.hasTarget, touched |-> t.touched]

InsertSnapshot(c) ==
  LET r == editing[c].source IN
  /\ Doing(c, "insert")
  /\ IF Writable /\ revision[r] = "VALIDATED"
     THEN snapshots' = [snapshots EXCEPT ![r] = @ \cup {ManifestOf(editing[c])}] /\ End(c)
     ELSE GoOn(c, "reopen") /\ UNCHANGED snapshots
  /\ UNCHANGED <<current, revision, parent, cues, outputs, hasTarget, onShow,
                 late, reopened, stray, edits, mishaps>>

\* Publish failed after the freeze.
Reopen(c) ==
  LET r == editing[c].source IN
  /\ Doing(c, "reopen")
  /\ End(c)
  /\ IF Writable /\ current = r /\ revision[r] = "VALIDATED" /\ snapshots[r] = {}
     THEN /\ revision' = [revision EXCEPT ![r] = "DRAFT"]
          /\ reopened' = reopened \cup {r}
     ELSE UNCHANGED <<revision, reopened>>
  /\ UNCHANGED <<current, parent, cues, outputs, hasTarget, snapshots, onShow,
                 late, stray, edits, mishaps>>

-----------------------------------------------------------------------------

\* A statement fails or the client leaves; a publication is then reopened,
\* which may fail for the same reason.
FailRequest(c) ==
  /\ ~Doing(c, "idle") /\ Mishap
  /\ IF editing[c].at \in {"readCues", "readRest", "insert"} THEN GoOn(c, "reopen") ELSE End(c)
  /\ UNCHANGED <<current, revision, parent, cues, outputs, hasTarget, snapshots, onShow,
                 late, reopened, stray, edits>>

RestartHub ==
  /\ Mishap
  /\ editing' = [c \in Operators |-> NoRequest]
  /\ UNCHANGED <<current, revision, parent, cues, outputs, hasTarget, snapshots, onShow,
                 late, reopened, stray, edits>>

\* A Session needs a published Snapshot.
SwitchShow ==
  /\ \E r \in Revisions : snapshots[r] # {}
  /\ onShow' = ~onShow
  /\ IF onShow THEN UNCHANGED mishaps ELSE Mishap
  /\ UNCHANGED <<current, revision, parent, cues, outputs, hasTarget, snapshots, editing,
                 late, reopened, stray, edits>>

RevisionsNext ==
  \/ \E c \in Operators :
       \/ RequestCue(c) \/ RequestReorder(c) \/ RequestOther(c)
       \/ EnsureDraft(c) \/ CopyCues(c) \/ CopyRest(c) \/ Fork(c) \/ MapCues(c)
       \/ ApplyCue(c) \/ ApplyReorder(c) \/ AddCue(c) \/ CheckOutput(c) \/ WriteOutput(c)
       \/ ValidateTarget(c) \/ ValidateRest(c) \/ Freeze(c) \/ ReadCues(c) \/ ReadRest(c)
       \/ InsertSnapshot(c) \/ Reopen(c) \/ FailRequest(c)
  \/ ApplyBatch \/ ChangeTarget \/ Discard \/ RestartHub \/ SwitchShow

RevisionsSpec == RevisionsInit /\ [][RevisionsNext]_revisionVars

-----------------------------------------------------------------------------

RevisionsTypeOK ==
  /\ current \in Revisions
  /\ revision \in [Revisions -> {"none", "DRAFT", "VALIDATED", "SUPERSEDED"}]
  /\ parent \in [Revisions -> Revisions \cup {NoRevision}]
  /\ \A r \in Revisions : cues[r] \in Places /\ Distinct(cues[r])
  /\ outputs \in [Revisions -> {"good", "reserved"}]
  /\ DOMAIN editing = Operators
  /\ edits \in 0..MaxEdit /\ mishaps \in 0..MaxMishap

\* A DRAFT is the current revision and succeeds a validated one; a revision has
\* one Snapshot, and then it is VALIDATED for good.  The Snapshot has the Cues
\* the revision has, and its output unless it was written by a request that had
\* found it in DRAFT, and it is sound unless the output or a target changed
\* between validation and the reads.  A successor is a copy of its parent
\* unless that was written late or was DRAFT again meanwhile.
PublishedIsFrozen ==
  /\ \A r \in Known :
       /\ revision[r] = "DRAFT" => r = current
       /\ revision[r] = "DRAFT" /\ parent[r] # NoRevision => revision[parent[r]] = "VALIDATED"
       /\ snapshots[r] # {} => revision[r] = "VALIDATED" /\ Cardinality(snapshots[r]) = 1
       /\ \A s \in snapshots[r] :
            /\ s.cues = cues[r]
            /\ r \notin late => s.output = outputs[r]
            /\ ~s.touched => s.hasTarget /\ s.output = "good"
  /\ \A r \in stray : parent[r] \in late \cup reopened

\* An edit, and every line of a new order, goes to the Cue it was asked for or
\* to the copy of it, unless the Cues of the Project changed, or a DRAFT was
\* discarded, between the request and the search for the copy.
EditHitsItsCue ==
  \A c \in Operators :
    Doing(c, "apply") /\ ~editing[c].touched => editing[c].picked = editing[c].names
=============================================================================
