------------------------------ MODULE Knowledge ------------------------------
(***************************************************************************)
(* What a Room keeps beside its tasks (services.py): versioned knowledge   *)
(* assets, which an independent review approves, and the versioned project *)
(* documents, the binding ones of which are handed out with a claim and    *)
(* named in the receipt of the work report.                                *)
(*                                                                         *)
(* Both hang on the tasks: an asset may come from a task that has to be    *)
(* verified, and a receipt from the claims of one.  Of the task machine    *)
(* (TaskRoom) only what these two read is kept here.                       *)
(***************************************************************************)
EXTENDS Naturals, SequencesExt, Absence

CONSTANTS Assets,
          Documents,       \* doc_key
          Tasks,
          Agents,          \* software identities
          RequireVerified, \* settings.knowledge_require_verified_task
          Retention,       \* audit_retention_days is positive (the default is 0)
          MaxVersions,     \* bound on the versions of an asset
          MaxEdits,        \* bound on the versions of a document
          MaxClaims        \* bound on the task.claimed events of a task

ASSUME KnowledgeAssumption ==
    /\ None \notin Agents \cup Tasks
    /\ RequireVerified \in BOOLEAN /\ Retention \in BOOLEAN
    /\ {MaxVersions, MaxEdits, MaxClaims} \subseteq Nat

VARIABLES asset,     \* knowledge_assets
          versions,  \* knowledge_asset_versions of an asset, in their order
          reviews,   \* knowledge_reviews
          head,      \* project_document_heads
          task,      \* the columns of tasks that matter here
          claims,    \* the binding documents named by the task.claimed events
          receipt,   \* spec_receipt of the last work.reported event
          handedOut  \* history: what the claims of a task were answered with

knowledgeVars == <<asset, versions, reviews, head, task, claims, receipt, handedOut>>
assetVars == <<asset, versions, reviews>>
taskVars == <<task, claims, receipt, handedOut>>

AssetStatuses == {"candidate", "approved", "rejected", "superseded", "archived"}

AssetTransitions ==
    [absent     |-> {"candidate"},
     candidate  |-> {"approved", "rejected", "archived"},
     approved   |-> {"superseded", "archived"},
     rejected   |-> {"candidate", "archived"},
     superseded |-> {"candidate", "archived"},
     archived   |-> {}]

Version == [by : Agents, task : Tasks \cup {None}]
\* verified: what the source task was when the verdict was given.
Review == [asset : Assets, version : Nat, by : Agents, approved : BOOLEAN, verified : BOOLEAN]
DocumentHead == [version : Nat, kind : {"binding", "reference"}, archived : BOOLEAN]
DocumentNames == SUBSET (Documents \X Nat)
Stages == {"todo", "work", "reported", "approved"}

KnowledgeTypeOK ==
    /\ asset \in [Assets -> [status : AssetStatuses \cup {"absent"}, current : Nat]]
    /\ versions \in [Assets -> Seq(Version)]
    /\ reviews \subseteq Review
    /\ head \in [Documents -> DocumentHead]
    /\ task \in [Tasks -> [stage : Stages, owner : Agents \cup {None}]]
    /\ claims \in [Tasks -> Seq(DocumentNames)]
    /\ receipt \in [Tasks -> DocumentNames]
    /\ handedOut \in [Tasks -> SUBSET DocumentNames]

KnowledgeInit ==
    /\ asset = [a \in Assets |-> [status |-> "absent", current |-> 0]]
    /\ versions = [a \in Assets |-> <<>>]
    /\ reviews = {}
    /\ head = [d \in Documents |-> [version |-> 0, kind |-> "binding", archived |-> FALSE]]
    /\ task = [t \in Tasks |-> [stage |-> "todo", owner |-> None]]
    /\ claims = [t \in Tasks |-> <<>>]
    /\ receipt = [t \in Tasks |-> {}]
    /\ handedOut = [t \in Tasks |-> {}]

-----------------------------------------------------------------------------
(* Knowledge assets. *)

Current(a) == versions[a][asset[a].current]
Verified(t) == t # None => task[t].stage = "approved"

SetStatus(a, status) == asset' = [asset EXCEPT ![a].status = status]

\* An asset takes a new version while it waits for its review, and wherever it
\* may go back to waiting for one.
Revisable(a) == asset[a].status = "candidate" \/ "candidate" \in AssetTransitions[asset[a].status]

SubmitCandidate(a, by, source) ==
    LET number == Len(versions[a]) + 1 IN
    /\ number <= MaxVersions
    /\ Revisable(a)
    /\ versions' = [versions EXCEPT ![a] = Append(@, [by |-> by, task |-> source])]
    /\ asset' = [asset EXCEPT ![a] = [status |-> "candidate", current |-> number]]
    /\ UNCHANGED <<reviews, head, taskVars>>

Reviewable(a) == asset[a].status = "candidate"

\* Fault: the reviewer is compared with the author of the asset.
FirstAuthor(a) == versions[a][1].by

Author(a) == Current(a).by

SubmitReview(a, by, approved) ==
    LET source == Current(a).task IN
    /\ Reviewable(a)
    /\ by # Author(a)
    /\ approved /\ RequireVerified => Verified(source)
    /\ reviews' = reviews \cup {[asset |-> a, version |-> asset[a].current, by |-> by,
                                 approved |-> approved, verified |-> Verified(source)]}
    /\ SetStatus(a, IF approved THEN "approved" ELSE "rejected")
    /\ UNCHANGED <<versions, head, taskVars>>

\* supersede_knowledge_asset and archive_knowledge_asset
Retire(a, status) ==
    /\ status \in {"superseded", "archived"} \cap AssetTransitions[asset[a].status]
    /\ SetStatus(a, status)
    /\ UNCHANGED <<versions, reviews, head, taskVars>>

-----------------------------------------------------------------------------
(* Project documents. *)

\* Nobody says which version it started from: the last writer wins.
UpsertDocument(d, kind) ==
    /\ head[d].version < MaxEdits
    /\ head' = [head EXCEPT ![d] = [version |-> @.version + 1, kind |-> kind, archived |-> FALSE]]
    /\ UNCHANGED <<assetVars, taskVars>>

ArchiveDocument(d) ==
    /\ head[d].version > 0
    /\ head' = [head EXCEPT ![d].archived = TRUE]
    /\ UNCHANGED <<assetVars, taskVars>>

\* _binding_document_snapshot; injectable_project_documents lists the same ones.
BindingDocuments ==
    {<<d, head[d].version>> :
        d \in {e \in Documents : head[e].version > 0 /\ head[e].kind = "binding" /\ ~head[e].archived}}

-----------------------------------------------------------------------------
(* The tasks. *)

ClaimTask(t, by) ==
    /\ task[t].stage = "todo"
    /\ Len(claims[t]) < MaxClaims
    /\ task' = [task EXCEPT ![t] = [stage |-> "work", owner |-> by]]
    /\ claims' = [claims EXCEPT ![t] = Append(@, BindingDocuments)]
    /\ handedOut' = [handedOut EXCEPT ![t] = @ \cup {BindingDocuments}]
    /\ UNCHANGED <<assetVars, head, receipt>>

\* An assignment or a handoff that is accepted: the new owner has claimed nothing
\* and is handed no documents.
ChangeHands(t, by) ==
    /\ task[t].owner # by
    /\ task[t].stage # "reported"
    /\ task' = [task EXCEPT ![t] = [stage |-> IF @.stage = "todo" THEN "work" ELSE @.stage,
                                    owner |-> by]]
    /\ UNCHANGED <<assetVars, head, claims, receipt, handedOut>>

\* A release; or a cancellation, after which the task is reopened.
BackToPool(t) ==
    /\ task[t].owner # None
    /\ task' = [task EXCEPT ![t] = [stage |-> "todo", owner |-> None]]
    /\ UNCHANGED <<assetVars, head, claims, receipt, handedOut>>

\* Fault: the receipt names what is in force when the work is reported.
CurrentSnapshot(t) == BindingDocuments

\* _latest_claim_document_snapshot
LatestClaim(t) == IF claims[t] = <<>> THEN {} ELSE Last(claims[t])

WorkReport(t) ==
    /\ task[t].stage = "work"
    /\ task' = [task EXCEPT ![t].stage = "reported"]
    /\ receipt' = [receipt EXCEPT ![t] = LatestClaim(t)]
    /\ UNCHANGED <<assetVars, head, claims, handedOut>>

ReviewTask(t, approved) ==
    /\ task[t].stage = "reported"
    /\ task' = [task EXCEPT ![t].stage = IF approved THEN "approved" ELSE "work"]
    /\ UNCHANGED <<assetVars, head, claims, receipt, handedOut>>

\* enforce_audit_retention: the oldest events go.
PurgeClaim(t) ==
    /\ Retention
    /\ claims[t] # <<>>
    /\ claims' = [claims EXCEPT ![t] = Tail(@)]
    /\ UNCHANGED <<assetVars, head, task, receipt, handedOut>>

KnowledgeNext ==
    \/ \E a \in Assets, by \in Agents :
          \/ \E source \in Tasks \cup {None} : SubmitCandidate(a, by, source)
          \/ \E approved \in BOOLEAN : SubmitReview(a, by, approved)
    \/ \E a \in Assets, status \in AssetStatuses : Retire(a, status)
    \/ \E d \in Documents : ArchiveDocument(d) \/ \E kind \in {"binding", "reference"} : UpsertDocument(d, kind)
    \/ \E t \in Tasks : \/ \E by \in Agents : ClaimTask(t, by) \/ ChangeHands(t, by)
                        \/ \E approved \in BOOLEAN : ReviewTask(t, approved)
                        \/ BackToPool(t) \/ WorkReport(t) \/ PurgeClaim(t)

KnowledgeSpec == KnowledgeInit /\ [][KnowledgeNext]_knowledgeVars

-----------------------------------------------------------------------------
(* Properties. *)

\* What stands as approved was approved in this very version, by another
\* identity than the one that wrote this version, and on verified work, after
\* any sequence of rejections, revisions by several authors and supersessions.
Approves(r, a) ==
    /\ r.asset = a /\ r.version = asset[a].current
    /\ r.approved /\ r.by # versions[a][r.version].by
    /\ RequireVerified => r.verified

ApprovedIndependently ==
    \A a \in Assets : asset[a].status = "approved" => \E r \in reviews : Approves(r, a)

\* A version is judged once: a verdict is never followed by another one on the
\* same text, however the asset is superseded, revised or reviewed meanwhile.
JudgedOnce ==
    \A r, q \in reviews : r.asset = q.asset /\ r.version = q.version => r = q

\* The receipt of a report names documents as they were handed out together
\* with a claim of the task, never versions that came later, although the
\* documents change, the task changes hands and the claims are purged meanwhile.
ReceiptWasHandedOut ==
    \A t \in Tasks : receipt[t] \in handedOut[t] \cup {{}}
=============================================================================
