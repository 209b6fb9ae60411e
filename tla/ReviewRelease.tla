---------------------------- MODULE ReviewRelease ----------------------------
(***************************************************************************)
(* The review governance of one drawing: threads, comments, engineering    *)
(* approvals and formal releases (review_service.py over the review state  *)
(* of store.py, api_review.py).                                            *)
(*                                                                         *)
(* The whole governance surface is one row with a sequence number.  A      *)
(* request reads that row, reads the drawing once or several times, each   *)
(* read in a transaction of its own, and writes the row back with a        *)
(* compare-and-set on the sequence number, after reconciling every live    *)
(* approval and release with one more read of the drawing.  The drawing is *)
(* edited meanwhile; it is not deleted (DocumentStore models that).        *)
(*                                                                         *)
(* Ids are sequence numbers: an approval or a release is named by that of  *)
(* the mutation that made it.  The snapshot digest is what it hashes.      *)
(***************************************************************************)
EXTENDS Naturals

CONSTANTS
  Threads, Requests,
  MaxRevision, MaxSeq   \* bounds of the model on revisions and mutations

ASSUME BoundsAssumption == MaxRevision \in Nat /\ MaxSeq \in Nat

VARIABLES
  revision,   \* documents.revision
  fit,        \* the revisions whose fresh release readiness is "eligible"
  gov,        \* the row of engineering_review_state (seq 0: there is none)
  package,    \* table release_evidence_packages: release and pinned revision
  chain,      \* table audit_records: the review workflow's facts
  job         \* what each request holds between two transactions

vars == <<revision, fit, gov, package, chain, job>>

-------------------------------------------------------------------------------
(* Rows.                                                                   *)

Optional(S) == {{}} \cup {{x} : x \in S}

Revisions == 0..MaxRevision
Seqs == 0..MaxSeq

Thread == [status: {"none", "open", "resolved", "reopened"},
           addressed: Optional(Revisions), reopened: BOOLEAN]

NoThread == [status |-> "none", addressed |-> {}, reopened |-> FALSE]

Digests == [threads: [Threads -> Thread], comments: Seqs]

\* readiness: the revision the decision-time readiness was assessed on.
Approval == [id: Seqs, rev: Revisions, digest: Digests, readiness: Optional(Revisions),
             status: {"requested", "approved", "rejected", "stale", "superseded"}]

Release == [id: Seqs, approval: Seqs, rev: Revisions, digest: Digests,
            state: {"released", "superseded"}]

Governance == [seq: Seqs, threads: [Threads -> Thread], comments: Seqs,
               approvals: SUBSET Approval, releases: SUBSET Release]

Fact == [event: {"approval.invalidated", "release.superseded",
                 "release.released", "release.denied"},
         about: Seqs, seq: Seqs]

Digest(g) == [threads |-> g.threads, comments |-> g.comments]

IsOpen(t) == t.status \in {"open", "reopened"}

AllClosed(g) == \A t \in Threads : ~IsOpen(g.threads[t])

Live(a) == a.status \in {"requested", "approved"}

\* The approval a release may rest on.
Holds(a, rev, digest) == a.status = "approved" /\ a.rev = rev /\ a.digest = digest

-------------------------------------------------------------------------------
(* What a mutation makes of the row it read.  live, seen, judged, now: the *)
(* revisions it found in its successive reads of the drawing.              *)

Kinds == {"thread", "comment", "resolve", "reopen",
          "request", "approve", "reject", "release"}

Job == [step: {"live", "document", "readiness", "reconcile", "commit"},
        kind: Kinds, on: Optional(Threads), approval: Optional(Seqs), snap: Governance,
        live: Optional(Revisions), seen: Optional(Revisions),
        judged: Optional(Revisions), now: Optional(Revisions)]

Idle == [step |-> "idle"]

\* Mutant of Invalidates: a new thread or comment leaves the approvals alone.
InvalidatesOnReopen(kind) == kind = "reopen"

\* The mutations with an invalidation reason.
Invalidates(kind) == kind \in {"thread", "comment", "reopen"}

ThreadsAfter(j) ==
  [t \in Threads |->
     LET was == j.snap.threads[t] IN
     CASE t \in j.on /\ j.kind = "thread"  -> [NoThread EXCEPT !.status = "open"]
       [] t \in j.on /\ j.kind = "resolve" -> [was EXCEPT !.status = "resolved", !.addressed = j.seen]
       [] t \in j.on /\ j.kind = "reopen"  -> [was EXCEPT !.status = "reopened", !.reopened = TRUE]
       [] OTHER -> was]

CommentsAfter(j) ==
  IF j.kind \in {"thread", "comment"} THEN j.snap.comments + 1 ELSE j.snap.comments

\* A fresh request supersedes the undecided one of the current revision.
Superseding(j, a) ==
  IF a.status = "requested" /\ a.rev \in j.live
  THEN [a EXCEPT !.status = "superseded"] ELSE a

\* Mutant of Decided: the status is the verb of the request.
DecidedByVerb(j, a) ==
  IF a.id \in j.approval
  THEN [a EXCEPT !.status = j.kind, !.readiness = j.judged]
  ELSE a

Decided(j, a) ==
  IF a.id \in j.approval
  THEN [a EXCEPT !.status = IF j.kind = "approve" THEN "approved" ELSE "rejected",
                 !.readiness = j.judged]
  ELSE a

NewId(j) == j.snap.seq + 1

Requested(j) ==
  {[id |-> NewId(j), rev |-> r, digest |-> Digest(j.snap), readiness |-> {},
    status |-> "requested"] : r \in j.seen}

Released(j) ==
  {[id |-> NewId(j), approval |-> a, rev |-> r, digest |-> Digest(j.snap),
    state |-> "released"] : a \in j.approval, r \in j.seen}

ApprovalsAfter(j) ==
  CASE j.kind = "request" -> {Superseding(j, a) : a \in j.snap.approvals} \cup Requested(j)
    [] j.kind \in {"approve", "reject"} -> {Decided(j, a) : a \in j.snap.approvals}
    [] OTHER -> j.snap.approvals

ReleasesAfter(j) ==
  IF j.kind = "release" THEN j.snap.releases \cup Released(j) ELSE j.snap.releases

DigestAfter(j) == [threads |-> ThreadsAfter(j), comments |-> CommentsAfter(j)]

-------------------------------------------------------------------------------
(* _reconcile, on the mutated row.                                         *)

\* Mutant of Stale: the reason is compared first, and the revision never.
StaleByReason(j, a) == Live(a) /\ Invalidates(j.kind)

Stale(j, a) == Live(a) /\ (a.rev \notin j.now \/ Invalidates(j.kind))

Outdated(j, r) ==
  r.state = "released" /\ (r.rev \notin j.now \/ r.digest # DigestAfter(j))

ApprovalsReconciled(j) ==
  {IF Stale(j, a) THEN [a EXCEPT !.status = "stale"] ELSE a : a \in ApprovalsAfter(j)}

ReleasesReconciled(j) ==
  {IF Outdated(j, r) THEN [r EXCEPT !.state = "superseded"] ELSE r : r \in ReleasesAfter(j)}

Reconciled(j) ==
  [seq |-> NewId(j), threads |-> ThreadsAfter(j), comments |-> CommentsAfter(j),
   approvals |-> ApprovalsReconciled(j), releases |-> ReleasesReconciled(j)]

About(event, ids, j) == [event: {event}, about: ids, seq: {NewId(j)}]

\* Mutant of Invalidated: approvals that were stale before are reported again.
InvalidatedEver(j) == {a \in ApprovalsAfter(j) : Stale(j, a) \/ a.status = "stale"}

\* release_document drops what its reconcile invalidates: it is never reported.
Invalidated(j) == {a \in ApprovalsAfter(j) : Stale(j, a) /\ j.kind # "release"}

\* One fact per approval invalidated, release superseded, release made.
Facts(j) ==
  About("approval.invalidated", {a.id : a \in Invalidated(j)}, j)
    \cup About("release.superseded", {r.id : r \in {q \in ReleasesAfter(j) : Outdated(j, q)}}, j)
    \cup About("release.released", {r.id : r \in ReleasesAfter(j) \ j.snap.releases}, j)

-------------------------------------------------------------------------------
Init ==
  /\ revision = 0
  /\ fit \in {{}, {0}}
  /\ gov = [seq |-> 0, threads |-> [t \in Threads |-> NoThread], comments |-> 0,
            approvals |-> {}, releases |-> {}]
  /\ package = {}
  /\ chain = {}
  /\ job = [w \in Requests |-> Idle]

\* A transaction on the drawing; the new one is ready for release, or not.
EditDrawing(ready) ==
  /\ revision < MaxRevision
  /\ revision' = revision + 1
  /\ fit' = IF ready THEN fit \cup {revision + 1} ELSE fit
  /\ UNCHANGED <<gov, package, chain, job>>

\* A waiver expires: readiness depends on the clock.
WaiverExpires ==
  /\ revision \in fit
  /\ fit' = fit \ {revision}
  /\ UNCHANGED <<revision, gov, package, chain, job>>

Hold(w, j) == job' = [job EXCEPT ![w] = j] /\ UNCHANGED <<revision, fit, gov, package>>

Refuse(w) == Hold(w, Idle) /\ UNCHANGED chain

-------------------------------------------------------------------------------
(* The request reads the row, which is at the sequence number it carries.  *)

\* The first read of the drawing a request needs.
FirstRead(kind) ==
  CASE kind \in {"comment", "reopen"} -> "reconcile"
    [] kind = "request" -> "live"
    [] OTHER -> "document"

Begin(w, kind, on, approval) ==
  /\ job[w] = Idle
  /\ gov.seq < MaxSeq   \* bound of the model
  /\ Hold(w, [step |-> FirstRead(kind), kind |-> kind, on |-> on, approval |-> approval,
              snap |-> gov, live |-> {}, seen |-> {}, judged |-> {}, now |-> {}])
  /\ UNCHANGED chain

CreateThread(w, t) == gov.threads[t] = NoThread /\ Begin(w, "thread", {t}, {})

AddComment(w, t) == gov.threads[t] # NoThread /\ Begin(w, "comment", {t}, {})

ResolveThread(w, t) == IsOpen(gov.threads[t]) /\ Begin(w, "resolve", {t}, {})

ReopenThread(w, t) == gov.threads[t].status = "resolved" /\ Begin(w, "reopen", {t}, {})

RequestApproval(w) == Begin(w, "request", {}, {})

DecideApproval(w, a, decision) ==
  /\ a.status = "requested"
  /\ Begin(w, decision, {}, {a.id})

\* The denial of a release is an audit record and nothing else.
Denied == chain' = chain \cup {[event |-> "release.denied", about |-> 0, seq |-> 0]}

ReleaseDocument(w) == AllClosed(gov) /\ Begin(w, "release", {}, {})

DenyOpenThreads(w) ==
  /\ job[w] = Idle
  /\ ~AllClosed(gov)
  /\ Denied
  /\ UNCHANGED <<revision, fit, gov, package, job>>

-------------------------------------------------------------------------------
(* The reads of the drawing.                                               *)

\* request_approval: no approval of the current revision is approved already.
ReadLive(w) ==
  LET j == job[w] IN
  /\ j.step = "live"
  /\ IF \E a \in j.snap.approvals : a.status = "approved" /\ a.rev = revision
     THEN Refuse(w)
     ELSE /\ Hold(w, [j EXCEPT !.step = "document", !.live = {revision}])
          /\ UNCHANGED chain

\* create_thread, resolve_thread, request_approval.
ReadDocument(w) ==
  LET j == job[w] IN
  /\ j.step = "document"
  /\ j.kind \in {"thread", "resolve", "request"}
  /\ Hold(w, [j EXCEPT !.step = "reconcile", !.seen = {revision}])
  /\ UNCHANGED chain

\* The approval still binds the drawing and the review; approving needs every
\* thread closed.
Decidable(j) ==
  /\ \A a \in j.snap.approvals : a.id \in j.approval =>
       a.rev = revision /\ a.digest = Digest(j.snap)
  /\ j.kind = "approve" => AllClosed(j.snap)

ReadForDecision(w) ==
  LET j == job[w] IN
  /\ j.step = "document"
  /\ j.kind \in {"approve", "reject"}
  /\ IF Decidable(j)
     THEN /\ Hold(w, [j EXCEPT !.step = "readiness", !.seen = {revision}])
          /\ UNCHANGED chain
     ELSE Refuse(w)

\* _readiness reads the drawing again.
AssessReadiness(w) ==
  LET j == job[w] IN
  /\ j.step = "readiness"
  /\ IF j.kind = "approve" /\ revision \notin fit
     THEN Refuse(w)
     ELSE /\ Hold(w, [j EXCEPT !.step = "reconcile", !.judged = {revision}])
          /\ UNCHANGED chain

\* The approvals that hold, and a release that is already made on such a binding.
Bound(g) == {a \in g.approvals : Holds(a, revision, Digest(g))}

Taken(g) == \E r \in g.releases :
  r.state = "released" /\ r.rev = revision /\ r.digest = Digest(g)

\* release_document, Phase A: one pinned read for approval, readiness, package.
PinRelease(w) ==
  LET j == job[w] IN
  /\ j.step = "document"
  /\ j.kind = "release"
  /\ revision \in fit
  /\ ~Taken(j.snap)
  /\ \E a \in Bound(j.snap) :
       Hold(w, [j EXCEPT !.step = "reconcile", !.seen = {revision}, !.approval = {a.id}])
  /\ UNCHANGED chain

DenyRelease(w) ==
  LET j == job[w] IN
  /\ j.step = "document"
  /\ j.kind = "release"
  /\ Bound(j.snap) = {} \/ (revision \notin fit /\ ~Taken(j.snap))
  /\ Denied
  /\ Hold(w, Idle)

RefuseSecondRelease(w) ==
  LET j == job[w] IN
  /\ j.step = "document"
  /\ j.kind = "release"
  /\ Bound(j.snap) # {} /\ Taken(j.snap)
  /\ Refuse(w)

ReadForReconcile(w) ==
  LET j == job[w] IN
  /\ j.step = "reconcile"
  /\ Hold(w, [j EXCEPT !.step = "commit", !.now = {revision}])
  /\ UNCHANGED chain

-------------------------------------------------------------------------------
(* The write.                                                              *)

\* Mutant of Unmoved: the row is written whatever its sequence number.
UnmovedOrNot(j) == TRUE

Unmoved(j) == gov.seq = j.snap.seq

\* Mutant of Recheck: Phase B does not look at the drawing again.
NoRecheck(j) == TRUE

\* commit_release checks the pinned revision under its write lock.
Recheck(j) == j.kind = "release" => j.seen = {revision}

Commit(w) ==
  LET j == job[w] IN
  /\ j.step = "commit"
  /\ Unmoved(j) /\ Recheck(j)
  /\ gov' = Reconciled(j)
  /\ chain' = chain \cup Facts(j)
  /\ package' = package \cup {[id |-> r.id, rev |-> r.rev] :
                                r \in ReleasesAfter(j) \ j.snap.releases}
  /\ job' = [job EXCEPT ![w] = Idle]
  /\ UNCHANGED <<revision, fit>>

CommitConflict(w) ==
  LET j == job[w] IN
  /\ j.step = "commit"
  /\ ~(Unmoved(j) /\ Recheck(j))
  /\ Refuse(w)

-------------------------------------------------------------------------------
Request(w) ==
  \/ \E t \in Threads :
       CreateThread(w, t) \/ AddComment(w, t) \/ ResolveThread(w, t) \/ ReopenThread(w, t)
  \/ RequestApproval(w)
  \/ \E a \in gov.approvals, decision \in {"approve", "reject"} : DecideApproval(w, a, decision)
  \/ ReleaseDocument(w) \/ DenyOpenThreads(w)
  \/ ReadLive(w) \/ ReadDocument(w) \/ ReadForDecision(w) \/ AssessReadiness(w)
  \/ PinRelease(w) \/ DenyRelease(w) \/ RefuseSecondRelease(w)
  \/ ReadForReconcile(w)
  \/ Commit(w) \/ CommitConflict(w)

Next ==
  \/ \E ready \in BOOLEAN : EditDrawing(ready)
  \/ WaiverExpires
  \/ \E w \in Requests : Request(w)

Spec == Init /\ [][Next]_vars

-------------------------------------------------------------------------------
(* Types.  The governance row, the facts and the held requests keep their shape. *)
TypeOK ==
  /\ revision \in Revisions
  /\ fit \subseteq Revisions
  /\ gov \in Governance
  /\ package \subseteq [id: Seqs, rev: Revisions]
  /\ chain \subseteq Fact
  /\ job \in [Requests -> Job \cup {Idle}]

(***************************************************************************)
(* A persisted approval vouches for the review as it is: what it binds is  *)
(* the current snapshot, and no thread is open.  Nothing checks that when  *)
(* the review moves; every mutation that moves it must invalidate, or be   *)
(* impossible (resolve has no invalidation reason) while one is approved.  *)
(***************************************************************************)
ApprovalStandsOnClosedReview ==
  \A a \in gov.approvals : a.status = "approved" =>
    a.digest = Digest(gov) /\ AllClosed(gov)

(***************************************************************************)
(* An approved approval was judged on the drawing it binds: between the    *)
(* check of its revision and the assessment of readiness the drawing may   *)
(* have moved, and only the reconcile can tell.                            *)
(***************************************************************************)
ApprovedAsJudged ==
  \A a \in gov.approvals : a.status = "approved" => a.readiness = {a.rev}

(***************************************************************************)
(* At most one approval is undecided or approved, and at most one release  *)
(* is marked released, whatever the drawing did meanwhile.                 *)
(***************************************************************************)
OneLiveApproval ==
  /\ \A a, b \in gov.approvals : Live(a) /\ Live(b) => a = b
  /\ \A r, q \in gov.releases : r.state = "released" /\ q.state = "released" => r = q

(***************************************************************************)
(* The audit chain tells every transition once: an approval is stale       *)
(* exactly when one fact says it was invalidated, a release superseded     *)
(* exactly when one fact says so, and every release has one fact of its    *)
(* making and its evidence package.                                        *)
(***************************************************************************)
Told(event, id) ==
  /\ \E f \in chain : f.event = event /\ f.about = id
  /\ \A f, h \in chain : f.event = event /\ h.event = event /\ f.about = id /\ h.about = id => f = h

Untold(event, id) == ~\E f \in chain : f.event = event /\ f.about = id

ChainTellsEachTransitionOnce ==
  /\ \A a \in gov.approvals :
       IF a.status = "stale" THEN Told("approval.invalidated", a.id)
       ELSE Untold("approval.invalidated", a.id)
  /\ \A r \in gov.releases :
       /\ Told("release.released", r.id)
       /\ [id |-> r.id, rev |-> r.rev] \in package
       /\ IF r.state = "superseded" THEN Told("release.superseded", r.id)
          ELSE Untold("release.superseded", r.id)

(***************************************************************************)
(* A release happens on the drawing and the review as they are at that     *)
(* instant: at the pinned revision, all threads closed, by an approval     *)
(* that still holds and was judged on this very revision, and the step     *)
(* that makes it leaves both the approval and the release standing.        *)
(***************************************************************************)
ReleasedOnStandingApproval ==
  [][\A r \in gov'.releases :
       r.id \notin {q.id : q \in gov.releases} =>
         /\ r.rev = revision /\ r.digest = Digest(gov) /\ AllClosed(gov)
         /\ r.state = "released"
         /\ \E a \in gov'.approvals :
              /\ a.id = r.approval
              /\ Holds(a, revision, Digest(gov))
              /\ a.readiness = {revision}]_vars

(***************************************************************************)
(* Concurrent reviewers never lose each other's work: the row advances by  *)
(* one mutation at a time, no thread, comment, approval or release goes,   *)
(* and what was closed for good (rejected, stale, superseded) stays so.    *)
(***************************************************************************)
GovernanceOnlyGrows ==
  [][gov' # gov =>
       /\ gov'.seq = gov.seq + 1
       /\ gov'.comments >= gov.comments
       /\ \A t \in Threads : gov.threads[t] # NoThread => gov'.threads[t] # NoThread
       /\ \A a \in gov.approvals : \E b \in gov'.approvals :
            b.id = a.id /\ (Live(a) \/ b = a)
       /\ \A r \in gov.releases : \E q \in gov'.releases :
            q.id = r.id /\ (r.state = "released" \/ q = r)]_vars

===============================================================================
