---------------------------- MODULE SemanticApply -----------------------------
(***************************************************************************)
(* The M6 plane: candidates read off a source drawing, their human review, *)
(* and the governed write of a confirmed finding to a target drawing       *)
(* (m6_review_service.py and m6_candidate_core.py over the M6 tables of    *)
(* store.py; m6_apply_runtime.py and api_m6_apply.py).                     *)
(*                                                                         *)
(* A candidate has no status column: its status is what replaying its      *)
(* append-only decision log gives.  A decision is built from several reads *)
(* outside any transaction, is stamped when it is built, and sorts in the  *)
(* log by that stamp, whenever it commits.  A confirmation is a finding; a *)
(* finding compiles to a patch; an approved patch is written once, and an  *)
(* applied patch may be compensated once.  Anyone edits either drawing     *)
(* between any two steps, and the process may die between any two steps.   *)
(*                                                                         *)
(* Ids are content hashes and are modelled by the content: a finding is    *)
(* its confirmation, a patch its finding, an apply record its patch (the   *)
(* hash adds the candidate and the approved intent, which the patch fixes).*)
(* The harness around a write is AgentHarness's; here an approval has a    *)
(* session of its own, refused authorizations leave no trace, and a        *)
(* verdict is one step.                                                    *)
(***************************************************************************)
EXTENDS Naturals

CONSTANTS
  Candidates, Workers,
  Versions,     \* what the source drawing may be: its revision and content
  NoVersion,    \* the source drawing does not exist
  MaxStamp,     \* bound on decisions built and approvals requested, together
  MaxCall       \* bound on tool calls

ASSUME BoundsAssumption ==
  /\ MaxStamp \in Nat /\ MaxCall \in Nat
  /\ NoVersion \notin Versions

VARIABLES
  source,     \* the source drawing: a version, or NoVersion
  target,     \* the target drawing: its generated elements, the tags in use
  candidate,  \* table semantic_candidates
  corrected,  \* the candidates filed to replace one, by the stamp of the decision
  log,        \* table review_decisions, by candidate and stamp
  clock,      \* the stamps given out: of decisions, and as ids of approvals
  patches,    \* table m6_structured_patches
  ledger,     \* table m6_apply_records
  approval,   \* table tool_approvals with the approval's agent session
  call,       \* table tool_calls
  lost,       \* the calls a crash left running
  work        \* what each request holds between two transactions

review == <<candidate, corrected, log>>
harness == <<approval, call, lost>>
vars == <<source, target, review, clock, patches, ledger, harness, work>>

-------------------------------------------------------------------------------
(* Rows.                                                                   *)

Optional(S) == {{}} \cup {{x} : x \in S}

Stamps == 1..MaxStamp
Calls == 1..MaxCall

\* A class candidate proposes an element to create; a tag candidate proposes
\* a tag and compiles to nothing, for it names no existing element.
Candidate == [kind: {"class", "tag"}, pin: Versions]

Statuses == {"needs_review", "confirmed", "rejected", "conflicted", "superseded"}

\* The declared transitions, as far as any decision kind reaches them.
Transitions ==
  {<<"needs_review", "confirmed">>, <<"needs_review", "rejected">>,
   <<"needs_review", "conflicted">>, <<"confirmed", "conflicted">>,
   <<"conflicted", "needs_review">>, <<"conflicted", "rejected">>}
  \cup ({"needs_review", "confirmed", "rejected", "conflicted"} \X {"superseded"})

Kinds == {"confirm", "reject", "recheck", "resolve", "reassign"}

Leads == [confirm |-> "confirmed", reject |-> "rejected", recheck |-> "conflicted",
          resolve |-> "needs_review", reassign |-> "superseded"]

\* What a decision was made against: the value of the candidate's key in the
\* target.  A class candidate's key is its region, where nothing ever is.
Baseline == {"absent", "present"}

Decision == [kind: Kinds, from: Statuses, base: Optional(Baseline)]

Finding == [of: Candidates, at: Stamps]

Patch == [finding: Finding, undo: BOOLEAN]

Compensation(p) == [p EXCEPT !.undo = TRUE]

Row == [patch: Patch, status: {"applied", "reverted"}, call: Calls]

Operation == [tool: {"apply", "revert"}, patch: Patch]

Approval == [status: {"none", "approved", "consumed"},
             op: Optional(Operation), session: {"none", "active", "completed", "failed"}]

Call == [status: {"none", "running", "completed", "failed"}, approval: Optional(Stamps)]

\* tags: the candidates whose tag some equipment carries.
Target == [made: SUBSET Finding, tags: SUBSET Candidates]

-------------------------------------------------------------------------------
(* Reading the tables.                                                     *)

Filed(c) == candidate[c] # {}

KindOf(c) == {k \in {"class", "tag"} : \E x \in candidate[c] : x.kind = k}

Pinned(c) == \E x \in candidate[c] : x.pin = source

\* The status that the row at stamp t, if any, leads to from the status before
\* it; "broken" when the row does not leave that status.
After(rows, before, t) ==
  IF rows[t] = {} THEN before
  ELSE LET d == CHOOSE x \in rows[t] : TRUE IN
       IF d.from = before /\ <<d.from, Leads[d.kind]>> \in Transitions
       THEN Leads[d.kind] ELSE "broken"

\* The rows of one candidate read in stamp order.
Replayed(rows) ==
  LET status[t \in 0..MaxStamp] ==
        IF t = 0 THEN "needs_review" ELSE After(rows, status[t - 1], t)
  IN status[MaxStamp]

Replay(c) == Replayed(log[c])

\* _reviewed_baseline: that of the last row that has one.
Reviewed(c) ==
  UNION {UNION {d.base : d \in log[c][t]} :
           t \in {u \in Stamps :
                    /\ \E d \in log[c][u] : d.base # {}
                    /\ \A v \in Stamps : v > u => \A d \in log[c][v] : d.base = {}}}

BaselineOf(c) == IF c \in target.tags THEN "present" ELSE "absent"

IsFinding(f) == \E d \in log[f.of][f.at] : d.kind = "confirm"

Rows(p) == {r \in ledger : r.patch = p}

Applied(p) == \E r \in Rows(p) : r.status = "applied"

-------------------------------------------------------------------------------
(* Requests.                                                               *)

Idle == [step |-> "idle"]

Filing == [step: {"file"}, kind: {"class", "tag"}, pin: Versions]

Deciding == [step: {"compare", "build", "commit"}, on: Candidates, kind: Kinds,
             base: Optional(Baseline), now: Optional(Baseline),
             from: Optional(Statuses), at: Optional(Stamps)]

Writing == [step: {"stage", "restage", "write", "close"}, call: Calls,
            op: Operation, current: BOOLEAN]

\* The target was written: what was staged on it is no longer current.
Outdated == [w \in Workers |->
  IF work[w] \in Writing THEN [work[w] EXCEPT !.current = FALSE] ELSE work[w]]

Goto(w, job) == work' = [work EXCEPT ![w] = job]

Init ==
  /\ source \in Versions
  /\ target = [made |-> {}, tags |-> {}]
  /\ candidate = [c \in Candidates |-> {}]
  /\ corrected = [c \in Candidates |-> {}]
  /\ log = [c \in Candidates |-> [t \in Stamps |-> {}]]
  /\ clock = 0
  /\ patches = {}
  /\ ledger = {}
  /\ approval = [a \in Stamps |-> [status |-> "none", op |-> {}, session |-> "none"]]
  /\ call = [k \in Calls |-> [status |-> "none", approval |-> {}]]
  /\ lost = {}
  /\ work = [w \in Workers |-> Idle]

-------------------------------------------------------------------------------
(* The drawings, edited through any other surface.                         *)

\* An edit, a deletion, or an import that puts an earlier version back.
SourceMoves ==
  /\ source' \in (Versions \cup {NoVersion}) \ {source}
  /\ UNCHANGED <<target, review, clock, patches, ledger, harness, work>>

\* An edit, an undo or a redo: a generated element goes or comes back, a
\* proposed tag is given to some equipment or taken from it, or neither.
TargetMoves ==
  /\ \E made \in SUBSET {r.patch.finding : r \in ledger}, tags \in SUBSET {c \in Candidates : KindOf(c) = {"tag"}} :
       target' = [made |-> made, tags |-> tags]
  /\ work' = Outdated
  /\ UNCHANGED <<source, review, clock, patches, ledger, harness>>

-------------------------------------------------------------------------------
(* Ingestion: pin and derive, then file against the pin.                   *)

ReadSource(w, kind) ==
  /\ work[w] = Idle
  /\ source \in Versions
  /\ Goto(w, [step |-> "file", kind |-> kind, pin |-> source])
  /\ UNCHANGED <<source, target, review, clock, patches, ledger, harness>>

Derived(job) == [kind |-> job.kind, pin |-> job.pin]

\* Filing again what is filed changes nothing.
FileCandidate(w, c) ==
  LET job == work[w] IN
  /\ job.step = "file"
  /\ source = job.pin
  /\ ~Filed(c)
  /\ \A d \in Candidates : candidate[d] # {Derived(job)}
  /\ candidate' = [candidate EXCEPT ![c] = {Derived(job)}]
  /\ Goto(w, Idle)
  /\ UNCHANGED <<source, target, corrected, log, clock, patches, ledger, harness>>

-------------------------------------------------------------------------------
(* Decisions: M6ReviewService.decide.                                      *)

\* verify_source, and the baseline of the actions that record one.
ReadForDecision(w, c, kind) ==
  /\ work[w] = Idle
  /\ Pinned(c)
  /\ Goto(w, [step |-> IF kind = "recheck" THEN "compare" ELSE "build",
              on |-> c, kind |-> kind,
              base |-> IF kind \in {"confirm", "resolve"} THEN {BaselineOf(c)} ELSE {},
              now |-> IF kind = "recheck" THEN {BaselineOf(c)} ELSE {},
              from |-> {}, at |-> {}])
  /\ UNCHANGED <<source, target, review, clock, patches, ledger, harness>>

\* recheck_baseline: the log is read for the status and the last baseline.
CompareBaseline(w) ==
  LET job == work[w] IN
  /\ job.step = "compare"
  /\ Replay(job.on) \in {"needs_review", "confirmed"}
  /\ \E b \in Reviewed(job.on), n \in job.now :
       /\ b # n
       /\ Goto(w, [job EXCEPT !.step = "build", !.base = {b}, !.now = {}])
  /\ UNCHANGED <<source, target, review, clock, patches, ledger, harness>>

\* _build_decision: the status the decision leaves, and its stamp.
BuildDecision(w) ==
  LET job == work[w] IN
  /\ job.step = "build"
  /\ clock < MaxStamp
  /\ <<Replay(job.on), Leads[job.kind]>> \in Transitions
  /\ clock' = clock + 1
  /\ Goto(w, [job EXCEPT !.step = "commit", !.from = {Replay(job.on)}, !.at = {clock + 1}])
  /\ UNCHANGED <<source, target, review, patches, ledger, harness>>

RowOf(job, from) == [kind |-> job.kind, from |-> from, base |-> job.base]

\* Mutants of Admitted: no compare-and-set on the log; the source is the
\* entry check's business.
AdmittedAtAnyStatus(job, from) == Pinned(job.on)

AdmittedOnAnySource(job, from) == Replay(job.on) = from

\* The checks of the committing transaction: the pinned source, and the
\* status by a replay under the lock.
Admitted(job, from) == Pinned(job.on) /\ Replay(job.on) = from

\* record_review_decision, record_confirmation.
CommitDecision(w) ==
  LET job == work[w] IN
  /\ job.step = "commit"
  /\ job.kind # "reassign"
  /\ \E from \in job.from, at \in job.at :
       /\ Admitted(job, from)
       /\ log' = [log EXCEPT ![job.on][at] = {RowOf(job, from)}]
  /\ Goto(w, Idle)
  /\ UNCHANGED <<source, target, candidate, corrected, clock, patches, ledger, harness>>

\* file_superseding_candidate: the corrected candidate, of the same pin, and
\* the row that retires the old one.  From then on the corrected candidate is
\* one like any other, about a tag; the model does not follow it.
CommitReassignment(w) ==
  LET job == work[w] IN
  /\ job.step = "commit"
  /\ job.kind = "reassign"
  /\ \E from \in job.from, at \in job.at :
       /\ Admitted(job, from)
       /\ log' = [log EXCEPT ![job.on][at] = {RowOf(job, from)}]
       /\ corrected' = [corrected EXCEPT ![job.on] = @ \cup {at}]
  /\ Goto(w, Idle)
  /\ UNCHANGED <<source, target, candidate, clock, patches, ledger, harness>>

\* Any refusal of an ingestion or a decision, before or in its transaction.
Abandon(w) ==
  /\ work[w].step \in {"file", "compare", "build", "commit"}
  /\ Goto(w, Idle)
  /\ UNCHANGED <<source, target, review, clock, patches, ledger, harness>>

-------------------------------------------------------------------------------
(* Compilation and approval.                                               *)

\* compile_patch: whether the finding still stands is not looked at.
CompilePatch(f) ==
  /\ IsFinding(f)
  /\ KindOf(f.of) = {"class"}
  /\ patches' = patches \cup {[finding |-> f, undo |-> FALSE]}
  /\ UNCHANGED <<source, target, review, clock, ledger, harness, work>>

\* A patch row may be applied; a record may be reverted if its audit fact
\* holds inverse operations, which that of a revert does not.
Requestable(op) ==
  IF op.tool = "apply" THEN op.patch \in patches
  ELSE ~op.patch.undo /\ Rows(op.patch) # {}

\* A request for approval in a session of its own, and its acceptance.
GrantApproval(op) ==
  /\ clock < MaxStamp
  /\ Requestable(op)
  /\ clock' = clock + 1
  /\ approval' = [approval EXCEPT ![clock + 1] =
                    [status |-> "approved", op |-> {op}, session |-> "active"]]
  /\ UNCHANGED <<source, target, review, patches, ledger, call, lost, work>>

-------------------------------------------------------------------------------
(* The governed write: authorize, then M6ApplyExecutor.                    *)

Authorize(w, k, a) ==
  /\ work[w] = Idle
  /\ \A i \in Calls : call[i].status = "none" <=> i >= k
  /\ approval[a].status = "approved"
  /\ approval[a].session = "active"
  /\ call' = [call EXCEPT ![k] = [status |-> "running", approval |-> {a}]]
  /\ \E op \in approval[a].op :
       Goto(w, [step |-> "stage", call |-> k, op |-> op, current |-> FALSE])
  /\ UNCHANGED <<source, target, review, clock, patches, ledger, approval, lost>>

\* _apply: the patch has no applied record, its element is not there yet.  A
\* compensation has no inverse and is refused here.
StageApply(w) ==
  LET job == work[w]
      op == job.op IN
  /\ job.step = "stage"
  /\ op.tool = "apply"
  /\ ~op.patch.undo
  /\ ~Applied(op.patch)
  /\ op.patch.finding \notin target.made
  /\ Goto(w, [job EXCEPT !.step = "write", !.current = TRUE])
  /\ UNCHANGED <<source, target, review, clock, patches, ledger, harness>>

\* _revert: the compensation patch is a row before the revert is staged.
PersistCompensation(w) ==
  LET job == work[w]
      op == job.op IN
  /\ job.step = "stage"
  /\ op.tool = "revert"
  /\ Applied(op.patch)
  /\ patches' = patches \cup {Compensation(op.patch)}
  /\ Goto(w, [job EXCEPT !.step = "restage"])
  /\ UNCHANGED <<source, target, review, clock, ledger, harness>>

\* Deleting an element that is not there cannot be staged.
StageRevert(w) ==
  LET job == work[w] IN
  /\ job.step = "restage"
  /\ job.op.patch.finding \in target.made
  /\ Goto(w, [job EXCEPT !.step = "write", !.current = TRUE])
  /\ UNCHANGED <<source, target, review, clock, patches, ledger, harness>>

\* Mutant of Standing: the revision is not compared.
StandingAtAnyRevision(job, f) == Pinned(f.of) /\ Replay(f.of) = "confirmed"

\* _cross_check_apply_identity and the final source verification, with the
\* expected revision.  (The baseline digest is of the region, and never moves.)
Standing(job, f) ==
  Pinned(f.of) /\ Replay(f.of) = "confirmed" /\ job.current

\* The call completed, its approval consumed, its session completed.
Completed(k) ==
  /\ call' = [call EXCEPT ![k].status = "completed"]
  /\ approval' = [a \in Stamps |->
       IF a \in call[k].approval
       THEN [approval[a] EXCEPT !.status = "consumed", !.session = "completed"]
       ELSE approval[a]]
  /\ UNCHANGED lost

\* Mutant of NewRow: the record takes the status of the call.
NewRowAsCall(p, k) == [patch |-> p, status |-> "completed", call |-> k]

NewRow(p, k) == [patch |-> p, status |-> "applied", call |-> k]

\* Mutant of Unrecorded: only an applied record stands in the way.
UnrecordedAsApplied(p) == ~Applied(p)

\* The guard on applied records, and the primary key behind it: the record of
\* a reverted patch still holds its id.
Unrecorded(p) == Rows(p) = {}

CommitApply(w) ==
  LET job == work[w]
      p == job.op.patch IN
  /\ job.step = "write"
  /\ job.op.tool = "apply"
  /\ Standing(job, p.finding)
  /\ Unrecorded(p)
  /\ target' = [target EXCEPT !.made = @ \cup {p.finding}]
  /\ ledger' = ledger \cup {NewRow(p, job.call)}
  /\ Completed(job.call)
  /\ work' = [Outdated EXCEPT ![w] = Idle]
  /\ UNCHANGED <<source, review, clock, patches>>

\* Mutant of Retired: the record keeps its status.
RetiredNot(r) == r

Retired(r) == [r EXCEPT !.status = "reverted"]

\* commit_m6_revert: the inverse write, its record, the original's record.
CommitRevert(w) ==
  LET job == work[w]
      p == job.op.patch IN
  /\ job.step = "write"
  /\ job.op.tool = "revert"
  /\ Standing(job, p.finding)
  /\ Applied(p)
  /\ Unrecorded(Compensation(p))
  /\ target' = [target EXCEPT !.made = @ \ {p.finding}]
  /\ ledger' = {IF r.patch = p THEN Retired(r) ELSE r : r \in ledger}
                 \cup {NewRow(Compensation(p), job.call)}
  /\ Completed(job.call)
  /\ work' = [Outdated EXCEPT ![w] = Idle]
  /\ UNCHANGED <<source, review, clock, patches>>

\* Any refusal, an error of the database included: nothing was written.
WriteRefused(w) ==
  /\ work[w].step \in {"stage", "restage", "write"}
  /\ Goto(w, [work[w] EXCEPT !.step = "close", !.current = FALSE])
  /\ UNCHANGED <<source, target, review, clock, patches, ledger, harness>>

\* Mutant of FailureCloseout: the session is left to be used again.
FailureCloseoutOfCall(w) ==
  LET k == work[w].call IN
  /\ work[w].step = "close"
  /\ call' = [call EXCEPT ![k].status = "failed"]
  /\ Goto(w, Idle)
  /\ UNCHANGED <<source, target, review, clock, patches, ledger, approval, lost>>

\* A transaction of its own: failed call, failed session.
FailureCloseout(w) ==
  LET k == work[w].call IN
  /\ work[w].step = "close"
  /\ call' = [call EXCEPT ![k].status = "failed"]
  /\ approval' = [a \in Stamps |->
       IF a \in call[k].approval THEN [approval[a] EXCEPT !.session = "failed"]
       ELSE approval[a]]
  /\ Goto(w, Idle)
  /\ UNCHANGED <<source, target, review, clock, patches, ledger, lost>>

-------------------------------------------------------------------------------
InFlight == {k \in Calls : \E w \in Workers : work[w] \in Writing /\ work[w].call = k}

\* The process dies and starts again: every request is gone, nothing looks
\* for the calls they were running.  The model does this to calls once.
Crash ==
  /\ InFlight # {}
  /\ lost = {}
  /\ lost' = InFlight
  /\ work' = [w \in Workers |-> Idle]
  /\ UNCHANGED <<source, target, review, clock, patches, ledger, approval, call>>

Editors == SourceMoves \/ TargetMoves

Review(w) ==
  \/ \E kind \in {"class", "tag"} : ReadSource(w, kind)
  \/ \E c \in Candidates : FileCandidate(w, c)
  \/ \E c \in Candidates, kind \in Kinds : ReadForDecision(w, c, kind)
  \/ CompareBaseline(w) \/ BuildDecision(w) \/ CommitDecision(w)
  \/ CommitReassignment(w) \/ Abandon(w)

Approve ==
  \/ \E f \in Finding : CompilePatch(f)
  \/ \E op \in Operation : GrantApproval(op)

Write(w) ==
  \/ \E k \in Calls, a \in Stamps : Authorize(w, k, a)
  \/ StageApply(w) \/ PersistCompensation(w) \/ StageRevert(w)
  \/ CommitApply(w) \/ CommitRevert(w) \/ WriteRefused(w) \/ FailureCloseout(w)

Next == Editors \/ Approve \/ Crash \/ \E w \in Workers : Review(w) \/ Write(w)

Spec == Init /\ [][Next]_vars

-------------------------------------------------------------------------------
(* Properties.                                                             *)

\* Every table and every held request keeps its shape.
TypeOK ==
  /\ source \in Versions \cup {NoVersion}
  /\ target \in Target
  /\ candidate \in [Candidates -> Optional(Candidate)]
  /\ corrected \in [Candidates -> SUBSET Stamps]
  /\ log \in [Candidates -> [Stamps -> Optional(Decision)]]
  /\ clock \in 0..MaxStamp
  /\ patches \subseteq Patch
  /\ ledger \subseteq Row
  /\ approval \in [Stamps -> Approval]
  /\ call \in [Calls -> Call]
  /\ lost \subseteq Calls
  /\ work \in [Workers -> {Idle} \cup Filing \cup Deciding \cup Writing]

\* A patch is written at most once and an approval serves at most one write,
\* though two requests may run on one approval, an apply may be reverted and
\* asked for again, and the commit never looks at the approval's status.
OneWritePerPatch ==
  \A r, s \in ledger :
    r.patch = s.patch \/ call[r.call].approval = call[s.call].approval => r = s

\* A record is marked reverted exactly when the record of its compensation
\* is there, later and itself never reverted.
RevertsArePaired ==
  \A r \in ledger :
    /\ r.status = "reverted" => Applied(Compensation(r.patch)) /\ ~r.patch.undo
    /\ r.patch.undo => \E s \in ledger :
         Compensation(s.patch) = r.patch /\ s.status = "reverted"

\* Ledger, calls and approvals close together: a completed call has its
\* record and its consumed approval, a failed one an ended session, and a
\* running one is held by a request or was lost in a crash.
CallsAreClosed ==
  /\ \A r \in ledger : call[r.call].status = "completed"
  /\ \A k \in Calls :
       /\ call[k].status = "completed" =>
            (\E r \in ledger : r.call = k)
              /\ \A a \in call[k].approval : approval[a].status = "consumed"
       /\ call[k].status = "failed" =>
            \A a \in call[k].approval : approval[a].session # "active"
       /\ call[k].status = "running" => k \in InFlight \cup lost

\* A candidate is superseded exactly when one candidate replaces it, and
\* never by two, however many reassignments run at a time.
OneSuccessor ==
  \A c \in Candidates :
    /\ corrected[c] = {t \in Stamps : \E d \in log[c][t] : d.kind = "reassign"}
    /\ \A t, u \in corrected[c] : t = u

\* A decision is recorded only while the source is what the candidate was
\* read off, and never on a superseded candidate or over a log that no longer
\* replays; nothing recorded is changed.
DecidedOnPinnedSource ==
  [][\A c \in Candidates :
       log[c] # log'[c] =>
         /\ Pinned(c)
         /\ Replay(c) \notin {"superseded", "broken"}
         /\ \A t \in Stamps : log[c][t] \subseteq log'[c][t]]_vars

\* A decision that commits while no row has a later stamp takes its candidate
\* where it leads: only a decision overtaken by another can break a log.
InOrderDecisionsCount ==
  [][\A c \in Candidates, t \in Stamps :
       /\ log[c][t] = {} /\ log'[c][t] # {}
       /\ \A u \in Stamps : u > t => log[c][u] = {}
       => \A d \in log'[c][t] : Replay(c)' = Leads[d.kind]]_vars

\* The target is written by a patch only while the candidate stands confirmed
\* and the source is at its pin; a creation finds its element absent and a
\* compensation finds it there.
WrittenOnStandingReview ==
  [][\A r \in ledger' :
       Rows(r.patch) = {} =>
         LET f == r.patch.finding IN
         /\ Replay(f.of) = "confirmed"
         /\ Pinned(f.of)
         /\ (f \in target.made) <=> r.patch.undo
         /\ target'.made = IF r.patch.undo THEN target.made \ {f} ELSE target.made \cup {f}]_vars
===============================================================================
