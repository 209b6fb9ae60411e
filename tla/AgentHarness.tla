----------------------------- MODULE AgentHarness -----------------------------
(***************************************************************************)
(* The agent harness: sessions, approvals, tool calls and the governed     *)
(* write path (runtime/harness.py, pid_domain_adapter.py, audit.py), with  *)
(* the MCP and REST tools that drive it.                                   *)
(*                                                                         *)
(* A tool call is authorized by one request and executed by the same       *)
(* request, in several store transactions; other requests run in between.  *)
(* A worker is one request, and its work record is what it holds between   *)
(* two transactions.  A worker that never moves again is a crashed one.    *)
(*                                                                         *)
(* An intent is what an approval binds by its hash: tool, drawing and      *)
(* transaction, of which only the expected revision is kept.  An optional  *)
(* value is a set of at most one element.                                  *)
(***************************************************************************)
EXTENDS Naturals

CONSTANTS
  Docs, Sessions, Approvals, Calls, Workers,
  Intents,      \* what an agent may ask for
  MaxRevision   \* bound of the model on revision numbers

\* tool_registry.py, by permission; "release" stands for a tool policy denies.
Permission == [compiled |-> "ask", semantic |-> "ask",
               layout |-> "allow", release |-> "deny"]

Tools == DOMAIN Permission

Optional(S) == {{}} \cup {{x} : x \in S}

Revisions == 0..MaxRevision

ASSUME MaxRevisionAssumption == MaxRevision \in Nat
ASSUME IntentsAssumption ==
  Intents \subseteq [tool: Tools, doc: Docs, expects: Optional(Revisions)]

VARIABLES
  revision,   \* documents.revision
  session,    \* table agent_sessions
  approval,   \* table agent_approvals
  call,       \* table agent_tool_calls
  proposal,   \* the latest synthesis proposal of a session
  chain,      \* table audit_records: the outcomes of tool calls
  work,       \* what each worker holds between two transactions
  granted     \* auxiliary: the approvals a resolver ever approved

vars == <<revision, session, approval, call, proposal, chain, work, granted>>

tables == <<revision, session, approval, call, proposal, chain>>

-------------------------------------------------------------------------------
(* Rows.                                                                   *)

Absent == [status |-> "absent"]

Session == [status: {"active", "completed", "failed"},
            doc: Docs, end: Optional(Revisions)]

Approval == [status: {"pending", "approved", "rejected", "consumed"},
             session: Sessions, intent: Intents]

Call == [status: {"running", "completed", "failed", "rejected"},
         session: Sessions, intent: Intents, approval: Optional(Approvals),
         result: Optional(Revisions)]

Event == [kind: {"applied", "failed", "refused"},
          call: Calls, rev: Optional(Revisions)]

Idle == [step |-> "idle"]

Resolving == [step: {"resolve"}, approval: Approvals, to: {"approved", "rejected"}]

Opened == [step: {"judge"}, session: Sessions, intent: Intents,
           approval: Optional(Approvals), surface: {"rest", "mcp"}]

\* pin: the revision the transaction expects; base: the revision it was staged on.
Executing == [step: {"refuse", "prepare", "apply", "save", "close", "fail",
                     "done", "complete"},
              call: Calls, surface: {"rest", "mcp"},
              pin: Optional(Revisions), base: Optional(Revisions)]

Execute(step, c, surface, pin, base) ==
  [step |-> step, call |-> c, surface |-> surface, pin |-> pin, base |-> base]

Goto(w, job) == work' = [work EXCEPT ![w] = job]

\* The same call, at its next step.
Proceed(w, step) == Goto(w, [work[w] EXCEPT !.step = step])

IntentOf(c) == call[c].intent
DocOf(c) == IntentOf(c).doc
Now(c) == revision[DocOf(c)]

\* Mutant of Expected: the expected revision is not compared.
ExpectedWhatever(pin, r) == TRUE

\* expected_revision is None, or the revision there is.
Expected(pin, r) == pin \subseteq {r}

-------------------------------------------------------------------------------
Init ==
  /\ revision = [d \in Docs |-> 0]
  /\ session = [s \in Sessions |-> Absent]
  /\ approval = [a \in Approvals |-> Absent]
  /\ call = [c \in Calls |-> Absent]
  /\ proposal = [s \in Sessions |-> "none"]
  /\ chain = {}
  /\ work = [w \in Workers |-> Idle]
  /\ granted = {}

\* A person, or another surface, commits a revision (DocumentStore).
EditElsewhere(d) ==
  /\ revision[d] < MaxRevision
  /\ revision' = [revision EXCEPT ![d] = @ + 1]
  /\ UNCHANGED <<session, approval, call, proposal, chain, work, granted>>

CreateSession(s, d) ==
  /\ session[s] = Absent
  /\ session' = [session EXCEPT ![s] = [status |-> "active", doc |-> d, end |-> {}]]
  /\ UNCHANGED <<revision, approval, call, proposal, chain, work, granted>>

\* A planning or replanning attempt: the session was active when the model was
\* asked, and nothing looks again when its answer is recorded.
RecordSynthesisProposal(s, whole) ==
  /\ session[s] # Absent
  /\ proposal' = [proposal EXCEPT ![s] = whole]
  /\ UNCHANGED <<revision, session, approval, call, chain, work, granted>>

\* ensure_session, then an insert that nothing else waits for.
RequestApproval(a, s, i) ==
  /\ approval[a] = Absent
  /\ session[s].status = "active"
  /\ session[s].doc = i.doc
  /\ approval' = [approval EXCEPT ![a] = [status |-> "pending", session |-> s, intent |-> i]]
  /\ UNCHANGED <<revision, session, call, proposal, chain, work, granted>>

-------------------------------------------------------------------------------
(* resolve_approval reads the row, and writes it by its id.                *)

ReadPending(w, a, verdict) ==
  /\ work[w] = Idle
  /\ approval[a].status = "pending"
  /\ Goto(w, [step |-> "resolve", approval |-> a, to |-> verdict])
  /\ UNCHANGED <<tables, granted>>

WriteVerdict(w) ==
  LET job == work[w] IN
  /\ job.step = "resolve"
  /\ approval' = [approval EXCEPT ![job.approval].status = job.to]
  /\ granted' = IF job.to = "approved" THEN granted \cup {job.approval} ELSE granted
  /\ Goto(w, Idle)
  /\ UNCHANGED <<revision, session, call, proposal, chain>>

-------------------------------------------------------------------------------
(* authorize.                                                              *)

\* REST applies compiled transactions; every tool has an MCP surface.
Surfaces(tool) == IF tool = "compiled" THEN {"rest", "mcp"} ELSE {"mcp"}

\* ensure_session; a session that is not active ends the request unrecorded.
Open(w, s, i, ref, surface) ==
  /\ work[w] = Idle
  /\ surface \in Surfaces(i.tool)
  /\ session[s].status = "active"
  /\ session[s].doc = i.doc
  /\ Goto(w, [step |-> "judge", session |-> s, intent |-> i,
              approval |-> ref, surface |-> surface])
  /\ UNCHANGED <<tables, granted>>

\* Mutant of Covers: the intent is not compared.
CoversAnyIntent(a, s, i) ==
  /\ approval[a] # Absent
  /\ approval[a].session = s
  /\ approval[a].status = "approved"

\* The approval is there, is for exactly this, and is approved.
Covers(a, s, i) ==
  /\ approval[a] # Absent
  /\ approval[a].session = s
  /\ approval[a].intent = i
  /\ approval[a].status = "approved"

Permitted(job) ==
  CASE Permission[job.intent.tool] = "allow" -> TRUE
    [] Permission[job.intent.tool] = "deny"  -> FALSE
    [] OTHER -> \E a \in job.approval : Covers(a, job.session, job.intent)

\* The approval an authorized call carries: none for an allowed tool.
Carried(job) ==
  IF Permission[job.intent.tool] = "ask" THEN job.approval ELSE {}

NewCall(c, status, job, ref) ==
  /\ call[c] = Absent
  /\ call' = [call EXCEPT ![c] =
       [status |-> status, session |-> job.session, intent |-> job.intent,
        approval |-> ref, result |-> {}]]

\* The row of the call is inserted on what was read of the approval; nothing
\* reads that row before this request does.
Authorize(w, c) ==
  LET job == work[w]
      first == IF job.intent.tool = "compiled" THEN "apply" ELSE "prepare" IN
  /\ job.step = "judge"
  /\ Permitted(job)
  /\ NewCall(c, "running", job, Carried(job))
  /\ Goto(w, Execute(first, c, job.surface, job.intent.expects, {}))
  /\ UNCHANGED <<revision, session, approval, proposal, chain, granted>>

\* The approval the request names is a row: the key of a call refers to it.
Named(job) == \A a \in job.approval : approval[a] # Absent

\* The refusal is a rejected call first, and an audit record next.
Deny(w, c) ==
  LET job == work[w] IN
  /\ job.step = "judge"
  /\ ~Permitted(job)
  /\ Named(job)
  /\ NewCall(c, "rejected", job, job.approval)
  /\ Goto(w, Execute("refuse", c, job.surface, {}, {}))
  /\ UNCHANGED <<revision, session, approval, proposal, chain, granted>>

\* FOREIGN KEY(approval_id): the rejected call cannot be inserted, and the
\* request ends in an IntegrityError with no record of it.
DenyUnrecorded(w) ==
  /\ work[w].step = "judge"
  /\ ~Permitted(work[w])
  /\ ~Named(work[w])
  /\ Goto(w, Idle)
  /\ UNCHANGED <<tables, granted>>

AuditDenial(w) ==
  LET job == work[w] IN
  /\ job.step = "refuse"
  /\ chain' = chain \cup {[kind |-> "refused", call |-> job.call, rev |-> {}]}
  /\ Goto(w, Idle)
  /\ UNCHANGED <<revision, session, approval, call, proposal, granted>>

-------------------------------------------------------------------------------
(* What the MCP tools do between authorization and the governed write.     *)

\* The semantic compiler and the layout engine pin the revision they read.
Prepared(w) ==
  LET job == work[w] IN
  /\ job.step = "prepare"
  /\ Expected(job.pin, Now(job.call))
  /\ Goto(w, [job EXCEPT !.step = "apply", !.pin = {Now(job.call)}])
  /\ UNCHANGED <<tables, granted>>

\* A semantic transaction that does not compile, for its revision or itself.
CompileInvalid(w) ==
  /\ work[w].step = "prepare"
  /\ IntentOf(work[w].call).tool = "semantic"
  /\ Proceed(w, "fail")
  /\ UNCHANGED <<tables, granted>>

\* preview() refuses a stale layout request, outside the try: the request
\* ends here and the call stays as it is.
LayoutConflict(w) ==
  LET job == work[w] IN
  /\ job.step = "prepare"
  /\ IntentOf(job.call).tool = "layout"
  /\ ~Expected(job.pin, Now(job.call))
  /\ Goto(w, Idle)
  /\ UNCHANGED <<tables, granted>>

\* Nothing to lay out: no transaction.
NothingToApply(w) ==
  LET job == work[w] IN
  /\ job.step = "prepare"
  /\ IntentOf(job.call).tool = "layout"
  /\ Expected(job.pin, Now(job.call))
  /\ Goto(w, [job EXCEPT !.step = "done", !.pin = {Now(job.call)}])
  /\ UNCHANGED <<tables, granted>>

\* complete_tool_call, then complete_session: two transactions.
CompleteToolCall(w) ==
  LET job == work[w] IN
  /\ job.step = "done"
  /\ call' = [call EXCEPT ![job.call].status = "completed", ![job.call].result = job.pin]
  /\ Proceed(w, "complete")
  /\ UNCHANGED <<revision, session, approval, proposal, chain, granted>>

\* assert_session_may_complete refuses while the latest proposal is partial.
CompleteSession(w) ==
  LET job == work[w]
      s == call[job.call].session IN
  /\ job.step = "complete"
  /\ session' = IF proposal[s] = "partial" THEN session
                ELSE [session EXCEPT ![s].status = "completed", ![s].end = job.pin]
  /\ Goto(w, Idle)
  /\ UNCHANGED <<revision, approval, call, proposal, chain, granted>>

-------------------------------------------------------------------------------
(* The governed write: apply_transaction under PidDomainAdapter.execute.   *)

Stage(w) ==
  LET job == work[w] IN
  /\ job.step = "apply"
  /\ Expected(job.pin, Now(job.call))
  /\ Now(job.call) < MaxRevision
  /\ Goto(w, [job EXCEPT !.step = "save", !.base = {Now(job.call)}])
  /\ UNCHANGED <<tables, granted>>

\* Mutant of StageRefused: the error leaves the adapter before the close-out.
StageRefusedUnclosed(w) ==
  /\ work[w].step = "apply"
  /\ Goto(w, Idle)
  /\ UNCHANGED <<tables, granted>>

\* RevisionConflictError, or InvalidOperationError, before anything is written.
StageRefused(w) ==
  /\ work[w].step = "apply"
  /\ Proceed(w, "close")
  /\ UNCHANGED <<tables, granted>>

\* Mutant of Save: the call is not part of the transaction.
SaveLeavingCallOpen(w) ==
  LET job == work[w]
      c == job.call
      next == {Now(c) + 1} IN
  /\ job.step = "save"
  /\ job.base = {Now(c)}
  /\ revision' = [revision EXCEPT ![DocOf(c)] = @ + 1]
  /\ chain' = chain \cup {[kind |-> "applied", call |-> c, rev |-> next]}
  /\ session' = [session EXCEPT ![call[c].session].status = "completed",
                                ![call[c].session].end = next]
  /\ Proceed(w, "fail")
  /\ UNCHANGED <<approval, call, proposal, granted>>

\* store.save with its close-out: revision, audit record, completed call,
\* consumed approval and completed session in one transaction.
Save(w) ==
  LET job == work[w]
      c == job.call
      next == {Now(c) + 1} IN
  /\ job.step = "save"
  /\ job.base = {Now(c)}
  /\ revision' = [revision EXCEPT ![DocOf(c)] = @ + 1]
  /\ chain' = chain \cup {[kind |-> "applied", call |-> c, rev |-> next]}
  /\ call' = [call EXCEPT ![c].status = "completed", ![c].result = next]
  /\ approval' = [a \in Approvals |->
       IF a \in call[c].approval
       THEN [approval[a] EXCEPT !.status = "consumed"] ELSE approval[a]]
  /\ session' = [session EXCEPT ![call[c].session].status = "completed",
                                ![call[c].session].end = next]
  /\ Goto(w, Idle)
  /\ UNCHANGED <<proposal, granted>>

SaveConflict(w) ==
  LET job == work[w] IN
  /\ job.step = "save"
  /\ job.base # {Now(job.call)}
  /\ Proceed(w, "close")
  /\ UNCHANGED <<tables, granted>>

\* Mutant of RecordFailure: the session takes the status of the audit record.
RecordFailureRejectingSession(w) ==
  LET job == work[w]
      s == call[job.call].session IN
  /\ job.step = "close"
  /\ chain' = chain \cup {[kind |-> "failed", call |-> job.call, rev |-> {}]}
  /\ call' = [call EXCEPT ![job.call].status = "failed"]
  /\ session' = [session EXCEPT ![s].status = "rejected", ![s].end = {}]
  /\ IF job.surface = "mcp" THEN Proceed(w, "fail") ELSE Goto(w, Idle)
  /\ UNCHANGED <<revision, approval, proposal, granted>>

\* record_failure: audit record, failed call and failed session, one transaction.
RecordFailure(w) ==
  LET job == work[w]
      s == call[job.call].session IN
  /\ job.step = "close"
  /\ chain' = chain \cup {[kind |-> "failed", call |-> job.call, rev |-> {}]}
  /\ call' = [call EXCEPT ![job.call].status = "failed"]
  /\ session' = [session EXCEPT ![s].status = "failed", ![s].end = {}]
  /\ IF job.surface = "mcp" THEN Proceed(w, "fail") ELSE Goto(w, Idle)
  /\ UNCHANGED <<revision, approval, proposal, granted>>

\* fail_tool_call, from the MCP tool's own handler.
FailToolCall(w) ==
  LET job == work[w] IN
  /\ job.step = "fail"
  /\ call' = [call EXCEPT ![job.call].status = "failed"]
  /\ Goto(w, Idle)
  /\ UNCHANGED <<revision, session, approval, proposal, chain, granted>>

-------------------------------------------------------------------------------
Environment ==
  \/ \E d \in Docs : EditElsewhere(d)
  \/ \E s \in Sessions, d \in Docs : CreateSession(s, d)
  \/ \E s \in Sessions, whole \in {"whole", "partial"} : RecordSynthesisProposal(s, whole)
  \/ \E a \in Approvals, s \in Sessions, i \in Intents : RequestApproval(a, s, i)

Request(w) ==
  \/ \E a \in Approvals, verdict \in {"approved", "rejected"} : ReadPending(w, a, verdict)
  \/ WriteVerdict(w)
  \/ \E s \in Sessions, i \in Intents, ref \in Optional(Approvals),
        surface \in {"rest", "mcp"} : Open(w, s, i, ref, surface)
  \/ \E c \in Calls : Authorize(w, c) \/ Deny(w, c)
  \/ DenyUnrecorded(w) \/ AuditDenial(w)
  \/ Prepared(w) \/ CompileInvalid(w) \/ LayoutConflict(w) \/ NothingToApply(w)
  \/ CompleteToolCall(w) \/ CompleteSession(w)
  \/ Stage(w) \/ StageRefused(w) \/ Save(w) \/ SaveConflict(w)
  \/ RecordFailure(w) \/ FailToolCall(w)

Next == Environment \/ \E w \in Workers : Request(w)

Spec == Init /\ [][Next]_vars

-------------------------------------------------------------------------------
(* Types.  Every table and every work record keeps its shape.              *)
TypeOK ==
  /\ revision \in [Docs -> Revisions]
  /\ session \in [Sessions -> Session \cup {Absent}]
  /\ approval \in [Approvals -> Approval \cup {Absent}]
  /\ call \in [Calls -> Call \cup {Absent}]
  /\ proposal \in [Sessions -> {"none", "whole", "partial"}]
  /\ chain \subseteq Event
  /\ work \in [Workers -> Resolving \cup Opened \cup Executing \cup {Idle}]
  /\ granted \subseteq Approvals

Applied == {e \in chain : e.kind = "applied"}

(***************************************************************************)
(* No revision without permission: a revision an agent committed was       *)
(* committed by a call of a tool that policy allows, or by one that        *)
(* carries an approval a resolver approved, for that very session, tool,   *)
(* drawing and transaction (docs, invariants 1 to 3, 6 and 9), whatever    *)
(* became of the approval since.                                           *)
(***************************************************************************)
AppliedWithExactApproval ==
  \A e \in Applied :
    LET c == call[e.call]
        permission == Permission[c.intent.tool] IN
    /\ permission # "deny"
    /\ permission = "ask" =>
         \E a \in c.approval :
           /\ a \in granted
           /\ approval[a].session = c.session
           /\ approval[a].intent = c.intent

(***************************************************************************)
(* One approval, one revision: two revisions never rest on one approval    *)
(* (docs, section 2: an approval is one-time-use; invariant 4).            *)
(***************************************************************************)
OneRevisionPerApproval ==
  \A e, f \in Applied :
    call[e.call].approval \cap call[f.call].approval # {} => e = f

(***************************************************************************)
(* What keeps it so is the expected revision inside the approved intent,   *)
(* not the status of the approval: of several requests that were           *)
(* authorized by one approval, one at most finds that revision.            *)
(***************************************************************************)
OneRevisionPerPinnedApproval ==
  \A e, f \in Applied :
    call[e.call].approval \cap call[f.call].approval # {} =>
      e = f \/ IntentOf(e.call).expects = {}

(***************************************************************************)
(* The harness tables and the audit chain tell one story: a call has at    *)
(* most one outcome in the chain, and the row of the call says the same,   *)
(* with the same revision, whichever handler wrote it last.                *)
(***************************************************************************)
RowsAgreeWithChain ==
  /\ \A e, f \in chain : e.call = f.call => e = f
  /\ \A e \in chain :
       /\ e.kind = "applied" => /\ call[e.call].status = "completed"
                                /\ call[e.call].result = e.rev
       /\ e.kind = "failed"  => call[e.call].status = "failed"
       /\ e.kind = "refused" => call[e.call].status = "rejected"

(***************************************************************************)
(* A call that is left running is one the code is still executing, but for *)
(* a layout that was previewed when its drawing was at another revision    *)
(* than it expects: that request is refused where nothing closes the call. *)
(***************************************************************************)
Held(c) == \E w \in Workers : work[w] \in Executing /\ work[w].call = c

RunningCallsAreHeld ==
  \A c \in Calls : call[c].status = "running" =>
    \/ Held(c)
    \/ /\ IntentOf(c).tool = "layout"
       /\ \E past \in 0..Now(c) : ~Expected(IntentOf(c).expects, past)

===============================================================================
