------------------------------ MODULE ChangeSet ------------------------------
(***************************************************************************)
(* Project change sets: one approved write to several documents at once    *)
(* (project_change_set.py, project_change_set_runtime.py,                  *)
(* api_change_set.py, and their transactions in store.py).                 *)
(*                                                                         *)
(* A request reads the project several times, each read a transaction,     *)
(* before the one transaction that commits or the one that closes out.     *)
(* Meanwhile documents are edited, links are made and deleted, members     *)
(* come and go, and other requests work on the same change set.            *)
(*                                                                         *)
(* Of a document only what a link may refer to is kept: whether the object *)
(* its links name is there and of the right kind (sound).  Every approval  *)
(* has a session of its own, as the router opens one for each, and is      *)
(* named by it.  An optional value is a set of at most one element.        *)
(***************************************************************************)
EXTENDS Naturals

CONSTANTS
  Docs, Links, ChangeSets, Sessions, Calls, Workers,
  Writes,           \* what a change set may declare: documents and removals
  Source, Target,   \* the cable document and the drawing a link connects
  MaxOthers         \* bound of the model on steps of the rest of the system

ASSUME MaxOthersAssumption == MaxOthers \in Nat
ASSUME WritesAssumption == Writes \subseteq [mutates: SUBSET Docs, removes: SUBSET Docs]
ASSUME LinksAssumption == Source \in [Links -> Docs] /\ Target \in [Links -> Docs]

VARIABLES
  revision,    \* documents.revision and cable_documents.revision
  sound,       \* documents whose linked object is there
  members,     \* table project_documents
  link,        \* table engineering_links
  changeSet,   \* table project_change_sets
  session,     \* agent_sessions.status
  approval,    \* table agent_approvals
  call,        \* table agent_tool_calls
  chain,       \* table audit_records: what became of a call
  deployment,  \* settings.deployment_mode
  work,        \* what each worker holds between two transactions
  granted,     \* auxiliary: approvals some resolver approved
  others       \* auxiliary: how many steps the rest of the system has taken

project == <<revision, sound, members, link>>
governance == <<changeSet, session, approval, call, chain>>
vars == <<project, governance, deployment, work, granted, others>>

Absent == [status |-> "absent"]
Idle == [step |-> "idle"]

Optional(S) == {{}} \cup {{x} : x \in S}

\* What an approval binds of the links: those affected, with their pins.
Pinned == [link: Links, source: Nat, target: Nat]

LinkRow == [status: {"active", "deleted"}, source: Nat, target: Nat]
ApprovalRow == [status: {"pending", "approved", "rejected", "consumed"},
                of: ChangeSets, impact: SUBSET Pinned]
CallRow == [status: {"running", "completed", "failed", "rejected"},
            session: Sessions, of: ChangeSets, impact: SUBSET Pinned]

\* pins is a function on the members that the change set declares.
RowOver(declared) ==
  [status: {"staged", "approved", "applied", "refused"}, pins: [declared -> Nat],
   mutates: SUBSET declared, removes: SUBSET declared]

Event == [kind: {"applied", "failed", "refused"}, call: Calls]

Job ==
  [flow: {"ask", "apply"}, of: ChangeSets,
   phase: {"ask", "authorize", "execute"},
   step: {"mark", "session", "check", "read", "resolve", "verdict", "judge",
          "refuse", "execute", "commit", "close"},
   session: Optional(Sessions), call: Optional(Calls), impact: SUBSET Pinned]

Resolving == [flow: {"resolve"}, step: {"verdict"}, session: Optional(Sessions),
              verdict: {"approved", "rejected"}]

Init ==
  /\ revision = [d \in Docs |-> 0]
  /\ sound = Docs
  /\ members = Docs
  /\ link \in [Links -> {Absent, [status |-> "active", source |-> 0, target |-> 0]}]
  /\ changeSet = [x \in ChangeSets |-> Absent]
  /\ session = [s \in Sessions |-> "absent"]
  /\ approval = [s \in Sessions |-> Absent]
  /\ call = [c \in Calls |-> Absent]
  /\ chain = {}
  /\ deployment \in {"local", "shared"}
  /\ work = [w \in Workers |-> Idle]
  /\ granted = {}
  /\ others = 0

Goto(w, job) == work' = [work EXCEPT ![w] = job]

Proceed(w, step) == Goto(w, [work[w] EXCEPT !.step = step])

-------------------------------------------------------------------------------
(* The rest of the system, each a transaction that commits or has no effect. *)

\* An edit of a drawing or of a cable document, which may add or remove the
\* object that links refer to.
EditDocument(d, kept) ==
  /\ revision' = [revision EXCEPT ![d] = @ + 1]
  /\ sound' = IF kept THEN sound \cup {d} ELSE sound \ {d}
  /\ UNCHANGED <<members, link, governance, deployment, work, granted>>

RemoveMember(d) ==
  /\ d \in members
  /\ members' = members \ {d}
  /\ UNCHANGED <<revision, sound, link, governance, deployment, work, granted>>

AddMember(d) ==
  /\ d \notin members
  /\ members' = members \cup {d}
  /\ UNCHANGED <<revision, sound, link, governance, deployment, work, granted>>

Ends(l) == {Source[l], Target[l]}

\* _link_endpoint_facts, on the write connection.
EndpointsHold(l) == Ends(l) \subseteq members \cap sound

Linked(l) == link[l].status = "active"

PinLink(l) ==
  /\ EndpointsHold(l)
  /\ link' = [link EXCEPT ![l] = [status |-> "active", source |-> revision[Source[l]],
                                  target |-> revision[Target[l]]]]
  /\ UNCHANGED <<revision, sound, members, governance, deployment, work, granted>>

CreateLink(l) == link[l] = Absent /\ PinLink(l)

RepinLink(l) == Linked(l) /\ PinLink(l)

DeleteLink(l) ==
  /\ Linked(l)
  /\ link' = [link EXCEPT ![l].status = "deleted"]
  /\ UNCHANGED <<revision, sound, members, governance, deployment, work, granted>>

-------------------------------------------------------------------------------
(* Impact analysis, on the rows as they are when it reads them.            *)

\* validate_declared_pins: the members, and each at its pin.
PinsCurrent(row) ==
  /\ members = DOMAIN row.pins
  /\ \A d \in members : revision[d] = row.pins[d]

Affected(row) == {l \in Links : Linked(l) /\ Ends(l) \cap row.mutates # {}}

Impact(row) ==
  {[link |-> l, source |-> link[l].source, target |-> link[l].target] : l \in Affected(row)}

\* A linked element the change set deletes, or a linked segment it leaves out.
Invalidated(row, l) ==
  \/ Target[l] \in row.removes
  \/ Source[l] \in row.removes \cap sound

\* Repins are derived for members only: an affected link that leaves the
\* project has no pin to derive one from.
Analysable(row) ==
  \A l \in Affected(row) : ~Invalidated(row, l) /\ Ends(l) \subseteq DOMAIN row.pins

\* The revision a document has once the change set is applied.
Result(row, d) == IF d \in row.mutates THEN row.pins[d] + 1 ELSE row.pins[d]

-------------------------------------------------------------------------------
(* The routes.                                                             *)

\* stage_change_set: declared pins must be the current ones, and a preview of
\* the writes is computed, so what is removed is there.
StageChangeSet(x, write) ==
  LET row == [status |-> "staged", pins |-> [d \in members |-> revision[d]],
              mutates |-> write.mutates, removes |-> write.removes] IN
  /\ changeSet[x] = Absent
  /\ write.mutates # {} /\ write.mutates \subseteq members
  /\ write.removes \subseteq write.mutates \cap sound
  /\ Analysable(row)
  /\ changeSet' = [changeSet EXCEPT ![x] = row]
  /\ UNCHANGED <<project, session, approval, call, chain, deployment, work, granted, others>>

NewJob(flow, x, phase, step, s) ==
  [flow |-> flow, of |-> x, phase |-> phase, step |-> step,
   session |-> s, call |-> {}, impact |-> {}]

\* Both routes read the row first, and turn away one that is not staged.
RequestApproval(w, x) ==
  /\ work[w] = Idle
  /\ changeSet[x].status = "staged"
  /\ Goto(w, NewJob("ask", x, "ask", "session", {}))
  /\ UNCHANGED <<project, governance, deployment, granted, others>>

ApplyLocally(w, x) ==
  /\ deployment = "local"
  /\ work[w] = Idle
  /\ changeSet[x].status = "staged"
  /\ Goto(w, NewJob("apply", x, "ask", "mark", {}))
  /\ UNCHANGED <<project, governance, deployment, granted, others>>

\* A shared deployment applies on an approval that the caller names.
ApplyOnApproval(w, x, s) ==
  /\ deployment = "shared"
  /\ work[w] = Idle
  /\ changeSet[x].status = "staged"
  /\ approval[s] # Absent
  /\ Goto(w, NewJob("apply", x, "authorize", "check", {s}))
  /\ UNCHANGED <<project, governance, deployment, granted, others>>

\* The transition of update_change_set_status, without effect on another status.
Moved(x, from, to) ==
  IF changeSet[x].status = from THEN [changeSet EXCEPT ![x].status = to] ELSE changeSet

\* The local operator's decision; that it was another's is not looked at.
MarkLocally(w) ==
  LET job == work[w] IN
  /\ job.step = "mark" /\ deployment = "local"
  /\ changeSet' = Moved(job.of, "staged", "approved")
  /\ Proceed(w, "session")
  /\ UNCHANGED <<project, session, approval, call, chain, deployment, granted, others>>

MarkShared(w) ==
  LET job == work[w] IN
  /\ job.step = "mark" /\ deployment = "shared"
  /\ changeSet[job.of].status = "staged"
  /\ changeSet' = Moved(job.of, "staged", "approved")
  /\ Proceed(w, "execute")
  /\ UNCHANGED <<project, session, approval, call, chain, deployment, granted, others>>

\* The error for a lost race is built with the wrong arguments: a TypeError
\* ends the request, and nothing closes the call it authorized.
MarkLost(w) ==
  LET job == work[w] IN
  /\ job.step = "mark" /\ deployment = "shared"
  /\ changeSet[job.of].status # "staged"
  /\ Goto(w, Idle)
  /\ UNCHANGED <<project, governance, deployment, granted, others>>

\* ensure_session without a session: a new one.
OpenSession(w, s) ==
  LET job == work[w] IN
  /\ job.step = "session"
  /\ session[s] = "absent"
  /\ session' = [session EXCEPT ![s] = "active"]
  /\ Goto(w, [job EXCEPT !.step = "check", !.session = {s}])
  /\ UNCHANGED <<project, changeSet, approval, call, chain, deployment, granted, others>>

-------------------------------------------------------------------------------
(* canonicalize_intent, for the approval, for the authorization and again  *)
(* for the execution: first the pins are compared, then the links read.    *)

RowOf(job) == changeSet[job.of]

\* ensure_session, before an approval is made or an authorization judged.
SessionUsable(job) == job.phase # "execute" => \A s \in job.session : session[s] = "active"

CheckPins(w) ==
  /\ work[w].step = "check"
  /\ SessionUsable(work[w])
  /\ PinsCurrent(RowOf(work[w]))
  /\ Proceed(w, "read")
  /\ UNCHANGED <<project, governance, deployment, granted, others>>

\* The approval is asked for what the links were when they were read.
CreateApproval(w) ==
  LET job == work[w] IN
  /\ job.step = "read" /\ job.phase = "ask"
  /\ Analysable(RowOf(job))
  /\ approval' = [s \in Sessions |->
       IF s \in job.session
       THEN [status |-> "pending", of |-> job.of, impact |-> Impact(RowOf(job))]
       ELSE approval[s]]
  /\ IF job.flow = "apply" THEN Proceed(w, "resolve") ELSE Goto(w, Idle)
  /\ UNCHANGED <<project, changeSet, session, call, chain, deployment, granted, others>>

ReadLinks(w) ==
  LET job == work[w] IN
  /\ job.step = "read" /\ job.phase = "authorize"
  /\ Analysable(RowOf(job))
  /\ Goto(w, [job EXCEPT !.step = "judge", !.impact = Impact(RowOf(job))])
  /\ UNCHANGED <<project, governance, deployment, granted, others>>

\* The intent hash of the call is recomputed on what is read now.
Recompute(w) ==
  LET job == work[w] IN
  /\ job.step = "read" /\ job.phase = "execute"
  /\ Analysable(RowOf(job))
  /\ Impact(RowOf(job)) = job.impact
  /\ Proceed(w, "commit")
  /\ UNCHANGED <<project, governance, deployment, granted, others>>

AnalysisFails(job) ==
  \/ job.step = "check" /\ (~SessionUsable(job) \/ ~PinsCurrent(RowOf(job)))
  \/ job.step = "read" /\ ~Analysable(RowOf(job))
  \/ job.step = "read" /\ job.phase = "execute" /\ Impact(RowOf(job)) # job.impact

\* Before the call is authorized there is nothing to close out.  A row that
\* was marked, and a session that was opened, stay as they are.
GiveUp(w) ==
  /\ work[w] \in Job
  /\ work[w].phase # "execute"
  /\ AnalysisFails(work[w])
  /\ Goto(w, Idle)
  /\ UNCHANGED <<project, governance, deployment, granted, others>>

\* Mutant of ExecutionFails: the analysis is outside the try.
ExecutionFailsUnclosed(w) ==
  /\ work[w] \in Job
  /\ work[w].phase = "execute"
  /\ AnalysisFails(work[w])
  /\ Goto(w, Idle)
  /\ UNCHANGED <<project, governance, deployment, granted, others>>

ExecutionFails(w) ==
  /\ work[w] \in Job
  /\ work[w].phase = "execute"
  /\ AnalysisFails(work[w])
  /\ Proceed(w, "close")
  /\ UNCHANGED <<project, governance, deployment, granted, others>>

-------------------------------------------------------------------------------
(* resolve_approval: the status is read in one transaction and written in  *)
(* another, by a human or by the local route itself.                       *)

ReadPending(w, s, verdict) ==
  /\ work[w] = Idle
  /\ approval[s].status = "pending"
  /\ Goto(w, [flow |-> "resolve", step |-> "verdict", session |-> {s}, verdict |-> verdict])
  /\ UNCHANGED <<project, governance, deployment, granted, others>>

ReadOwnPending(w) ==
  LET job == work[w] IN
  /\ job.step = "resolve"
  /\ \A s \in job.session : approval[s].status = "pending"
  /\ Proceed(w, "verdict")
  /\ UNCHANGED <<project, governance, deployment, granted, others>>

\* Somebody else resolved it: a HarnessError, and the row stays marked.
OwnAlreadyResolved(w) ==
  LET job == work[w] IN
  /\ job.step = "resolve"
  /\ \E s \in job.session : approval[s].status # "pending"
  /\ Goto(w, Idle)
  /\ UNCHANGED <<project, governance, deployment, granted, others>>

VerdictOf(job) == IF job.flow = "resolve" THEN job.verdict ELSE "approved"

WriteVerdict(w) ==
  LET job == work[w] IN
  /\ job.step = "verdict"
  /\ approval' = [s \in Sessions |->
       IF s \in job.session
       THEN [approval[s] EXCEPT !.status = VerdictOf(job)] ELSE approval[s]]
  /\ granted' = IF VerdictOf(job) = "approved" THEN granted \cup job.session ELSE granted
  /\ Goto(w, IF job.flow = "resolve" THEN Idle
             ELSE [job EXCEPT !.phase = "authorize", !.step = "check"])
  /\ UNCHANGED <<project, changeSet, session, call, chain, deployment, others>>

-------------------------------------------------------------------------------
(* authorize: the approval is compared with what was read of the project.  *)

\* Mutant of Covers: the approval is for the change set, whatever its links.
CoversAnyImpact(a, job) ==
  /\ a.status = "approved"
  /\ a.of = job.of

Covers(a, job) ==
  /\ a.status = "approved"
  /\ a.of = job.of
  /\ a.impact = job.impact

Covered(job) == \A s \in job.session : Covers(approval[s], job)

NewCall(c, status, job) ==
  /\ call[c] = Absent
  /\ call' = [call EXCEPT ![c] =
       [status |-> status, session |-> CHOOSE s \in Sessions : job.session = {s},
        of |-> job.of, impact |-> job.impact]]

Authorize(w, c) ==
  LET job == work[w] IN
  /\ job.step = "judge"
  /\ Covered(job)
  /\ NewCall(c, "running", job)
  /\ Goto(w, [job EXCEPT !.phase = "execute", !.call = {c},
                         !.step = IF deployment = "shared" THEN "mark" ELSE "execute"])
  /\ UNCHANGED <<project, changeSet, session, approval, chain, deployment, granted, others>>

\* The refusal is a rejected call first, and an audit record next.
Deny(w, c) ==
  LET job == work[w] IN
  /\ job.step = "judge"
  /\ ~Covered(job)
  /\ NewCall(c, "rejected", job)
  /\ Goto(w, [job EXCEPT !.call = {c}, !.step = "refuse"])
  /\ UNCHANGED <<project, changeSet, session, approval, chain, deployment, granted, others>>

Told(job, kind) == chain \cup {[kind |-> kind, call |-> c] : c \in job.call}

AuditDenial(w) ==
  LET job == work[w] IN
  /\ job.step = "refuse"
  /\ chain' = Told(job, "refused")
  /\ Goto(w, Idle)
  /\ UNCHANGED <<project, changeSet, session, approval, call, deployment, granted, others>>

-------------------------------------------------------------------------------
(* apply_authorized and the two transactions it ends in.                   *)

\* An approved row is required, though it authorizes nothing.  The call is this
\* request's own and runs, so the guard against replays lets it pass.
Execute(w) ==
  LET job == work[w] IN
  /\ job.step = "execute"
  /\ Proceed(w, IF RowOf(job).status = "approved" THEN "check" ELSE "close")
  /\ UNCHANGED <<project, governance, deployment, granted, others>>

\* The endpoint facts of the links to repin, with the new drawings in place.
LinksHold(job) ==
  \A p \in job.impact : /\ Linked(p.link)
                         /\ Ends(p.link) \subseteq members \cap (sound \ RowOf(job).removes)

\* Mutants of Committable: the pins of the members that are not written are not
\* compared; the row is not.
CommittableAtWrites(job) ==
  LET row == RowOf(job) IN
  /\ \A d \in row.mutates : revision[d] = row.pins[d]
  /\ \A s \in job.session : approval[s].status = "approved"
  /\ LinksHold(job)
  /\ row.status = "approved"

CommittableAnyRow(job) ==
  /\ PinsCurrent(RowOf(job))
  /\ \A s \in job.session : approval[s].status = "approved"
  /\ LinksHold(job)

\* What commit_project_change_set finds on the write connection: the pins, the
\* approval, the links as they are with the new drawings, the row.
Committable(job) ==
  LET row == RowOf(job) IN
  /\ PinsCurrent(row)
  /\ \A s \in job.session : approval[s].status = "approved"
  /\ LinksHold(job)
  /\ row.status = "approved"

\* Mutant of Repinned: pinned to the revisions the change set started from.
RepinnedToBase(row, p) ==
  [status |-> "active", source |-> row.pins[Source[p.link]],
   target |-> row.pins[Target[p.link]]]

Repinned(row, p) ==
  [status |-> "active", source |-> Result(row, Source[p.link]),
   target |-> Result(row, Target[p.link])]

Closed(job, status) ==
  [c \in Calls |-> IF c \in job.call THEN [call[c] EXCEPT !.status = status] ELSE call[c]]

Commit(w) ==
  LET job == work[w]
      row == RowOf(job) IN
  /\ job.step = "commit"
  /\ Committable(job)
  /\ revision' = [d \in Docs |->
       IF d \in row.mutates THEN Result(row, d) ELSE revision[d]]
  /\ sound' = sound \ row.removes
  /\ link' = [l \in Links |->
       IF \E p \in job.impact : p.link = l
       THEN Repinned(row, CHOOSE p \in job.impact : p.link = l) ELSE link[l]]
  /\ chain' = Told(job, "applied")
  /\ changeSet' = Moved(job.of, "approved", "applied")
  /\ call' = Closed(job, "completed")
  /\ approval' = [s \in Sessions |->
       IF s \in job.session THEN [approval[s] EXCEPT !.status = "consumed"] ELSE approval[s]]
  /\ session' = [s \in Sessions |-> IF s \in job.session THEN "completed" ELSE session[s]]
  /\ Goto(w, Idle)
  /\ UNCHANGED <<members, deployment, granted, others>>

CommitRefused(w) ==
  /\ work[w].step = "commit"
  /\ ~Committable(work[w])
  /\ Proceed(w, "close")
  /\ UNCHANGED <<project, governance, deployment, granted, others>>

\* Mutant of CloseOut: the call is refused like the change set.
CloseOutRefusingCall(w) ==
  LET job == work[w] IN
  /\ job.step = "close"
  /\ changeSet' = Moved(job.of, "approved", "refused")
  /\ call' = Closed(job, "refused")
  /\ chain' = Told(job, "failed")
  /\ Goto(w, Idle)
  /\ UNCHANGED <<project, session, approval, deployment, granted, others>>

\* change_set_failure_closeout: only a session that is "running" is failed.
CloseOut(w) ==
  LET job == work[w] IN
  /\ job.step = "close"
  /\ changeSet' = Moved(job.of, "approved", "refused")
  /\ call' = Closed(job, "failed")
  /\ session' = [s \in Sessions |->
       IF s \in job.session /\ session[s] = "running" THEN "failed" ELSE session[s]]
  /\ chain' = Told(job, "failed")
  /\ Goto(w, Idle)
  /\ UNCHANGED <<project, approval, deployment, granted, others>>

-------------------------------------------------------------------------------
Rest ==
  \/ \E d \in Docs, kept \in BOOLEAN : EditDocument(d, kept)
  \/ \E d \in Docs : RemoveMember(d) \/ AddMember(d)
  \/ \E l \in Links : CreateLink(l) \/ RepinLink(l) \/ DeleteLink(l)

Environment == others < MaxOthers /\ Rest /\ others' = others + 1

Request(w) ==
  \/ \E x \in ChangeSets : RequestApproval(w, x) \/ ApplyLocally(w, x)
  \/ \E x \in ChangeSets, s \in Sessions : ApplyOnApproval(w, x, s)
  \/ MarkLocally(w) \/ MarkShared(w) \/ MarkLost(w)
  \/ \E s \in Sessions : OpenSession(w, s)
  \/ CheckPins(w) \/ CreateApproval(w) \/ ReadLinks(w) \/ Recompute(w)
  \/ GiveUp(w) \/ ExecutionFails(w)
  \/ \E s \in Sessions, verdict \in {"approved", "rejected"} : ReadPending(w, s, verdict)
  \/ ReadOwnPending(w) \/ OwnAlreadyResolved(w) \/ WriteVerdict(w)
  \/ \E c \in Calls : Authorize(w, c) \/ Deny(w, c)
  \/ AuditDenial(w)
  \/ Execute(w) \/ Commit(w) \/ CommitRefused(w) \/ CloseOut(w)

Next ==
  \/ Environment
  \/ \E x \in ChangeSets : \E write \in Writes : StageChangeSet(x, write)
  \/ \E w \in Workers : Request(w)

Spec == Init /\ [][Next]_vars

-------------------------------------------------------------------------------
(* Types.  Every table and every work record keeps its shape.              *)
TypeOK ==
  /\ revision \in [Docs -> Nat]
  /\ sound \subseteq Docs
  /\ members \subseteq Docs
  /\ link \in [Links -> LinkRow \cup {Absent}]
  /\ DOMAIN changeSet = ChangeSets
  /\ \A x \in ChangeSets :
       changeSet[x] = Absent \/ \E declared \in SUBSET Docs : changeSet[x] \in RowOver(declared)
  /\ session \in [Sessions -> {"absent", "active", "completed", "failed"}]
  /\ approval \in [Sessions -> ApprovalRow \cup {Absent}]
  /\ call \in [Calls -> CallRow \cup {Absent}]
  /\ chain \subseteq Event
  /\ deployment \in {"local", "shared"}
  /\ work \in [Workers -> Job \cup Resolving \cup {Idle}]
  /\ granted \subseteq Sessions
  /\ others \in 0..MaxOthers

CallsOn(x) == {c \in Calls : call[c] # Absent /\ call[c].of = x}

Applied == {e \in chain : e.kind = "applied"}

(***************************************************************************)
(* An approved row is never an authorization (C4): what was applied was    *)
(* applied by a call whose approval a resolver once approved, for this     *)
(* very change set and for these very links at these very pins, though     *)
(* the requests of several operators share the row and each other's mark.  *)
(***************************************************************************)
AppliedAsApproved ==
  \A e \in Applied :
    LET c == call[e.call] IN
    /\ c.session \in granted
    /\ approval[c.session].of = c.of
    /\ approval[c.session].impact = c.impact

(***************************************************************************)
(* One story: a call has one outcome in the chain, which its row repeats;  *)
(* a change set is applied exactly if one call applied it, never two, and  *)
(* refused only with a failed call to show for it.                         *)
(***************************************************************************)
RowsAgreeWithChain ==
  /\ \A e, f \in chain : e.call = f.call => e = f
  /\ \A e \in chain :
       call[e.call].status = CASE e.kind = "applied" -> "completed"
                               [] e.kind = "failed"  -> "failed"
                               [] e.kind = "refused" -> "rejected"
  /\ \A e, f \in Applied : call[e.call].of = call[f.call].of => e = f
  /\ \A x \in ChangeSets :
       /\ changeSet[x].status = "applied" <=> \E e \in Applied : call[e.call].of = x
       /\ changeSet[x].status = "refused" =>
            \E c \in CallsOn(x) : call[c].status = "failed"

(***************************************************************************)
(* A call is left running by nobody but a request of a shared deployment   *)
(* that lost the race for the row: another call on the same change set     *)
(* won it (the request ends in a TypeError, api_change_set.py:358).        *)
(***************************************************************************)
Held(c) == \E w \in Workers : work[w] \in Job /\ work[w].call = {c}

RunningCallsAreHeld ==
  \A c \in Calls : call[c].status = "running" =>
    \/ Held(c)
    \/ /\ deployment = "shared"
       /\ \E won \in CallsOn(call[c].of) \ {c} : call[won].status # "rejected"

(***************************************************************************)
(* In a shared deployment an approved row is in somebody's hands, who will *)
(* apply or refuse it.  (In a local one the row is marked before it is     *)
(* known whether an approval can be had, and may stay approved for good.)  *)
(***************************************************************************)
SharedRowsAreHeld ==
  deployment = "shared" =>
    \A x \in ChangeSets : changeSet[x].status = "approved" =>
      \E c \in CallsOn(x) : call[c].status = "running" /\ Held(c)

(***************************************************************************)
(* All documents of a change set move together, once, from the pins every  *)
(* member was declared at, or none ever does: requests, their reads and    *)
(* their two closing transactions implement ProjectChange.                 *)
(***************************************************************************)
Promised(x) ==
  IF changeSet[x] = Absent THEN [state |-> "none"]
  ELSE [state |-> IF changeSet[x].status \in {"staged", "approved"} THEN "open"
                  ELSE changeSet[x].status,
        pins |-> changeSet[x].pins, mutates |-> changeSet[x].mutates]

Abstract == INSTANCE ProjectChange WITH
  change <- [x \in ChangeSets |-> Promised(x)]

AllOrNothing == Abstract!Spec

Finishing(x) == changeSet[x].status # "applied" /\ changeSet'[x].status = "applied"

(***************************************************************************)
(* The links a change set was approved for come out of it whole: active,   *)
(* both objects there, both pins at the revisions the step leaves behind.  *)
(***************************************************************************)
ApprovedLinksFollow ==
  [][\A c \in Calls : call'[c].status = "completed" /\ call[c].status # "completed" =>
       \A p \in call[c].impact :
         /\ link'[p.link] = [status |-> "active", source |-> revision'[Source[p.link]],
                             target |-> revision'[Target[p.link]]]
         /\ Ends(p.link) \subseteq sound']_vars

(***************************************************************************)
(* "linked-object invalidation is fail-closed: never commit a bad          *)
(* reference" (project_change_set.py:331): no active link refers to an     *)
(* object that the change set being applied removes.                       *)
(***************************************************************************)
NeverABadReference ==
  [][\A x \in ChangeSets : Finishing(x) =>
       \A l \in Links : Linked(l) => Ends(l) \cap changeSet[x].removes = {}]_vars

===============================================================================
