------------------------- MODULE SemanticApplyProofs --------------------------
(***************************************************************************)
(* Proofs about SemanticApply, for any candidates, source versions and     *)
(* requests at a time, and any bounds on decisions and calls.              *)
(***************************************************************************)
EXTENDS SemanticApply, TLAPS, WellFoundedInduction

-------------------------------------------------------------------------------
(* Types.                                                                  *)

ReviewSteps == {"compare", "build", "commit"}
WriteSteps == {"stage", "restage", "write", "close"}

\* The step of a request tells what it holds.
LEMMA Jobs ==
  ASSUME TypeOK, NEW w \in Workers
  PROVE  /\ work[w].step = "idle" <=> work[w] = Idle
         /\ work[w].step = "file" <=> work[w] \in Filing
         /\ work[w].step \in ReviewSteps <=> work[w] \in Deciding
         /\ work[w].step \in WriteSteps <=> work[w] \in Writing
         /\ work[w] \in {Idle} \cup Filing \cup Deciding \cup Writing
BY DEF TypeOK, Idle, Filing, Deciding, Writing, ReviewSteps, WriteSteps

LEMMA TransitionsLeaveStatuses ==
  ASSUME NEW x, NEW y, <<x, y>> \in Transitions
  PROVE  x \in Statuses \ {"superseded"} /\ x # "broken"
BY DEF Transitions, Statuses

LEMMA LogRows ==
  ASSUME TypeOK, NEW c \in Candidates, NEW t \in Stamps, NEW d \in log[c][t]
  PROVE  d \in Decision /\ log[c][t] = {d}
BY DEF TypeOK, Optional

LEMMA ReviewedBaselines ==
  ASSUME TypeOK, NEW c \in Candidates, NEW b \in Reviewed(c)
  PROVE  b \in Baseline
<1>1. PICK t \in Stamps : b \in UNION {d.base : d \in log[c][t]}
  BY DEF Reviewed
<1>2. PICK d \in log[c][t] : b \in d.base
  BY <1>1
<1>3. d \in Decision
  BY LogRows
<1> QED
  BY <1>2, <1>3 DEF Decision, Optional

\* A step that only moves one request, to something it may hold.
LEMMA WorkTyped ==
  ASSUME TypeOK, NEW w \in Workers, NEW job, Goto(w, job),
         job \in {Idle} \cup Filing \cup Deciding \cup Writing
  PROVE  work' \in [Workers -> {Idle} \cup Filing \cup Deciding \cup Writing]
BY DEF TypeOK, Goto

LEMMA OutdatedTyped ==
  ASSUME TypeOK
  PROVE  Outdated \in [Workers -> {Idle} \cup Filing \cup Deciding \cup Writing]
<1>1. \A w \in Workers : work[w] \in Writing => [work[w] EXCEPT !.current = FALSE] \in Writing
  BY DEF Writing
<1> QED
  BY <1>1 DEF Outdated, TypeOK

LEMMA InitTyped == Init => TypeOK
BY BoundsAssumption DEF Init, TypeOK, Target, Optional, Stamps, Calls, Approval, Call, Idle

LEMMA ReviewTyped ==
  ASSUME TypeOK, NEW w \in Workers, Review(w)
  PROVE  TypeOK'
<1>1. ASSUME NEW kind \in {"class", "tag"}, ReadSource(w, kind) PROVE TypeOK'
  <2>1. [step |-> "file", kind |-> kind, pin |-> source] \in Filing
    BY <1>1 DEF ReadSource, Filing
  <2>2. work' \in [Workers -> {Idle} \cup Filing \cup Deciding \cup Writing]
    BY <1>1, <2>1, WorkTyped DEF ReadSource
  <2> QED
    BY <1>1, <2>2 DEF ReadSource, TypeOK, review, harness
<1>2. ASSUME NEW c \in Candidates, FileCandidate(w, c) PROVE TypeOK'
  <2>1. work[w] \in Filing
    BY <1>2, Jobs DEF FileCandidate
  <2>2. {Derived(work[w])} \in Optional(Candidate)
    BY <2>1 DEF Filing, Derived, Candidate, Optional
  <2>3. work' \in [Workers -> {Idle} \cup Filing \cup Deciding \cup Writing]
    BY <1>2, WorkTyped DEF FileCandidate
  <2> QED
    BY <1>2, <2>2, <2>3 DEF FileCandidate, TypeOK, harness
<1>3. ASSUME NEW c \in Candidates, NEW kind \in Kinds, ReadForDecision(w, c, kind) PROVE TypeOK'
  <2>1. BaselineOf(c) \in Baseline
    BY DEF BaselineOf, Baseline
  <2>2. [step |-> IF kind = "recheck" THEN "compare" ELSE "build",
         on |-> c, kind |-> kind,
         base |-> IF kind \in {"confirm", "resolve"} THEN {BaselineOf(c)} ELSE {},
         now |-> IF kind = "recheck" THEN {BaselineOf(c)} ELSE {},
         from |-> {}, at |-> {}] \in Deciding
    BY <2>1 DEF Deciding, Optional
  <2>3. work' \in [Workers -> {Idle} \cup Filing \cup Deciding \cup Writing]
    BY <1>3, <2>2, WorkTyped DEF ReadForDecision
  <2> QED
    BY <1>3, <2>3 DEF ReadForDecision, TypeOK, review, harness
<1>4. ASSUME CompareBaseline(w) PROVE TypeOK'
  <2>1. work[w] \in Deciding
    BY <1>4, Jobs DEF CompareBaseline, ReviewSteps
  <2>2. PICK b \in Reviewed(work[w].on) :
          Goto(w, [work[w] EXCEPT !.step = "build", !.base = {b}, !.now = {}])
    BY <1>4 DEF CompareBaseline
  <2>3. b \in Baseline
    BY <2>1, ReviewedBaselines DEF Deciding
  <2>4. [work[w] EXCEPT !.step = "build", !.base = {b}, !.now = {}] \in Deciding
    BY <2>1, <2>3 DEF Deciding, Optional
  <2>5. work' \in [Workers -> {Idle} \cup Filing \cup Deciding \cup Writing]
    BY <2>2, <2>4, WorkTyped
  <2> QED
    BY <1>4, <2>5 DEF CompareBaseline, TypeOK, review, harness
<1>5. ASSUME BuildDecision(w) PROVE TypeOK'
  <2>1. work[w] \in Deciding
    BY <1>5, Jobs DEF BuildDecision, ReviewSteps
  <2>2. Replay(work[w].on) \in Statuses /\ clock + 1 \in Stamps /\ clock' \in 0..MaxStamp
    BY <1>5, TransitionsLeaveStatuses, BoundsAssumption
    DEF BuildDecision, Statuses, Stamps, TypeOK
  <2>3. [work[w] EXCEPT !.step = "commit", !.from = {Replay(work[w].on)}, !.at = {clock + 1}]
           \in Deciding
    BY <2>1, <2>2 DEF Deciding, Optional
  <2>4. work' \in [Workers -> {Idle} \cup Filing \cup Deciding \cup Writing]
    BY <1>5, <2>3, WorkTyped DEF BuildDecision
  <2> QED
    BY <1>5, <2>2, <2>4 DEF BuildDecision, TypeOK, review, harness
<1>6. ASSUME NEW from, from \in work[w].from, work[w].step = "commit"
      PROVE  work[w] \in Deciding /\ {RowOf(work[w], from)} \in Optional(Decision)
  <2>1. work[w] \in Deciding
    BY <1>6, Jobs DEF ReviewSteps
  <2>2. RowOf(work[w], from) \in Decision
    BY <1>6, <2>1 DEF Deciding, RowOf, Decision, Optional
  <2> QED
    BY <2>1, <2>2 DEF Optional
<1>7. ASSUME CommitDecision(w) PROVE TypeOK'
  <2>1. PICK from \in work[w].from, at \in work[w].at :
          log' = [log EXCEPT ![work[w].on][at] = {RowOf(work[w], from)}]
    BY <1>7 DEF CommitDecision
  <2>2. work[w] \in Deciding /\ {RowOf(work[w], from)} \in Optional(Decision)
    BY <1>6, <1>7 DEF CommitDecision
  <2>3. log' \in [Candidates -> [Stamps -> Optional(Decision)]]
    BY <2>1, <2>2 DEF TypeOK
  <2>4. work' \in [Workers -> {Idle} \cup Filing \cup Deciding \cup Writing]
    BY <1>7, WorkTyped DEF CommitDecision
  <2> QED
    BY <1>7, <2>3, <2>4 DEF CommitDecision, TypeOK, harness
<1>8. ASSUME CommitReassignment(w) PROVE TypeOK'
  <2>1. PICK from \in work[w].from, at \in work[w].at :
          /\ log' = [log EXCEPT ![work[w].on][at] = {RowOf(work[w], from)}]
          /\ corrected' = [corrected EXCEPT ![work[w].on] = @ \cup {at}]
    BY <1>8 DEF CommitReassignment
  <2>2. work[w] \in Deciding /\ {RowOf(work[w], from)} \in Optional(Decision)
    BY <1>6, <1>8 DEF CommitReassignment
  <2>3. at \in Stamps
    BY <2>2 DEF Deciding, Optional
  <2>4. log' \in [Candidates -> [Stamps -> Optional(Decision)]]
    BY <2>1, <2>2 DEF TypeOK
  <2>5. corrected' \in [Candidates -> SUBSET Stamps]
    BY <2>1, <2>2, <2>3 DEF TypeOK
  <2>6. work' \in [Workers -> {Idle} \cup Filing \cup Deciding \cup Writing]
    BY <1>8, WorkTyped DEF CommitReassignment
  <2> QED
    BY <1>8, <2>4, <2>5, <2>6 DEF CommitReassignment, TypeOK, harness
<1>9. ASSUME Abandon(w) PROVE TypeOK'
  <2>1. work' \in [Workers -> {Idle} \cup Filing \cup Deciding \cup Writing]
    BY <1>9, WorkTyped DEF Abandon
  <2> QED
    BY <1>9, <2>1 DEF Abandon, TypeOK, review, harness
<1> QED
  BY <1>1, <1>2, <1>3, <1>4, <1>5, <1>7, <1>8, <1>9 DEF Review

LEMMA CompletedTyped ==
  ASSUME TypeOK, NEW k \in Calls, Completed(k)
  PROVE  /\ call' \in [Calls -> Call]
         /\ approval' \in [Stamps -> Approval]
         /\ lost' \subseteq Calls
<1>1. \A x \in Call : [x EXCEPT !.status = "completed"] \in Call
  BY DEF Call
<1>2. \A x \in Approval : [x EXCEPT !.status = "consumed", !.session = "completed"] \in Approval
  BY DEF Approval
<1> QED
  BY <1>1, <1>2 DEF Completed, TypeOK

LEMMA WriteTyped ==
  ASSUME TypeOK, NEW w \in Workers, Write(w)
  PROVE  TypeOK'
<1> DEFINE Jobs_ == {Idle} \cup Filing \cup Deciding \cup Writing
<1>1. ASSUME NEW k \in Calls, NEW a \in Stamps, Authorize(w, k, a) PROVE TypeOK'
  <2>1. PICK op \in approval[a].op :
          Goto(w, [step |-> "stage", call |-> k, op |-> op, current |-> FALSE])
    BY <1>1 DEF Authorize
  <2>2. op \in Operation
    BY DEF TypeOK, Approval, Optional
  <2>3. [step |-> "stage", call |-> k, op |-> op, current |-> FALSE] \in Writing
    BY <2>2 DEF Writing
  <2>4. work' \in [Workers -> Jobs_]
    BY <2>1, <2>3, WorkTyped
  <2>5. [status |-> "running", approval |-> {a}] \in Call
    BY DEF Call, Optional
  <2> QED
    BY <1>1, <2>4, <2>5 DEF Authorize, TypeOK, review
<1>2. ASSUME work[w].step \in WriteSteps
      PROVE  /\ work[w] \in Writing
             /\ work[w].call \in Calls
             /\ work[w].op \in Operation
             /\ work[w].op.patch \in Patch
             /\ work[w].op.patch.finding \in Finding
             /\ Compensation(work[w].op.patch) \in Patch
  BY <1>2, Jobs DEF Writing, Operation, Patch, Compensation
<1>3. ASSUME StageApply(w) PROVE TypeOK'
  <2>1. [work[w] EXCEPT !.step = "write", !.current = TRUE] \in Writing
    BY <1>2, <1>3 DEF StageApply, WriteSteps, Writing
  <2>2. work' \in [Workers -> Jobs_]
    BY <1>3, <2>1, WorkTyped DEF StageApply
  <2> QED
    BY <1>3, <2>2 DEF StageApply, TypeOK, review, harness
<1>4. ASSUME PersistCompensation(w) PROVE TypeOK'
  <2>1. [work[w] EXCEPT !.step = "restage"] \in Writing
    BY <1>2, <1>4 DEF PersistCompensation, WriteSteps, Writing
  <2>2. work' \in [Workers -> Jobs_]
    BY <1>4, <2>1, WorkTyped DEF PersistCompensation
  <2> QED
    BY <1>2, <1>4, <2>2 DEF PersistCompensation, WriteSteps, TypeOK, review, harness
<1>5. ASSUME StageRevert(w) PROVE TypeOK'
  <2>1. [work[w] EXCEPT !.step = "write", !.current = TRUE] \in Writing
    BY <1>2, <1>5 DEF StageRevert, WriteSteps, Writing
  <2>2. work' \in [Workers -> Jobs_]
    BY <1>5, <2>1, WorkTyped DEF StageRevert
  <2> QED
    BY <1>5, <2>2 DEF StageRevert, TypeOK, review, harness
<1>6. ASSUME NEW p \in Patch, NEW k \in Calls PROVE NewRow(p, k) \in Row
  BY DEF NewRow, Row
<1>7. work' = [Outdated EXCEPT ![w] = Idle] => work' \in [Workers -> Jobs_]
  BY OutdatedTyped
<1>8. ASSUME CommitApply(w) PROVE TypeOK'
  <2>1. /\ target' \in Target
        /\ ledger' \subseteq Row
    BY <1>2, <1>6, <1>8 DEF CommitApply, WriteSteps, TypeOK, Target
  <2>2. call' \in [Calls -> Call] /\ approval' \in [Stamps -> Approval] /\ lost' \subseteq Calls
    BY <1>2, <1>8, CompletedTyped DEF CommitApply, WriteSteps
  <2> QED
    BY <1>7, <1>8, <2>1, <2>2 DEF CommitApply, TypeOK, review
<1>9. ASSUME CommitRevert(w) PROVE TypeOK'
  <2>1. \A r \in Row : Retired(r) \in Row
    BY DEF Row, Retired
  <2>2. /\ target' \in Target
        /\ ledger' \subseteq Row
    BY <1>2, <1>6, <1>9, <2>1 DEF CommitRevert, WriteSteps, TypeOK, Target
  <2>3. call' \in [Calls -> Call] /\ approval' \in [Stamps -> Approval] /\ lost' \subseteq Calls
    BY <1>2, <1>9, CompletedTyped DEF CommitRevert, WriteSteps
  <2> QED
    BY <1>7, <1>9, <2>2, <2>3 DEF CommitRevert, TypeOK, review
<1>10. ASSUME WriteRefused(w) PROVE TypeOK'
  <2>1. [work[w] EXCEPT !.step = "close", !.current = FALSE] \in Writing
    BY <1>2, <1>10 DEF WriteRefused, WriteSteps, Writing
  <2>2. work' \in [Workers -> Jobs_]
    BY <1>10, <2>1, WorkTyped DEF WriteRefused
  <2> QED
    BY <1>10, <2>2 DEF WriteRefused, TypeOK, review, harness
<1>11. ASSUME FailureCloseout(w) PROVE TypeOK'
  <2>1. work' \in [Workers -> Jobs_]
    BY <1>11, WorkTyped DEF FailureCloseout
  <2>2. \A x \in Call : [x EXCEPT !.status = "failed"] \in Call
    BY DEF Call
  <2>3. \A x \in Approval : [x EXCEPT !.session = "failed"] \in Approval
    BY DEF Approval
  <2> QED
    BY <1>11, <2>1, <2>2, <2>3 DEF FailureCloseout, TypeOK, review
<1> QED
  BY <1>1, <1>3, <1>4, <1>5, <1>8, <1>9, <1>10, <1>11 DEF Write

LEMMA OthersTyped ==
  ASSUME TypeOK, Editors \/ Approve \/ Crash
  PROVE  TypeOK'
<1>1. ASSUME SourceMoves PROVE TypeOK'
  BY <1>1 DEF SourceMoves, TypeOK, review, harness
<1>2. ASSUME TargetMoves PROVE TypeOK'
  <2>1. target' \in Target
    BY <1>2 DEF TargetMoves, TypeOK, Target, Row, Patch
  <2> QED
    BY <1>2, <2>1, OutdatedTyped DEF TargetMoves, TypeOK, review, harness
<1>3. ASSUME NEW f \in Finding, CompilePatch(f) PROVE TypeOK'
  <2>1. [finding |-> f, undo |-> FALSE] \in Patch
    BY DEF Patch
  <2>2. patches' \subseteq Patch
    BY <1>3, <2>1 DEF CompilePatch, TypeOK
  <2> QED
    BY <1>3, <2>2 DEF CompilePatch, TypeOK, review, harness
<1>4. ASSUME NEW op \in Operation, GrantApproval(op) PROVE TypeOK'
  <2>1. [status |-> "approved", op |-> {op}, session |-> "active"] \in Approval
    BY DEF Approval, Optional
  <2>2. clock + 1 \in 0..MaxStamp
    BY <1>4, BoundsAssumption DEF GrantApproval, TypeOK
  <2> QED
    BY <1>4, <2>1, <2>2 DEF GrantApproval, TypeOK, review
<1>5. ASSUME Crash PROVE TypeOK'
  BY <1>5 DEF Crash, TypeOK, review, InFlight
<1> QED
  BY <1>1, <1>2, <1>3, <1>4, <1>5 DEF Editors, Approve

LEMMA NextTyped == TypeOK /\ [Next]_vars => TypeOK'
<1> SUFFICES ASSUME TypeOK, [Next]_vars PROVE TypeOK'
  OBVIOUS
<1>1. CASE UNCHANGED vars
  BY <1>1 DEF vars, review, harness, TypeOK
<1>2. CASE Next
  BY <1>2, ReviewTyped, WriteTyped, OthersTyped DEF Next
<1> QED
  BY <1>1, <1>2

\* TypeOK: the tables and the held requests keep their shapes.
THEOREM Typing == Spec => []TypeOK
BY InitTyped, NextTyped, PTL DEF Spec

-------------------------------------------------------------------------------
(* What a request, a call, an approval and a record know of each other.    *)

Holds(w) == work[w].step \in WriteSteps

\* Operation o runs, or ran, as call k: k's one approval is for o.
For(k, o) == \E a \in Stamps : call[k].approval = {a} /\ approval[a].op = {o}

\* What a request holds of its operation: no compensation is ever reverted or
\* written as an apply, and what is staged on the current target fits it.
Fits(job) ==
  /\ job.op.tool = "revert" => ~job.op.patch.undo
  /\ job.step = "restage" => job.op.tool = "revert"
  /\ job.step = "write" => ~job.op.patch.undo
  /\ job.step = "write" /\ job.current =>
       (job.op.tool = "apply" <=> job.op.patch.finding \notin target.made)

HeldInv ==
  \A w \in Workers :
    Holds(w) => /\ call[work[w].call].status = "running"
                /\ work[w].call \notin lost
                /\ For(work[w].call, work[w].op)
                /\ Fits(work[w])

\* No two requests run one call.
ApartInv ==
  \A v, w \in Workers : Holds(v) /\ Holds(w) /\ work[v].call = work[w].call => v = w

ApprovalOK(a) ==
  /\ approval[a].op # {} <=> approval[a].status # "none"
  /\ \A o \in approval[a].op : o.tool = "revert" => ~o.patch.undo
  /\ a > clock => approval[a].status = "none"

ApprovalInv == \A a \in Stamps : ApprovalOK(a)

CallOK(k) ==
  /\ call[k].status = "none" => call[k].approval = {}
  /\ \A a \in call[k].approval : approval[a].status # "none"
  /\ k \in lost => call[k].status = "running"
  /\ call[k].status = "running" => k \in InFlight \cup lost
  /\ call[k].status = "completed" =>
       (\E r \in ledger : r.call = k)
         /\ \A a \in call[k].approval : approval[a].status = "consumed"
  /\ call[k].status = "failed" =>
       \A a \in call[k].approval : approval[a].session # "active"

CallInv == \A k \in Calls : CallOK(k)

\* The patch that operation o writes.
Written(o) == IF o.tool = "apply" THEN o.patch ELSE Compensation(o.patch)

RowOK(r) ==
  /\ call[r.call].status = "completed"
  /\ \E o \in Operation : For(r.call, o) /\ ~o.patch.undo /\ r.patch = Written(o)

RowInv == \A r \in ledger : RowOK(r)

UniqueInv == \A r, s \in ledger : r.patch = s.patch => r = s

PairedInv ==
  \A r \in ledger :
    /\ r.status = "reverted" => Applied(Compensation(r.patch)) /\ ~r.patch.undo
    /\ r.patch.undo => \E s \in ledger :
         Compensation(s.patch) = r.patch /\ s.status = "reverted"

\* A decision waiting to be committed has a stamp nobody else has or used, and
\* leaves a status that may be left.
StampInv ==
  /\ \A w \in Workers : work[w].step = "commit" =>
       \E from \in Statuses, at \in Stamps :
         /\ work[w].from = {from} /\ <<from, Leads[work[w].kind]>> \in Transitions
         /\ work[w].at = {at} /\ at <= clock
         /\ \A c \in Candidates : log[c][at] = {}
  /\ \A v, w \in Workers :
       work[v].step = "commit" /\ work[w].step = "commit" /\ work[v].at = work[w].at => v = w
  /\ \A c \in Candidates, t \in Stamps : t > clock => log[c][t] = {}

WriteInv == HeldInv /\ ApartInv /\ ApprovalInv /\ CallInv /\ RowInv /\ UniqueInv /\ PairedInv

LEMMA HeldJobs ==
  ASSUME TypeOK, NEW w \in Workers, Holds(w)
  PROVE  /\ work[w] \in Writing
         /\ work[w].call \in Calls
         /\ work[w].op \in Operation
         /\ work[w].op.patch \in Patch
         /\ work[w].op.patch.finding \in Finding
BY Jobs DEF Holds, Writing, Operation, Patch

LEMMA InFlightIsHeld ==
  ASSUME TypeOK
  PROVE  InFlight = {k \in Calls : \E w \in Workers : Holds(w) /\ work[w].call = k}
BY Jobs DEF InFlight, Holds

LEMMA InFlightIsHeldNext ==
  ASSUME TypeOK'
  PROVE  InFlight' = {k \in Calls : \E w \in Workers : Holds(w)' /\ work'[w].call = k}
<1>1. \A w \in Workers : work'[w] \in Writing <=> Holds(w)'
  BY DEF TypeOK, Idle, Filing, Deciding, Writing, Holds, WriteSteps
<1> QED
  BY <1>1 DEF InFlight

\* Compensations of different patches differ, and differ from what they undo.
LEMMA Compensations ==
  ASSUME NEW p \in Patch
  PROVE  /\ Compensation(p) \in Patch /\ Compensation(p).undo
         /\ Compensation(p).finding = p.finding
         /\ \A q \in Patch : ~p.undo /\ ~q.undo /\ Compensation(p) = Compensation(q) => p = q
<1>1. ASSUME NEW q \in Patch PROVE q = [finding |-> q.finding, undo |-> q.undo]
  BY DEF Patch
<1>2. ASSUME NEW q \in Patch
      PROVE  Compensation(q) \in Patch /\ Compensation(q).undo /\ Compensation(q).finding = q.finding
  BY DEF Patch, Compensation
<1>5. ASSUME NEW q \in Patch, ~p.undo, ~q.undo, Compensation(p) = Compensation(q) PROVE p = q
  <2>1. p.finding = q.finding
    BY <1>2, <1>5
  <2>2. p.undo = q.undo
    BY <1>5 DEF Patch
  <2> QED
    BY <1>1, <2>1, <2>2
<1> QED
  BY <1>2, <1>5

\* A step that leaves the ledger and the harness alone, and moves the requests
\* that hold a call only within it.
LEMMA Steady ==
  ASSUME TypeOK, TypeOK', WriteInv, UNCHANGED <<ledger, harness>>, clock' >= clock,
         \A v \in Workers : Holds(v)' <=> Holds(v),
         \A v \in Workers : Holds(v) =>
           work'[v].call = work[v].call /\ work'[v].op = work[v].op /\ Fits(work[v])'
  PROVE  WriteInv'
<1>1. UNCHANGED <<approval, call, lost>>
  BY DEF harness
<1>2. \A k, o : For(k, o)' <=> For(k, o)
  BY <1>1 DEF For
<1>3. HeldInv'
  BY <1>1, <1>2 DEF WriteInv, HeldInv
<1>4. ApartInv'
  BY DEF WriteInv, ApartInv
<1>5. ApprovalInv'
  BY <1>1, BoundsAssumption DEF WriteInv, ApprovalInv, ApprovalOK, TypeOK, Stamps
<1>6. InFlight' = InFlight
  BY InFlightIsHeld, InFlightIsHeldNext
<1>7. CallInv'
  BY <1>1, <1>6 DEF WriteInv, CallInv, CallOK
<1>8. RowInv'
  BY <1>1, <1>2 DEF WriteInv, RowInv, RowOK
<1>9. UniqueInv' /\ PairedInv'
  BY DEF WriteInv, UniqueInv, PairedInv, Applied, Rows
<1> QED
  BY <1>3, <1>4, <1>5, <1>7, <1>8, <1>9 DEF WriteInv

\* In particular: a step of which no request that holds a call takes notice.
LEMMA Calm ==
  ASSUME TypeOK, TypeOK', WriteInv, UNCHANGED <<target, ledger, harness>>, clock' >= clock,
         \A v \in Workers : Holds(v)' <=> Holds(v),
         \A v \in Workers : Holds(v) => work'[v] = work[v]
  PROVE  WriteInv'
<1>1. \A v \in Workers : Holds(v) => Fits(work[v])'
  BY DEF WriteInv, HeldInv, Fits
<1> QED
  BY <1>1, Steady

LEMMA ReviewCalm ==
  ASSUME TypeOK, TypeOK', WriteInv, NEW w \in Workers, Review(w)
  PROVE  WriteInv'
<1>1. /\ UNCHANGED <<target, ledger, harness>>
      /\ clock' >= clock
      /\ work[w].step \notin WriteSteps
      /\ \E job : Goto(w, job) /\ job.step \notin WriteSteps
  <2>1. clock \in Nat /\ Idle.step \notin WriteSteps
    BY BoundsAssumption DEF TypeOK, Idle, WriteSteps
  <2>2. ASSUME NEW kind \in {"class", "tag"}, ReadSource(w, kind) PROVE <1>1!:
    BY <2>1, <2>2 DEF ReadSource, WriteSteps
  <2>3. ASSUME NEW c \in Candidates, FileCandidate(w, c) PROVE <1>1!:
    BY <2>1, <2>3 DEF FileCandidate, WriteSteps
  <2>4. ASSUME NEW c \in Candidates, NEW kind \in Kinds, ReadForDecision(w, c, kind)
        PROVE <1>1!:
    BY <2>1, <2>4 DEF ReadForDecision, WriteSteps
  <2>5. ASSUME CompareBaseline(w) PROVE <1>1!:
    <3>1. work[w] \in Deciding
      BY <2>5, Jobs DEF CompareBaseline, ReviewSteps
    <3>2. PICK b \in Reviewed(work[w].on) :
            Goto(w, [work[w] EXCEPT !.step = "build", !.base = {b}, !.now = {}])
      BY <2>5 DEF CompareBaseline
    <3>3. [work[w] EXCEPT !.step = "build", !.base = {b}, !.now = {}].step \notin WriteSteps
      BY <3>1 DEF Deciding, WriteSteps
    <3>4. \E job : Goto(w, job) /\ job.step \notin WriteSteps
      BY <3>2, <3>3
    <3> QED
      BY <2>1, <2>5, <3>4 DEF CompareBaseline, WriteSteps
  <2>6. ASSUME BuildDecision(w) PROVE <1>1!:
    <3>1. work[w] \in Deciding
      BY <2>6, Jobs DEF BuildDecision, ReviewSteps
    <3>2. [work[w] EXCEPT !.step = "commit", !.from = {Replay(work[w].on)}, !.at = {clock + 1}].step
            \notin WriteSteps
      BY <3>1 DEF Deciding, WriteSteps
    <3>3. Goto(w, [work[w] EXCEPT !.step = "commit", !.from = {Replay(work[w].on)}, !.at = {clock + 1}])
      BY <2>6 DEF BuildDecision
    <3>4. \E job : Goto(w, job) /\ job.step \notin WriteSteps
      BY <3>2, <3>3
    <3> QED
      BY <2>1, <2>6, <3>4 DEF BuildDecision, WriteSteps
  <2>7. ASSUME CommitDecision(w) PROVE <1>1!:
    BY <2>1, <2>7 DEF CommitDecision, WriteSteps
  <2>8. ASSUME CommitReassignment(w) PROVE <1>1!:
    BY <2>1, <2>8 DEF CommitReassignment, WriteSteps
  <2>9. ASSUME Abandon(w) PROVE <1>1!:
    BY <2>1, <2>9 DEF Abandon, WriteSteps
  <2> QED
    BY <2>2, <2>3, <2>4, <2>5, <2>6, <2>7, <2>8, <2>9 DEF Review
<1>2. PICK job : Goto(w, job) /\ job.step \notin WriteSteps
  BY <1>1
<1>3. \A v \in Workers : v # w => work'[v] = work[v]
  BY <1>2 DEF Goto, TypeOK
<1>4. work'[w] = job
  BY <1>2 DEF Goto, TypeOK
<1>5. \A v \in Workers : Holds(v)' <=> Holds(v)
  BY <1>1, <1>2, <1>3, <1>4 DEF Holds
<1>6. \A v \in Workers : Holds(v) => work'[v] = work[v]
  BY <1>1, <1>3 DEF Holds
<1> QED
  BY <1>1, <1>5, <1>6, Calm

\* The steps of a held write before it commits keep its call and operation.
LEMMA StagingSteady ==
  ASSUME TypeOK, TypeOK', WriteInv, NEW w \in Workers,
         StageApply(w) \/ PersistCompensation(w) \/ StageRevert(w) \/ WriteRefused(w)
  PROVE  WriteInv'
<1>1. Holds(w)
  BY DEF StageApply, PersistCompensation, StageRevert, WriteRefused, Holds, WriteSteps
<1>2. work[w] \in Writing
  BY <1>1, HeldJobs
<1>3. Fits(work[w])
  BY <1>1 DEF WriteInv, HeldInv
<1>4. PICK job : /\ Goto(w, job)
                 /\ job.step \in WriteSteps /\ job.call = work[w].call /\ job.op = work[w].op
                 /\ Fits(job)
  <2>1. CASE StageApply(w)
    <3> DEFINE job == [work[w] EXCEPT !.step = "write", !.current = TRUE]
    <3>1. job.step = "write" /\ job.call = work[w].call /\ job.op = work[w].op
      BY <1>2 DEF Writing
    <3>2. Goto(w, job) /\ job.step \in WriteSteps
      BY <2>1, <3>1 DEF StageApply, WriteSteps
    <3>3. Fits(job)
      BY <2>1, <3>1 DEF StageApply, Fits
    <3> QED
      BY <3>1, <3>2, <3>3
  <2>2. CASE PersistCompensation(w)
    <3> DEFINE job == [work[w] EXCEPT !.step = "restage"]
    <3>1. job.step = "restage" /\ job.call = work[w].call /\ job.op = work[w].op
      BY <1>2 DEF Writing
    <3>2. Goto(w, job) /\ job.step \in WriteSteps
      BY <2>2, <3>1 DEF PersistCompensation, WriteSteps
    <3>3. Fits(job)
      BY <1>3, <2>2, <3>1 DEF PersistCompensation, Fits
    <3> QED
      BY <3>1, <3>2, <3>3
  <2>3. CASE StageRevert(w)
    <3> DEFINE job == [work[w] EXCEPT !.step = "write", !.current = TRUE]
    <3>1. job.step = "write" /\ job.call = work[w].call /\ job.op = work[w].op
      BY <1>2 DEF Writing
    <3>2. Goto(w, job) /\ job.step \in WriteSteps
      BY <2>3, <3>1 DEF StageRevert, WriteSteps
    <3>3. Fits(job)
      BY <1>3, <2>3, <3>1 DEF StageRevert, Fits
    <3> QED
      BY <3>1, <3>2, <3>3
  <2>4. CASE WriteRefused(w)
    <3> DEFINE job == [work[w] EXCEPT !.step = "close", !.current = FALSE]
    <3>1. job.step = "close" /\ job.call = work[w].call /\ job.op = work[w].op
      BY <1>2 DEF Writing
    <3>2. Goto(w, job) /\ job.step \in WriteSteps
      BY <2>4, <3>1 DEF WriteRefused, WriteSteps
    <3>3. Fits(job)
      BY <1>3, <3>1 DEF Fits
    <3> QED
      BY <3>1, <3>2, <3>3
  <2> QED
    BY <2>1, <2>2, <2>3, <2>4
<1>5. work'[w] = job /\ \A v \in Workers : v # w => work'[v] = work[v]
  BY <1>4 DEF Goto, TypeOK
<1>6. /\ UNCHANGED <<target, ledger, harness>>
      /\ clock' >= clock
  BY BoundsAssumption
  DEF StageApply, PersistCompensation, StageRevert, WriteRefused, TypeOK
<1>7. \A v \in Workers : Holds(v)' <=> Holds(v)
  BY <1>1, <1>4, <1>5 DEF Holds
<1>8. ASSUME NEW v \in Workers, Holds(v)
      PROVE  work'[v].call = work[v].call /\ work'[v].op = work[v].op /\ Fits(work[v])'
  <2>1. CASE v = w
    BY <1>4, <1>5, <1>6, <2>1 DEF Fits
  <2>2. CASE v # w
    BY <1>5, <1>6, <1>8, <2>2 DEF WriteInv, HeldInv, Fits
  <2> QED
    BY <2>1, <2>2
<1> QED
  BY <1>6, <1>7, <1>8, Steady

\* What was staged on a target that moved holds what it held, outdated.
LEMMA Aged ==
  ASSUME TypeOK, NEW v \in Workers
  PROVE  /\ ~Holds(v) => Outdated[v] = work[v]
         /\ Holds(v) => /\ Outdated[v].step = work[v].step
                        /\ Outdated[v].call = work[v].call
                        /\ Outdated[v].op = work[v].op
                        /\ Outdated[v].current = FALSE
<1>1. CASE Holds(v)
  <2>1. work[v] \in Writing
    BY <1>1, HeldJobs
  <2>2. Outdated[v] = [work[v] EXCEPT !.current = FALSE]
    BY <2>1 DEF Outdated
  <2> QED
    BY <1>1, <2>1, <2>2 DEF Writing
<1>2. CASE ~Holds(v)
  BY <1>2, Jobs DEF Holds, Outdated
<1> QED
  BY <1>1, <1>2

LEMMA TargetMovesSteady ==
  ASSUME TypeOK, TypeOK', WriteInv, TargetMoves
  PROVE  WriteInv'
<1>1. UNCHANGED <<ledger, harness>> /\ clock' >= clock /\ work' = Outdated
  BY BoundsAssumption DEF TargetMoves, TypeOK
<1>2. \A v \in Workers : Holds(v)' <=> Holds(v)
  BY <1>1, Aged DEF Holds
<1>3. ASSUME NEW v \in Workers, Holds(v)
      PROVE  work'[v].call = work[v].call /\ work'[v].op = work[v].op /\ Fits(work[v])'
  BY <1>1, <1>3, Aged DEF WriteInv, HeldInv, Fits
<1> QED
  BY <1>1, <1>2, <1>3, Steady

LEMMA OthersCalm ==
  ASSUME TypeOK, TypeOK', WriteInv,
         SourceMoves \/ \E f \in Finding : CompilePatch(f)
  PROVE  WriteInv'
<1>1. UNCHANGED <<target, ledger, harness, work>> /\ clock' >= clock
  BY BoundsAssumption DEF SourceMoves, CompilePatch, TypeOK
<1>2. \A v \in Workers : Holds(v)' <=> Holds(v)
  BY <1>1 DEF Holds
<1> QED
  BY <1>1, <1>2, Calm

LEMMA ApprovalsKeepWrites ==
  ASSUME TypeOK, TypeOK', WriteInv, NEW op \in Operation, GrantApproval(op)
  PROVE  WriteInv'
<1>1. /\ clock + 1 \in Stamps /\ clock' = clock + 1
      /\ approval[clock + 1].status = "none" /\ approval[clock + 1].op = {}
  BY BoundsAssumption DEF GrantApproval, TypeOK, Stamps, WriteInv, ApprovalInv, ApprovalOK
<1>2. /\ approval'[clock + 1] = [status |-> "approved", op |-> {op}, session |-> "active"]
      /\ \A a \in Stamps : a # clock + 1 => approval'[a] = approval[a]
      /\ UNCHANGED <<target, ledger, call, lost, work>>
  BY DEF GrantApproval, TypeOK
<1>3. ASSUME NEW k, NEW o, For(k, o) PROVE For(k, o)'
  <2>1. PICK a \in Stamps : call[k].approval = {a} /\ approval[a].op = {o}
    BY <1>3 DEF For
  <2>2. approval'[a] = approval[a]
    BY <1>1, <1>2, <2>1
  <2> QED
    BY <1>2, <2>1, <2>2 DEF For
<1>4. HeldInv' /\ ApartInv'
  BY <1>2, <1>3 DEF WriteInv, HeldInv, ApartInv, Holds, Fits
<1>5. ASSUME NEW a \in Stamps PROVE ApprovalOK(a)'
  <2>1. CASE a # clock + 1
    BY <1>1, <1>2, <2>1, BoundsAssumption DEF WriteInv, ApprovalInv, ApprovalOK, TypeOK, Stamps
  <2>2. CASE a = clock + 1
    <3>1. op.tool = "revert" => ~op.patch.undo
      BY DEF GrantApproval, Requestable
    <3>2. ~(a > clock')
      BY <1>1, <2>2, BoundsAssumption DEF TypeOK
    <3> QED
      BY <1>2, <2>2, <3>1, <3>2 DEF ApprovalOK
  <2> QED
    BY <2>1, <2>2
<1>6. ASSUME NEW k \in Calls PROVE CallOK(k)'
  <2>1. InFlight' = InFlight
    BY <1>2 DEF InFlight
  <2>2. \A a \in call[k].approval : a \in Stamps /\ a # clock + 1
    BY <1>1 DEF WriteInv, CallInv, CallOK, TypeOK, Call, Optional
  <2>3. \A a \in call[k].approval : approval'[a] = approval[a]
    BY <1>2, <2>2
  <2> QED
    BY <1>2, <2>1, <2>3 DEF WriteInv, CallInv, CallOK
<1>7. RowInv'
  BY <1>2, <1>3 DEF WriteInv, RowInv, RowOK
<1>8. UniqueInv' /\ PairedInv'
  BY <1>2 DEF WriteInv, UniqueInv, PairedInv, Applied, Rows
<1> QED
  BY <1>4, <1>5, <1>6, <1>7, <1>8 DEF WriteInv, ApprovalInv, CallInv

LEMMA AuthorizeKeepsWrites ==
  ASSUME TypeOK, TypeOK', WriteInv,
         NEW w \in Workers, NEW k \in Calls, NEW a \in Stamps, Authorize(w, k, a)
  PROVE  WriteInv'
<1>1. PICK op \in approval[a].op :
        Goto(w, [step |-> "stage", call |-> k, op |-> op, current |-> FALSE])
  BY DEF Authorize
<1>2. op \in Operation /\ approval[a].op = {op}
  <2>1. approval[a].op \in Optional(Operation)
    BY DEF TypeOK, Approval
  <2> QED
    BY <2>1 DEF Optional
<1>3. /\ call'[k] = [status |-> "running", approval |-> {a}]
      /\ \A i \in Calls : i # k => call'[i] = call[i]
      /\ call[k].status = "none" /\ approval[a].status = "approved"
      /\ UNCHANGED <<target, clock, ledger, approval, lost>>
  <2>1. call' = [call EXCEPT ![k] = [status |-> "running", approval |-> {a}]]
    BY DEF Authorize
  <2>2. call[k].status = "none"
    BY DEF Authorize, Calls
  <2>3. approval[a].status = "approved" /\ UNCHANGED <<target, clock, ledger, approval, lost>>
    BY DEF Authorize
  <2> QED
    BY <2>1, <2>2, <2>3 DEF TypeOK
<1>4. /\ ~Holds(w)
      /\ work'[w] = [step |-> "stage", call |-> k, op |-> op, current |-> FALSE]
      /\ \A v \in Workers : v # w => work'[v] = work[v]
  <2>1. work[w] = Idle
    BY DEF Authorize
  <2>2. ~Holds(w)
    BY <2>1 DEF Holds, Idle, WriteSteps
  <2> QED
    BY <1>1, <2>2 DEF Goto, TypeOK
<1>5. /\ \A v \in Workers : v # w => (Holds(v)' <=> Holds(v))
      /\ Holds(w)' /\ work'[w].call = k /\ work'[w].op = op
  BY <1>4 DEF Holds, WriteSteps
<1>6. \A v \in Workers : Holds(v) => v # w /\ work[v].call \in Calls /\ work[v].call # k
  BY <1>3, <1>4, HeldJobs DEF WriteInv, HeldInv
<1>7. \A i \in Calls : \A o : i # k /\ For(i, o) => For(i, o)'
  BY <1>3 DEF For
<1>8. HeldInv'
  <2>1. ASSUME NEW v \in Workers, v # w, Holds(v)
        PROVE  /\ call'[work'[v].call].status = "running"
               /\ work'[v].call \notin lost'
               /\ For(work[v].call, work[v].op)'
               /\ Fits(work[v])'
    BY <1>3, <1>4, <1>6, <1>7, <2>1 DEF WriteInv, HeldInv, Fits
  <2>2. /\ call'[k].status = "running" /\ k \notin lost'
        /\ For(k, op)'
    BY <1>2, <1>3 DEF For, WriteInv, CallInv, CallOK
  <2>3. Fits(work[w])'
    <3>1. op.tool = "revert" => ~op.patch.undo
      BY <1>2 DEF WriteInv, ApprovalInv, ApprovalOK
    <3> QED
      BY <1>4, <3>1 DEF Fits
  <2>4. For(work[w].call, work[w].op)'
    BY <1>5, <2>2
  <2> QED
    BY <1>5, <2>1, <2>2, <2>3, <2>4 DEF HeldInv
<1>9. ApartInv'
  BY <1>4, <1>5, <1>6 DEF WriteInv, ApartInv
<1>10. ApprovalInv'
  BY <1>3 DEF WriteInv, ApprovalInv, ApprovalOK
<1>11. InFlight' = InFlight \cup {k}
  <2>1. ASSUME NEW i \in Calls PROVE i \in InFlight' <=> i \in InFlight \cup {k}
    BY <1>4, <1>5, <1>6, InFlightIsHeld, InFlightIsHeldNext
  <2> QED
    BY <2>1 DEF InFlight
<1>12. ASSUME NEW i \in Calls PROVE CallOK(i)'
  <2>1. CASE i = k
    BY <1>3, <1>11, <2>1 DEF WriteInv, CallInv, CallOK
  <2>2. CASE i # k
    BY <1>3, <1>11, <2>2 DEF WriteInv, CallInv, CallOK
  <2> QED
    BY <2>1, <2>2
<1>13. ASSUME NEW r \in ledger PROVE RowOK(r)'
  <2>1. RowOK(r) /\ r.call \in Calls
    BY DEF WriteInv, RowInv, TypeOK, Row
  <2>2. r.call # k
    BY <1>3, <2>1 DEF RowOK
  <2> QED
    BY <1>3, <1>7, <2>1, <2>2 DEF RowOK
<1>14. UniqueInv' /\ PairedInv'
  BY <1>3 DEF WriteInv, UniqueInv, PairedInv, Applied, Rows
<1> QED
  BY <1>3, <1>8, <1>9, <1>10, <1>12, <1>13, <1>14 DEF WriteInv, CallInv, RowInv

LEMMA CrashKeepsWrites ==
  ASSUME TypeOK, TypeOK', WriteInv, Crash
  PROVE  WriteInv'
<1>1. /\ UNCHANGED <<clock, ledger, approval, call>>
      /\ lost = {} /\ lost' = InFlight
      /\ \A v \in Workers : ~Holds(v)'
  BY DEF Crash, Holds, Idle, WriteSteps
<1>2. HeldInv' /\ ApartInv'
  BY <1>1 DEF HeldInv, ApartInv
<1>3. ApprovalInv'
  BY <1>1 DEF WriteInv, ApprovalInv, ApprovalOK
<1>4. \A k \in Calls : k \in lost' => call[k].status = "running"
  BY <1>1, InFlightIsHeld DEF WriteInv, HeldInv
<1>5. ASSUME NEW k \in Calls PROVE CallOK(k)'
  BY <1>1, <1>4 DEF WriteInv, CallInv, CallOK
<1>6. RowInv' /\ UniqueInv' /\ PairedInv'
  BY <1>1 DEF WriteInv, RowInv, RowOK, For, UniqueInv, PairedInv, Applied, Rows
<1> QED
  BY <1>2, <1>3, <1>5, <1>6 DEF WriteInv, CallInv

\* The end of a write: w's call takes a final status, the approval it ran on
\* may only be consumed or lose its session, and w holds nothing any more.
Ends(w, final) ==
  LET k == work[w].call IN
  /\ final \in {"completed", "failed"}
  /\ call' = [call EXCEPT ![k].status = final]
  /\ DOMAIN approval' = Stamps
  /\ \A a \in Stamps :
       /\ approval'[a].op = approval[a].op
       /\ approval'[a].status \in {approval[a].status, "consumed"}
       /\ approval'[a].session # "active" \/ approval'[a].session = approval[a].session
       /\ a \notin call[k].approval => approval'[a] = approval[a]
       /\ a \in call[k].approval /\ final = "completed" => approval'[a].status = "consumed"
       /\ a \in call[k].approval /\ final = "failed" => approval'[a].session # "active"
  /\ lost' = lost
  /\ clock' = clock
  /\ ~Holds(w)'
  /\ \A v \in Workers : v # w =>
       /\ Holds(v)' <=> Holds(v)
       /\ Holds(v) => work'[v].call = work[v].call /\ work'[v].op = work[v].op /\ Fits(work[v])'

LEMMA EndKeepsHarness ==
  ASSUME TypeOK, TypeOK', WriteInv,
         NEW w \in Workers, Holds(w), NEW final, Ends(w, final),
         \A r \in ledger : \E s \in ledger' : s.call = r.call,
         final = "completed" => \E s \in ledger' : s.call = work[w].call
  PROVE  /\ HeldInv' /\ ApartInv' /\ ApprovalInv' /\ CallInv'
         /\ call'[work[w].call].status = final
         /\ \A i \in Calls : \A o : For(i, o) => For(i, o)'
         /\ \A r \in ledger : RowOK(r) => RowOK(r)'
<1> DEFINE k == work[w].call
<1>1. /\ k \in Calls /\ call[k].status = "running" /\ k \notin lost /\ For(k, work[w].op)
  BY HeldJobs DEF WriteInv, HeldInv
<1>2. /\ call'[k].status = final /\ call'[k].approval = call[k].approval
      /\ \A i \in Calls : i # k => call'[i] = call[i]
  BY <1>1 DEF Ends, TypeOK, Call
<1>3. \A i \in Calls : call'[i].approval = call[i].approval
  BY <1>2
<1>4. \A i \in Calls : \A o : For(i, o) => For(i, o)'
  BY <1>3 DEF For, Ends
<1>5. ASSUME NEW v \in Workers, Holds(v)'
      PROVE  /\ v # w /\ Holds(v)
             /\ work'[v].call = work[v].call /\ work'[v].op = work[v].op /\ Fits(work[v])'
             /\ work[v].call \in Calls /\ work[v].call # k
  <2>1. v # w /\ Holds(v)
    BY <1>5 DEF Ends
  <2> QED
    BY <2>1, HeldJobs DEF Ends, WriteInv, ApartInv
<1>6. HeldInv'
  BY <1>2, <1>4, <1>5 DEF WriteInv, HeldInv, Ends
<1>7. ApartInv'
  BY <1>5 DEF WriteInv, ApartInv
<1>8. ASSUME NEW a \in Stamps PROVE ApprovalOK(a)'
  <2>1. a \in call[k].approval => approval[a].status # "none"
    BY <1>1 DEF WriteInv, CallInv, CallOK
  <2>2. approval'[a].status = "none" <=> approval[a].status = "none"
    BY <2>1 DEF Ends
  <2> QED
    BY <2>2 DEF Ends, WriteInv, ApprovalInv, ApprovalOK
<1>9. ASSUME NEW i \in Calls, i # k PROVE i \in InFlight' <=> i \in InFlight
  <2>1. ASSUME NEW v \in Workers PROVE Holds(v)' /\ work'[v].call = i <=> Holds(v) /\ work[v].call = i
    BY <1>9 DEF Ends
  <2> QED
    BY <2>1, InFlightIsHeld, InFlightIsHeldNext
<1>10. ASSUME NEW i \in Calls PROVE CallOK(i)'
  <2>1. CallOK(i)
    BY DEF WriteInv, CallInv
  <2>2. \A a \in call[i].approval : a \in Stamps
    <3>1. call[i].approval \in Optional(Stamps)
      BY DEF TypeOK, Call
    <3> QED
      BY <3>1 DEF Optional
  <2>3. \A a \in call[i].approval : approval'[a].status # "none"
    BY <2>1, <2>2 DEF Ends, CallOK
  <2>4. CASE i # k
    <3>1. call'[i] = call[i] /\ (i \in InFlight' <=> i \in InFlight) /\ lost' = lost
      BY <1>2, <1>9, <2>4 DEF Ends
    <3>2. call[i].status = "completed" => \E r \in ledger' : r.call = i
      BY <2>1 DEF CallOK
    <3>3. \A a \in call[i].approval : approval[a].status = "consumed" => approval'[a].status = "consumed"
      BY <2>2 DEF Ends
    <3>4. \A a \in call[i].approval : approval[a].session # "active" => approval'[a].session # "active"
      BY <2>2 DEF Ends
    <3> QED
      BY <2>1, <2>3, <3>1, <3>2, <3>3, <3>4 DEF CallOK
  <2>5. CASE i = k
    <3>1. /\ final = "completed" => \A a \in call[k].approval : approval'[a].status = "consumed"
          /\ final = "failed" => \A a \in call[k].approval : approval'[a].session # "active"
          /\ lost' = lost /\ final \in {"completed", "failed"}
      BY <2>2, <2>5 DEF Ends
    <3> QED
      BY <1>1, <1>2, <2>3, <2>5, <3>1 DEF CallOK
  <2> QED
    BY <2>4, <2>5
<1>11. ASSUME NEW r \in ledger, RowOK(r) PROVE RowOK(r)'
  <2>1. r.call \in Calls /\ r.call # k
    BY <1>1, <1>11 DEF TypeOK, Row, RowOK
  <2> QED
    BY <1>2, <1>4, <1>11, <2>1 DEF RowOK
<1>12. ApprovalInv' /\ CallInv'
  BY <1>8, <1>10 DEF ApprovalInv, CallInv
<1> QED
  BY <1>2, <1>4, <1>6, <1>7, <1>11, <1>12

LEMMA FailureKeepsWrites ==
  ASSUME TypeOK, TypeOK', WriteInv, NEW w \in Workers, FailureCloseout(w)
  PROVE  WriteInv'
<1>1. Holds(w)
  BY DEF FailureCloseout, Holds, WriteSteps
<1>2. UNCHANGED <<target, clock, ledger, lost>>
  BY DEF FailureCloseout
<1>3. work'[w] = Idle /\ \A v \in Workers : v # w => work'[v] = work[v]
  BY DEF FailureCloseout, Goto, TypeOK
<1>4. /\ ~Holds(w)'
      /\ \A v \in Workers : v # w =>
           /\ Holds(v)' <=> Holds(v)
           /\ Holds(v) => work'[v].call = work[v].call /\ work'[v].op = work[v].op /\ Fits(work[v])'
  BY <1>2, <1>3 DEF Holds, Idle, WriteSteps, WriteInv, HeldInv, Fits
<1>5. ASSUME NEW a \in Stamps
      PROVE  /\ approval'[a].op = approval[a].op
             /\ approval'[a].status = approval[a].status
             /\ approval'[a].session # "active" \/ approval'[a].session = approval[a].session
             /\ a \notin call[work[w].call].approval => approval'[a] = approval[a]
             /\ a \in call[work[w].call].approval => approval'[a].session # "active"
  BY DEF FailureCloseout, TypeOK, Approval
<1>6. /\ call' = [call EXCEPT ![work[w].call].status = "failed"]
      /\ DOMAIN approval' = Stamps
  BY DEF FailureCloseout
<1>7. Ends(w, "failed")
  BY <1>2, <1>4, <1>5, <1>6 DEF Ends
<1>8. HeldInv' /\ ApartInv' /\ ApprovalInv' /\ CallInv' /\ RowInv'
  BY <1>1, <1>2, <1>7, EndKeepsHarness DEF WriteInv, RowInv
<1>9. UniqueInv' /\ PairedInv'
  BY <1>2 DEF WriteInv, UniqueInv, PairedInv, Applied, Rows
<1> QED
  BY <1>8, <1>9 DEF WriteInv

LEMMA CompletedEnds ==
  ASSUME TypeOK, NEW w \in Workers, Holds(w), Completed(work[w].call),
         work' = [Outdated EXCEPT ![w] = Idle], clock' = clock, WriteInv
  PROVE  Ends(w, "completed")
<1>1. work'[w] = Idle /\ \A v \in Workers : v # w => work'[v] = Outdated[v]
  BY DEF Outdated
<1>2. ~Holds(w)'
  BY <1>1 DEF Holds, Idle, WriteSteps
<1>3. ASSUME NEW v \in Workers, v # w
      PROVE  /\ Holds(v)' <=> Holds(v)
             /\ Holds(v) => work'[v].call = work[v].call /\ work'[v].op = work[v].op /\ Fits(work[v])'
  <2>1. work'[v] = Outdated[v]
    BY <1>1, <1>3
  <2>2. Holds(v)' <=> Holds(v)
    BY <2>1, Aged DEF Holds
  <2>3. ASSUME Holds(v) PROVE /\ work'[v].call = work[v].call
                             /\ work'[v].op = work[v].op
                             /\ work'[v].step = work[v].step
                             /\ work'[v].current = FALSE
    BY <2>1, <2>3, Aged
  <2>4. ASSUME Holds(v) PROVE Fits(work[v])'
    <3>1. Fits(work[v])
      BY <2>4 DEF WriteInv, HeldInv
    <3> QED
      BY <2>3, <2>4, <3>1 DEF Fits
  <2> QED
    BY <2>2, <2>3, <2>4
<1>4. ASSUME NEW a \in Stamps
      PROVE  /\ approval'[a].op = approval[a].op
             /\ approval'[a].status \in {approval[a].status, "consumed"}
             /\ approval'[a].session # "active" \/ approval'[a].session = approval[a].session
             /\ a \notin call[work[w].call].approval => approval'[a] = approval[a]
             /\ a \in call[work[w].call].approval => approval'[a].status = "consumed"
  BY DEF Completed, TypeOK, Approval
<1>5. /\ call' = [call EXCEPT ![work[w].call].status = "completed"]
      /\ DOMAIN approval' = Stamps /\ lost' = lost
  BY DEF Completed
<1> QED
  BY <1>2, <1>3, <1>4, <1>5 DEF Ends

\* A write commits: w holds a running call for the operation, not of a
\* compensation, and what was staged is current.
LEMMA HeldCommit ==
  ASSUME TypeOK, WriteInv, NEW w \in Workers, work[w].step = "write"
  PROVE  /\ Holds(w) /\ work[w].call \in Calls
         /\ work[w].op \in Operation /\ work[w].op.patch \in Patch /\ ~work[w].op.patch.undo
         /\ For(work[w].call, work[w].op)
         /\ work[w].current => (work[w].op.tool = "apply" <=>
                                  work[w].op.patch.finding \notin target.made)
<1>1. Holds(w)
  BY DEF Holds, WriteSteps
<1> QED
  BY <1>1, HeldJobs DEF WriteInv, HeldInv, Fits

LEMMA ApplyKeepsWrites ==
  ASSUME TypeOK, TypeOK', WriteInv, NEW w \in Workers, CommitApply(w)
  PROVE  WriteInv'
<1> DEFINE p == work[w].op.patch
           k == work[w].call
           new == NewRow(p, k)
<1>1. /\ Holds(w) /\ k \in Calls /\ work[w].op \in Operation /\ p \in Patch /\ ~p.undo
      /\ For(k, work[w].op) /\ work[w].op.tool = "apply"
  BY HeldCommit DEF CommitApply
<1>2. /\ ledger' = ledger \cup {new} /\ Rows(p) = {}
      /\ Completed(k) /\ work' = [Outdated EXCEPT ![w] = Idle] /\ clock' = clock
  BY DEF CommitApply, Unrecorded
<1>3. new.patch = p /\ new.status = "applied" /\ new.call = k
  BY DEF NewRow
<1>4. Ends(w, "completed")
  BY <1>1, <1>2, CompletedEnds
<1>5. /\ HeldInv' /\ ApartInv' /\ ApprovalInv' /\ CallInv'
      /\ call'[k].status = "completed"
      /\ \A i \in Calls : \A o : For(i, o) => For(i, o)'
      /\ \A r \in ledger : RowOK(r) => RowOK(r)'
  BY <1>1, <1>2, <1>3, <1>4, EndKeepsHarness
<1>6. RowInv'
  <2>1. ASSUME NEW n, n = new PROVE RowOK(n)'
    <3>1. PICK o \in Operation : o = work[w].op
      BY <1>1
    <3>2. For(n.call, o)' /\ ~o.patch.undo /\ n.patch = Written(o)
      BY <1>1, <1>3, <1>5, <2>1, <3>1 DEF Written
    <3> QED
      BY <1>3, <1>5, <2>1, <3>2 DEF RowOK
  <2>2. PICK n : n = new
    OBVIOUS
  <2>3. \A r \in ledger : RowOK(r)'
    BY <1>5 DEF WriteInv, RowInv
  <2>4. ledger' = ledger \cup {n} /\ RowOK(n)'
    BY <1>2, <2>1, <2>2
  <2> QED
    BY <2>3, <2>4 DEF RowInv
<1>7. UniqueInv'
  BY <1>2, <1>3 DEF WriteInv, UniqueInv, Rows
<1>8. PairedInv'
  <2>1. \A q : Applied(q) => Applied(q)'
    BY <1>2 DEF Applied, Rows
  <2> QED
    BY <1>1, <1>2, <1>3, <2>1 DEF WriteInv, PairedInv
<1> QED
  BY <1>5, <1>6, <1>7, <1>8 DEF WriteInv

LEMMA RevertKeepsWrites ==
  ASSUME TypeOK, TypeOK', WriteInv, NEW w \in Workers, CommitRevert(w)
  PROVE  WriteInv'
<1>1. PICK p, k, new, op, undo :
        /\ p = work[w].op.patch /\ k = work[w].call /\ op = work[w].op
        /\ undo = Compensation(p) /\ new = NewRow(undo, k)
  OBVIOUS
<1>2. /\ Holds(w) /\ k \in Calls /\ op \in Operation /\ p \in Patch /\ ~p.undo
      /\ For(k, op) /\ op.tool = "revert" /\ op.patch = p
      /\ undo \in Patch /\ undo.undo /\ undo = Written(op)
  BY <1>1, HeldCommit, Compensations DEF CommitRevert, Written, Operation
<1>3. /\ ledger' = {IF r.patch = p THEN Retired(r) ELSE r : r \in ledger} \cup {new}
      /\ Rows(undo) = {} /\ Applied(p)
      /\ Completed(k) /\ work' = [Outdated EXCEPT ![w] = Idle] /\ clock' = clock
  BY <1>1 DEF CommitRevert, Unrecorded
<1>4. new.patch = undo /\ new.status = "applied" /\ new.call = k
  BY <1>1 DEF NewRow
<1>5. Ends(w, "completed")
  BY <1>1, <1>2, <1>3, CompletedEnds
\* Every record is there after the step, the one of p as reverted.
<1>6. ASSUME NEW r \in ledger
      PROVE  /\ Retired(r).patch = r.patch /\ Retired(r).call = r.call
             /\ Retired(r).status = "reverted"
  BY <1>6 DEF TypeOK, Row, Retired
<1>7. ASSUME NEW r \in ledger
      PROVE  \E s \in ledger' :
               /\ s.patch = r.patch /\ s.call = r.call
               /\ IF r.patch = p THEN s.status = "reverted" ELSE s = r
  <2>1. (IF r.patch = p THEN Retired(r) ELSE r) \in ledger'
    BY <1>3
  <2> QED
    BY <1>6, <2>1
<1>8. ASSUME NEW s \in ledger', s # new
      PROVE  \E r \in ledger :
               /\ s.patch = r.patch /\ s.call = r.call
               /\ s = IF r.patch = p THEN Retired(r) ELSE r
               /\ IF r.patch = p THEN s.status = "reverted" ELSE s = r
  <2>1. PICK r \in ledger : s = IF r.patch = p THEN Retired(r) ELSE r
    BY <1>3, <1>8
  <2> QED
    BY <1>6, <2>1
<1>9. new \in ledger'
  BY <1>3
<1>10. /\ HeldInv' /\ ApartInv' /\ ApprovalInv' /\ CallInv'
       /\ call'[k].status = "completed"
       /\ \A i \in Calls : \A o : For(i, o) => For(i, o)'
       /\ \A r \in ledger : RowOK(r) => RowOK(r)'
  BY <1>1, <1>2, <1>4, <1>5, <1>7, <1>9, EndKeepsHarness
<1>11. ASSUME NEW s \in ledger' PROVE RowOK(s)'
  <2>1. CASE s = new
    BY <1>2, <1>4, <1>10, <2>1 DEF RowOK
  <2>2. CASE s # new
    <3>1. PICK r \in ledger : s.patch = r.patch /\ s.call = r.call
      BY <1>8, <2>2
    <3>2. RowOK(r)'
      BY <1>10 DEF WriteInv, RowInv
    <3> QED
      BY <3>1, <3>2 DEF RowOK
  <2> QED
    BY <2>1, <2>2
<1>12. UniqueInv'
  <2>1. ASSUME NEW s \in ledger', NEW t \in ledger', s.patch = t.patch, s # new, t # new
        PROVE  s = t
    BY <1>8, <2>1 DEF WriteInv, UniqueInv
  <2>2. ASSUME NEW s \in ledger', s.patch = undo PROVE s = new
    BY <1>3, <1>8, <2>2 DEF Rows
  <2> QED
    BY <1>4, <2>1, <2>2 DEF UniqueInv
<1>13. \A q : q # p /\ Applied(q) => Applied(q)'
  BY <1>7 DEF Applied, Rows
<1>14. Applied(undo)'
  BY <1>4, <1>9 DEF Applied, Rows
<1>15. ASSUME NEW s \in ledger'
       PROVE  /\ s.status = "reverted" => Applied(Compensation(s.patch))' /\ ~s.patch.undo
              /\ s.patch.undo => \E t \in ledger' :
                   Compensation(t.patch) = s.patch /\ t.status = "reverted"
  <2>1. CASE s = new
    <3>1. PICK r \in ledger : r.patch = p
      BY <1>3 DEF Applied, Rows
    <3>2. \E t \in ledger' : t.patch = p /\ t.status = "reverted"
      BY <1>7, <3>1
    <3> QED
      BY <1>1, <1>4, <2>1, <3>2
  <2>2. CASE s # new
    <3>1. PICK r \in ledger :
            /\ s.patch = r.patch
            /\ IF r.patch = p THEN s.status = "reverted" ELSE s = r
      BY <1>8, <2>2
    <3>2. CASE r.patch = p
      BY <1>1, <1>2, <1>14, <3>1, <3>2
    <3>3. CASE r.patch # p
      <4>1. s = r
        BY <3>1, <3>3
      <4>2. ASSUME s.status = "reverted" PROVE Applied(Compensation(s.patch))' /\ ~s.patch.undo
        <5>1. Applied(Compensation(r.patch)) /\ ~r.patch.undo /\ r.patch \in Patch
          BY <4>1, <4>2 DEF WriteInv, PairedInv, TypeOK, Row
        <5>2. PICK q : q = Compensation(r.patch) /\ q.undo
          BY <5>1, Compensations
        <5>3. Applied(q)'
          BY <1>2, <1>13, <5>1, <5>2
        <5> QED
          BY <4>1, <5>1, <5>2, <5>3
      <4>3. ASSUME s.patch.undo
            PROVE  \E t \in ledger' : Compensation(t.patch) = s.patch /\ t.status = "reverted"
        <5>1. PICK t \in ledger : Compensation(t.patch) = r.patch /\ t.status = "reverted"
          BY <4>1, <4>3 DEF WriteInv, PairedInv
        <5>2. \E u \in ledger' : u.patch = t.patch /\ u.status = "reverted"
          BY <1>7, <5>1
        <5> QED
          BY <4>1, <5>1, <5>2
      <4> QED
        BY <4>2, <4>3
    <3> QED
      BY <3>2, <3>3
  <2> QED
    BY <2>1, <2>2
<1>16. PairedInv'
  BY <1>15 DEF PairedInv
<1> QED
  BY <1>10, <1>11, <1>12, <1>16 DEF WriteInv, RowInv

LEMMA WriteInvInit == Init => WriteInv
<1> SUFFICES ASSUME Init PROVE WriteInv
  OBVIOUS
<1>1. \A w \in Workers : ~Holds(w)
  BY DEF Init, Holds, Idle, WriteSteps
<1>2. HeldInv /\ ApartInv
  BY <1>1 DEF HeldInv, ApartInv
<1>3. ApprovalInv
  BY DEF Init, ApprovalInv, ApprovalOK
<1>4. CallInv
  BY DEF Init, CallInv, CallOK
<1>5. RowInv /\ UniqueInv /\ PairedInv
  BY DEF Init, RowInv, UniqueInv, PairedInv
<1> QED
  BY <1>2, <1>3, <1>4, <1>5 DEF WriteInv

LEMMA WriteInvNext == TypeOK /\ TypeOK' /\ WriteInv /\ [Next]_vars => WriteInv'
<1> SUFFICES ASSUME TypeOK, TypeOK', WriteInv, [Next]_vars PROVE WriteInv'
  OBVIOUS
<1>1. ASSUME NEW w \in Workers, Write(w) PROVE WriteInv'
  BY <1>1, AuthorizeKeepsWrites, StagingSteady, ApplyKeepsWrites, RevertKeepsWrites,
     FailureKeepsWrites DEF Write
<1>2. ASSUME Editors PROVE WriteInv'
  BY <1>2, OthersCalm, TargetMovesSteady DEF Editors
<1>3. ASSUME Approve PROVE WriteInv'
  BY <1>3, OthersCalm, ApprovalsKeepWrites DEF Approve
<1>4. CASE UNCHANGED vars
  <2>1. UNCHANGED <<target, ledger, harness, work, clock>>
    BY <1>4 DEF vars
  <2>2. \A v \in Workers : Holds(v)' <=> Holds(v)
    BY <2>1 DEF Holds
  <2>3. clock' >= clock
    BY <2>1, BoundsAssumption DEF TypeOK
  <2> QED
    BY <2>1, <2>2, <2>3, Calm
<1> QED
  BY <1>1, <1>2, <1>3, <1>4, ReviewCalm, CrashKeepsWrites DEF Next

LEMMA WriteInvAlways == Spec => [](TypeOK /\ WriteInv)
BY Typing, WriteInvInit, WriteInvNext, PTL DEF Spec

\* OneWritePerPatch: at most one record for a patch, and for an approval.
THEOREM OneWrite == Spec => []OneWritePerPatch
<1>1. TypeOK /\ WriteInv => OneWritePerPatch
  <2> SUFFICES ASSUME TypeOK, WriteInv, NEW r \in ledger, NEW s \in ledger,
                      r.patch = s.patch \/ call[r.call].approval = call[s.call].approval
               PROVE  r.patch = s.patch
    BY DEF OneWritePerPatch, WriteInv, UniqueInv
  <2>1. CASE call[r.call].approval = call[s.call].approval
    <3>1. PICK o \in Operation : For(r.call, o) /\ r.patch = Written(o)
      BY DEF WriteInv, RowInv, RowOK
    <3>2. PICK q \in Operation : For(s.call, q) /\ s.patch = Written(q)
      BY DEF WriteInv, RowInv, RowOK
    <3>3. o = q
      BY <2>1, <3>1, <3>2 DEF For
    <3> QED
      BY <3>1, <3>2, <3>3
  <2> QED
    BY <2>1
<1> QED
  BY <1>1, WriteInvAlways, PTL

\* RevertsArePaired: reverted records and records of compensations pair up.
THEOREM Paired == Spec => []RevertsArePaired
<1>1. WriteInv => RevertsArePaired
  BY DEF WriteInv, PairedInv, RevertsArePaired
<1> QED
  BY <1>1, WriteInvAlways, PTL

\* CallsAreClosed: what a final status of a call means for ledger and approval.
THEOREM Closed == Spec => []CallsAreClosed
<1>1. WriteInv => CallsAreClosed
  BY DEF WriteInv, RowInv, RowOK, CallInv, CallOK, CallsAreClosed
<1> QED
  BY <1>1, WriteInvAlways, PTL

LEMMA NewRecords ==
  ASSUME TypeOK, WriteInv, [Next]_vars,
         NEW r \in ledger', Rows(r.patch) = {}
  PROVE  \E w \in Workers : \/ CommitApply(w) /\ r.patch = work[w].op.patch
                            \/ CommitRevert(w) /\ r.patch = Compensation(work[w].op.patch)
<1>1. ledger' # ledger
  BY DEF Rows
<1>2. PICK w \in Workers : CommitApply(w) \/ CommitRevert(w)
  BY <1>1 DEF Next, Editors, Approve, Crash, Review, Write, SourceMoves, TargetMoves, CompilePatch,
    GrantApproval, ReadSource, FileCandidate, ReadForDecision, CompareBaseline, BuildDecision,
    CommitDecision, CommitReassignment, Abandon, Authorize, StageApply, PersistCompensation,
    StageRevert, WriteRefused, FailureCloseout, vars
<1>3. CASE CommitApply(w)
  <2>1. r = NewRow(work[w].op.patch, work[w].call)
    BY <1>3 DEF CommitApply, Rows
  <2> QED
    BY <1>3, <2>1 DEF NewRow
<1>4. CASE CommitRevert(w)
  <2>1. CASE r = NewRow(Compensation(work[w].op.patch), work[w].call)
    BY <1>4, <2>1 DEF NewRow
  <2>2. CASE \E s \in ledger : r = IF s.patch = work[w].op.patch THEN Retired(s) ELSE s
    BY <2>2 DEF Rows, Retired, TypeOK, Row
  <2> QED
    BY <1>4, <2>1, <2>2 DEF CommitRevert
<1> QED
  BY <1>2, <1>3, <1>4

\* WrittenOnStandingReview: what a write finds at the moment it commits.
THEOREM OnStandingReview == Spec => WrittenOnStandingReview
<1>1. ASSUME TypeOK, WriteInv, [Next]_vars, NEW r \in ledger', Rows(r.patch) = {}
      PROVE  LET f == r.patch.finding IN
             /\ Replay(f.of) = "confirmed"
             /\ Pinned(f.of)
             /\ (f \in target.made) <=> r.patch.undo
             /\ target'.made = IF r.patch.undo THEN target.made \ {f} ELSE target.made \cup {f}
  <2>1. PICK w \in Workers : \/ CommitApply(w) /\ r.patch = work[w].op.patch
                             \/ CommitRevert(w) /\ r.patch = Compensation(work[w].op.patch)
    BY <1>1, NewRecords
  <2>2. PICK p : p = work[w].op.patch
    OBVIOUS
  <2>3. /\ p \in Patch /\ ~p.undo /\ work[w].op \in Operation
        /\ work[w].current => (work[w].op.tool = "apply" <=> p.finding \notin target.made)
    BY <1>1, <2>1, <2>2, HeldCommit DEF CommitApply, CommitRevert
  <2>4. Standing(work[w], p.finding)
    BY <2>1, <2>2 DEF CommitApply, CommitRevert
  <2>5. CASE CommitApply(w) /\ r.patch = p
    <3>1. p.finding \notin target.made /\ target'.made = target.made \cup {p.finding}
      BY <1>1, <2>2, <2>3, <2>4, <2>5 DEF CommitApply, Standing, TypeOK, Target
    <3> QED
      BY <2>3, <2>4, <2>5, <3>1 DEF Standing
  <2>6. CASE CommitRevert(w) /\ r.patch = Compensation(p)
    <3>1. p.finding \in target.made /\ target'.made = target.made \ {p.finding}
      BY <1>1, <2>2, <2>3, <2>4, <2>6 DEF CommitRevert, Standing, TypeOK, Target
    <3>2. r.patch.undo /\ r.patch.finding = p.finding
      BY <2>3, <2>6, Compensations
    <3> QED
      BY <2>4, <3>1, <3>2 DEF Standing
  <2> QED
    BY <2>1, <2>2, <2>5, <2>6
<1>2. TypeOK /\ WriteInv /\ [Next]_vars =>
        \A r \in ledger' :
          Rows(r.patch) = {} =>
            LET f == r.patch.finding IN
            /\ Replay(f.of) = "confirmed"
            /\ Pinned(f.of)
            /\ (f \in target.made) <=> r.patch.undo
            /\ target'.made = IF r.patch.undo THEN target.made \ {f} ELSE target.made \cup {f}
  BY <1>1
<1> QED
  BY <1>2, WriteInvAlways, PTL DEF Spec, WrittenOnStandingReview

-------------------------------------------------------------------------------
(* The decision log.                                                       *)

LEMMA StampInvInit == Init => StampInv
BY DEF Init, StampInv, Idle

LEMMA StampCalm ==
  ASSUME TypeOK, TypeOK', StampInv, UNCHANGED log, clock' >= clock,
         \A v \in Workers : work'[v].step = "commit" => work'[v] = work[v]
  PROVE  StampInv'
<1>1. \A n \in Stamps : n <= clock => n <= clock'
  BY BoundsAssumption DEF TypeOK, Stamps
<1>2. \A n \in Stamps : n > clock' => n > clock
  BY BoundsAssumption DEF TypeOK, Stamps
<1>3. ASSUME NEW v \in Workers, work'[v].step = "commit"
      PROVE  \E from \in Statuses, at \in Stamps :
               /\ work'[v].from = {from} /\ <<from, Leads[work'[v].kind]>> \in Transitions
               /\ work'[v].at = {at} /\ at <= clock'
               /\ \A c \in Candidates : log'[c][at] = {}
  <2>1. work'[v] = work[v] /\ work[v].step = "commit"
    BY <1>3
  <2>2. PICK from \in Statuses, at \in Stamps :
          /\ work[v].from = {from} /\ <<from, Leads[work[v].kind]>> \in Transitions
          /\ work[v].at = {at} /\ at <= clock
          /\ \A c \in Candidates : log[c][at] = {}
    BY <2>1 DEF StampInv
  <2> QED
    BY <1>1, <2>1, <2>2
<1>4. \A v, w \in Workers :
        work'[v].step = "commit" /\ work'[w].step = "commit" /\ work'[v].at = work'[w].at => v = w
  BY DEF StampInv
<1>5. \A c \in Candidates, t \in Stamps : t > clock' => log'[c][t] = {}
  BY <1>2 DEF StampInv
<1> QED
  BY <1>3, <1>4, <1>5 DEF StampInv

\* What a commit adds to the log: one row in a slot that was empty.
LEMMA Committed ==
  ASSUME TypeOK, StampInv, NEW w \in Workers, CommitDecision(w) \/ CommitReassignment(w)
  PROVE  \E c \in Candidates, at \in Stamps : \E row :
           /\ work[w].step = "commit" /\ work[w].at = {at} /\ at <= clock
           /\ c = work[w].on
           /\ Pinned(c) /\ Replay(c) \notin {"superseded", "broken"}
           /\ \A d \in Candidates : log[d][at] = {}
           /\ log' = [log EXCEPT ![c][at] = {row}]
           /\ UNCHANGED clock /\ Goto(w, Idle)
<1>1. work[w].step = "commit" /\ work[w] \in Deciding /\ UNCHANGED clock /\ Goto(w, Idle)
  BY Jobs DEF CommitDecision, CommitReassignment, ReviewSteps
<1>2. PICK from \in work[w].from, at \in work[w].at :
        /\ Admitted(work[w], from)
        /\ log' = [log EXCEPT ![work[w].on][at] = {RowOf(work[w], from)}]
  BY DEF CommitDecision, CommitReassignment
<1>3. PICK f \in Statuses, t \in Stamps :
        /\ work[w].from = {f} /\ <<f, Leads[work[w].kind]>> \in Transitions
        /\ work[w].at = {t} /\ t <= clock
        /\ \A d \in Candidates : log[d][t] = {}
  BY <1>1 DEF StampInv
<1>4. from = f /\ at = t
  BY <1>2, <1>3
<1>5. f \notin {"superseded", "broken"}
  BY <1>3, TransitionsLeaveStatuses
<1>6. Pinned(work[w].on) /\ Replay(work[w].on) = f /\ work[w].on \in Candidates
  BY <1>1, <1>2, <1>4 DEF Admitted, Deciding
<1> QED
  BY <1>1, <1>2, <1>3, <1>4, <1>5, <1>6

LEMMA CommitKeepsStamps ==
  ASSUME TypeOK, TypeOK', StampInv, NEW w \in Workers, CommitDecision(w) \/ CommitReassignment(w)
  PROVE  StampInv'
<1>1. PICK c \in Candidates, at \in Stamps : \E row :
        /\ work[w].step = "commit" /\ work[w].at = {at} /\ at <= clock
        /\ log' = [log EXCEPT ![c][at] = {row}]
        /\ UNCHANGED clock /\ Goto(w, Idle)
  BY Committed
<1>2. \A d \in Candidates, t \in Stamps : t # at => log'[d][t] = log[d][t]
  BY <1>1 DEF TypeOK
<1>3. work'[w] = Idle /\ \A v \in Workers : v # w => work'[v] = work[v]
  BY <1>1 DEF Goto, TypeOK
<1>4. \A v \in Workers : work'[v].step = "commit" => v # w /\ work'[v] = work[v]
  BY <1>3 DEF Idle
<1>5. \A v \in Workers : v # w /\ work[v].step = "commit" => work[v].at # {at}
  BY <1>1 DEF StampInv
<1>6. ASSUME NEW v \in Workers, work'[v].step = "commit"
      PROVE  \E from \in Statuses, t \in Stamps :
               /\ work'[v].from = {from} /\ <<from, Leads[work'[v].kind]>> \in Transitions
               /\ work'[v].at = {t} /\ t <= clock'
               /\ \A d \in Candidates : log'[d][t] = {}
  <2>1. v # w /\ work'[v] = work[v] /\ work[v].step = "commit"
    BY <1>4, <1>6
  <2>2. PICK from \in Statuses, t \in Stamps :
          /\ work[v].from = {from} /\ <<from, Leads[work[v].kind]>> \in Transitions
          /\ work[v].at = {t} /\ t <= clock
          /\ \A d \in Candidates : log[d][t] = {}
    BY <2>1 DEF StampInv
  <2>3. t # at
    BY <1>5, <2>1, <2>2
  <2> QED
    BY <1>1, <1>2, <2>1, <2>2, <2>3
<1>7. \A u, v \in Workers :
        work'[u].step = "commit" /\ work'[v].step = "commit" /\ work'[u].at = work'[v].at => u = v
  BY <1>4 DEF StampInv
<1>8. \A d \in Candidates, t \in Stamps : t > clock' => log'[d][t] = {}
  <2>1. \A t \in Stamps : t > clock => t # at
    BY <1>1, BoundsAssumption DEF TypeOK, Stamps
  <2> QED
    BY <1>1, <1>2, <2>1 DEF StampInv
<1> QED
  BY <1>6, <1>7, <1>8 DEF StampInv

LEMMA BuildKeepsStamps ==
  ASSUME TypeOK, TypeOK', StampInv, NEW w \in Workers, BuildDecision(w)
  PROVE  StampInv'
<1>1. PICK job : job = work[w]
  OBVIOUS
<1>2. job \in Deciding /\ job.step = "build"
  BY <1>1, Jobs DEF BuildDecision, ReviewSteps
<1>3. PICK from, at : from = Replay(job.on) /\ at = clock + 1
  OBVIOUS
<1>4. /\ work' = [work EXCEPT ![w] = [job EXCEPT !.step = "commit", !.from = {from}, !.at = {at}]]
      /\ UNCHANGED log /\ clock' = at /\ clock < MaxStamp
      /\ <<from, Leads[job.kind]>> \in Transitions
  BY <1>1, <1>3 DEF BuildDecision, Goto, review
<1>5. at \in Stamps /\ at > clock /\ from \in Statuses
  BY <1>3, <1>4, TransitionsLeaveStatuses, BoundsAssumption DEF TypeOK, Stamps
<1>6. /\ work'[w].step = "commit" /\ work'[w].kind = job.kind
      /\ work'[w].from = {from} /\ work'[w].at = {at}
      /\ \A v \in Workers : v # w => work'[v] = work[v]
  BY <1>2, <1>4 DEF TypeOK, Deciding
<1>7. ASSUME NEW v \in Workers, work'[v].step = "commit"
      PROVE  \E f \in Statuses, t \in Stamps :
               /\ work'[v].from = {f} /\ <<f, Leads[work'[v].kind]>> \in Transitions
               /\ work'[v].at = {t} /\ t <= clock'
               /\ \A d \in Candidates : log'[d][t] = {}
  <2>1. CASE v = w
    BY <1>4, <1>5, <1>6, <2>1, BoundsAssumption DEF StampInv, Stamps
  <2>2. CASE v # w
    <3>1. PICK f \in Statuses, t \in Stamps :
            /\ work[v].from = {f} /\ <<f, Leads[work[v].kind]>> \in Transitions
            /\ work[v].at = {t} /\ t <= clock
            /\ \A d \in Candidates : log[d][t] = {}
      BY <1>6, <1>7, <2>2 DEF StampInv
    <3>2. t <= clock'
      BY <1>3, <1>4, <3>1, BoundsAssumption DEF TypeOK, Stamps
    <3> QED
      BY <1>4, <1>6, <2>2, <3>1, <3>2
  <2> QED
    BY <2>1, <2>2
<1>8. ASSUME NEW v \in Workers, v # w, work[v].step = "commit" PROVE work[v].at # {at}
  <2>1. PICK t \in Stamps : work[v].at = {t} /\ t <= clock
    BY <1>8 DEF StampInv
  <2>2. t # at
    BY <1>5, <2>1, BoundsAssumption DEF TypeOK, Stamps
  <2> QED
    BY <2>1, <2>2
<1>9. \A u, v \in Workers :
        work'[u].step = "commit" /\ work'[v].step = "commit" /\ work'[u].at = work'[v].at => u = v
  BY <1>6, <1>8 DEF StampInv
<1>10. \A d \in Candidates, t \in Stamps : t > clock' => log'[d][t] = {}
  BY <1>3, <1>4, BoundsAssumption DEF StampInv, TypeOK, Stamps
<1> QED
  BY <1>7, <1>9, <1>10 DEF StampInv

\* The steps that commit no decision: the log stays, and nobody comes to hold a
\* stamp, except by building a decision.
LEMMA OtherStepsKeepStamps ==
  ASSUME TypeOK, TypeOK', StampInv, [Next]_vars,
         ~ \E w \in Workers : CommitDecision(w) \/ CommitReassignment(w)
  PROVE  StampInv' /\ UNCHANGED log
<1>0. clock \in Nat
  BY BoundsAssumption DEF TypeOK
<1>1. ASSUME NEW w \in Workers, NEW job, Goto(w, job), job.step # "commit",
             UNCHANGED log, clock' >= clock
      PROVE  StampInv' /\ UNCHANGED log
  <2>1. work'[w] = job /\ \A v \in Workers : v # w => work'[v] = work[v]
    BY <1>1 DEF Goto, TypeOK
  <2>2. \A v \in Workers : work'[v].step = "commit" => work'[v] = work[v]
    BY <1>1, <2>1
  <2> QED
    BY <1>1, <2>2, StampCalm
<1>2. ASSUME NEW w \in Workers, Review(w) PROVE StampInv' /\ UNCHANGED log
  <2>1. ASSUME NEW kind \in {"class", "tag"}, ReadSource(w, kind) PROVE StampInv' /\ UNCHANGED log
    BY <1>0, <1>1, <2>1 DEF ReadSource, review
  <2>2. ASSUME NEW c \in Candidates, FileCandidate(w, c) PROVE StampInv' /\ UNCHANGED log
    <3>1. Goto(w, Idle) /\ Idle.step # "commit" /\ UNCHANGED log /\ clock' >= clock
      BY <1>0, <2>2 DEF FileCandidate, Idle
    <3> QED
      BY <1>1, <3>1
  <2>3. ASSUME NEW c \in Candidates, NEW kind \in Kinds, ReadForDecision(w, c, kind)
        PROVE StampInv' /\ UNCHANGED log
    BY <1>0, <1>1, <2>3 DEF ReadForDecision, review
  <2>4. ASSUME CompareBaseline(w) PROVE StampInv' /\ UNCHANGED log
    <3>1. work[w] \in Deciding
      BY <2>4, Jobs DEF CompareBaseline, ReviewSteps
    <3>2. PICK b \in Reviewed(work[w].on) :
            Goto(w, [work[w] EXCEPT !.step = "build", !.base = {b}, !.now = {}])
      BY <2>4 DEF CompareBaseline
    <3>3. [work[w] EXCEPT !.step = "build", !.base = {b}, !.now = {}].step # "commit"
      BY <3>1 DEF Deciding
    <3>4. UNCHANGED log /\ clock' >= clock
      BY <1>0, <2>4 DEF CompareBaseline, review
    <3> QED
      BY <1>1, <3>2, <3>3, <3>4
  <2>5. ASSUME BuildDecision(w) PROVE StampInv' /\ UNCHANGED log
    BY <2>5, BuildKeepsStamps DEF BuildDecision, review
  <2>6. ASSUME Abandon(w) PROVE StampInv' /\ UNCHANGED log
    <3>1. Goto(w, Idle) /\ Idle.step # "commit" /\ UNCHANGED log /\ clock' >= clock
      BY <1>0, <2>6 DEF Abandon, Idle, review
    <3> QED
      BY <1>1, <3>1
  <2> QED
    BY <1>2, <2>1, <2>2, <2>3, <2>4, <2>5, <2>6 DEF Review
<1>3. ASSUME NEW w \in Workers, Write(w) PROVE StampInv' /\ UNCHANGED log
  <2>0. ASSUME work[w].step \in WriteSteps PROVE work[w] \in Writing
    BY <2>0, Jobs
  <2>1. ASSUME NEW k \in Calls, NEW a \in Stamps, Authorize(w, k, a)
        PROVE  StampInv' /\ UNCHANGED log
    BY <1>0, <1>1, <2>1 DEF Authorize, review
  <2>2. ASSUME NEW job, Goto(w, job), work[w].step \in WriteSteps,
               \/ job = [work[w] EXCEPT !.step = "write", !.current = TRUE]
               \/ job = [work[w] EXCEPT !.step = "restage"]
               \/ job = [work[w] EXCEPT !.step = "close", !.current = FALSE]
        PROVE  job.step # "commit"
    BY <2>0, <2>2 DEF Writing
  <2>3. ASSUME StageApply(w) \/ PersistCompensation(w) \/ StageRevert(w) \/ WriteRefused(w)
        PROVE  StampInv' /\ UNCHANGED log
    <3>1. work[w].step \in WriteSteps
      BY <2>3 DEF StageApply, PersistCompensation, StageRevert, WriteRefused, WriteSteps
    <3>2. PICK job : /\ Goto(w, job)
                     /\ \/ job = [work[w] EXCEPT !.step = "write", !.current = TRUE]
                        \/ job = [work[w] EXCEPT !.step = "restage"]
                        \/ job = [work[w] EXCEPT !.step = "close", !.current = FALSE]
      BY <2>3 DEF StageApply, PersistCompensation, StageRevert, WriteRefused
    <3>3. UNCHANGED log /\ clock' >= clock
      BY <1>0, <2>3 DEF StageApply, PersistCompensation, StageRevert, WriteRefused, review
    <3> QED
      BY <1>1, <2>2, <3>1, <3>2, <3>3
  <2>4. ASSUME FailureCloseout(w) PROVE StampInv' /\ UNCHANGED log
    <3>1. Goto(w, Idle) /\ Idle.step # "commit" /\ UNCHANGED log /\ clock' >= clock
      BY <1>0, <2>4 DEF FailureCloseout, Idle, review
    <3> QED
      BY <1>1, <3>1
  <2>5. ASSUME CommitApply(w) \/ CommitRevert(w) PROVE StampInv' /\ UNCHANGED log
    <3>1. work' = [Outdated EXCEPT ![w] = Idle] /\ UNCHANGED log /\ clock' >= clock
      BY <1>0, <2>5 DEF CommitApply, CommitRevert, review
    <3>2. ASSUME NEW v \in Workers, work'[v].step = "commit" PROVE work'[v] = work[v]
      <4>1. v # w /\ work'[v] = Outdated[v]
        BY <3>1, <3>2 DEF Outdated, Idle
      <4>2. ~Holds(v)
        BY <3>2, <4>1, Aged DEF Holds, WriteSteps
      <4> QED
        BY <4>1, <4>2, Aged
    <3> QED
      BY <3>1, <3>2, StampCalm
  <2> QED
    BY <1>3, <2>1, <2>3, <2>4, <2>5 DEF Write
<1>4. ASSUME TargetMoves PROVE StampInv' /\ UNCHANGED log
  <2>1. work' = Outdated /\ UNCHANGED log /\ clock' >= clock
    BY <1>0, <1>4 DEF TargetMoves, review
  <2>2. ASSUME NEW v \in Workers, work'[v].step = "commit" PROVE work'[v] = work[v]
    <3>1. ~Holds(v)
      BY <2>1, <2>2, Aged DEF Holds, WriteSteps
    <3> QED
      BY <2>1, <3>1, Aged
  <2> QED
    BY <2>1, <2>2, StampCalm
<1>5. ASSUME SourceMoves \/ Approve PROVE StampInv' /\ UNCHANGED log
  <2>1. UNCHANGED <<log, work>>
    BY <1>5 DEF SourceMoves, Approve, CompilePatch, GrantApproval, review
  <2>2. clock' = clock \/ clock' = clock + 1
    BY <1>5 DEF SourceMoves, Approve, CompilePatch, GrantApproval
  <2>3. clock' >= clock
    BY <1>0, <2>2
  <2> QED
    BY <2>1, <2>3, StampCalm
<1>6. ASSUME Crash PROVE StampInv' /\ UNCHANGED log
  <2>1. UNCHANGED log /\ clock' >= clock /\ \A v \in Workers : work'[v].step # "commit"
    BY <1>0, <1>6 DEF Crash, review, Idle
  <2> QED
    BY <2>1, StampCalm
<1>7. CASE UNCHANGED vars
  <2>1. UNCHANGED <<log, work>> /\ clock' >= clock
    BY <1>0, <1>7 DEF vars, review
  <2> QED
    BY <2>1, StampCalm
<1> QED
  BY <1>2, <1>3, <1>4, <1>5, <1>6, <1>7 DEF Next, Editors

LEMMA StampInvNext == TypeOK /\ TypeOK' /\ StampInv /\ [Next]_vars => StampInv'
BY CommitKeepsStamps, OtherStepsKeepStamps

\* DecidedOnPinnedSource: what a decision finds at the moment it commits, and
\* that nothing but decisions changes the log, which only grows.
THEOREM OnPinnedSource == Spec => DecidedOnPinnedSource
<1>1. ASSUME TypeOK, TypeOK', StampInv, [Next]_vars, NEW c \in Candidates, log[c] # log'[c]
      PROVE  /\ Pinned(c)
             /\ Replay(c) \notin {"superseded", "broken"}
             /\ \A t \in Stamps : log[c][t] \subseteq log'[c][t]
  <2>1. PICK w \in Workers : CommitDecision(w) \/ CommitReassignment(w)
    BY <1>1, OtherStepsKeepStamps
  <2>2. PICK d \in Candidates, at \in Stamps : \E row :
          /\ Pinned(d) /\ Replay(d) \notin {"superseded", "broken"}
          /\ log[d][at] = {}
          /\ log' = [log EXCEPT ![d][at] = {row}]
    BY <1>1, <2>1, Committed
  <2>3. c = d
    BY <1>1, <2>2 DEF TypeOK
  <2>4. \A t \in Stamps : log[c][t] \subseteq log'[c][t]
    BY <1>1, <2>2, <2>3 DEF TypeOK
  <2> QED
    BY <2>2, <2>3, <2>4
<1>2. TypeOK /\ TypeOK' /\ StampInv /\ [Next]_vars =>
        \A c \in Candidates :
          log[c] # log'[c] =>
            /\ Pinned(c)
            /\ Replay(c) \notin {"superseded", "broken"}
            /\ \A t \in Stamps : log[c][t] \subseteq log'[c][t]
  BY <1>1
<1>3. Spec => [](TypeOK /\ StampInv)
  BY Typing, StampInvInit, StampInvNext, PTL DEF Spec
<1> QED
  BY <1>2, <1>3, PTL DEF Spec, DecidedOnPinnedSource

-------------------------------------------------------------------------------
(* Replaying a log.  The induction the replay needs is over the stamps:     *)
(* a set of numbers has a least one, by the library's WFMin, and that is    *)
(* all an induction asks for.                                               *)

\* Numbers are well ordered.
LEMMA Least ==
  ASSUME NEW S \in SUBSET Nat, S # {}
  PROVE  \E m \in S : \A n \in S : m <= n
<1> DEFINE R == OpToRel(<, Nat)
<1>1. \A m, n \in Nat : m < n => <<m, n>> \in R
  BY DEF OpToRel
<1>2. IsWellFoundedOn(R, Nat)
  BY NatLessThanWellFounded
<1> HIDE DEF R
<1>3. PICK m \in S : \A n \in S : ~ (<<n, m>> \in R)
  BY <1>2, WFMin
<1>4. \A n \in S : n \in Nat /\ m \in Nat /\ ~(n < m)
  BY <1>1, <1>3
<1>5. \A n \in S : m <= n
  BY <1>4
<1> QED
  BY <1>3, <1>5

\* Induction on the numbers up to n.
LEMMA UpTo ==
  ASSUME NEW n \in Nat, NEW S, 0 \in S,
         \A i \in 0..n : i # n /\ i \in S => i + 1 \in S
  PROVE  0..n \subseteq S
<1> SUFFICES ASSUME 0..n \ S # {} PROVE FALSE
  OBVIOUS
<1>1. 0..n \ S \in SUBSET Nat
  OBVIOUS
<1>2. PICK m \in 0..n \ S : \A i \in 0..n \ S : m <= i
  BY <1>1, Least
<1>3. m \in Nat /\ m # 0 /\ m \notin S
  BY <1>1, <1>2
<1>4. m - 1 \in 0..n /\ m - 1 # n /\ ~(m <= m - 1) /\ (m - 1) + 1 = m
  BY <1>1, <1>2, <1>3
<1> QED
  BY <1>2, <1>3, <1>4

\* The rows of one candidate, and what reading them may find.
Rowing == [Stamps -> Optional(Decision)]
Findings == Statuses \cup {"broken"}

\* Nothing leaves these.
Final == {"superseded", "broken"}

\* f reads the rows, stamp by stamp.
Reads(rows, f) ==
  /\ f \in [0..MaxStamp -> Findings]
  /\ \A t \in 0..MaxStamp : f[t] = IF t = 0 THEN "needs_review" ELSE After(rows, f[t - 1], t)

LEMMA OneRow ==
  ASSUME NEW rows \in Rowing, NEW t \in Stamps, NEW d \in rows[t]
  PROVE  /\ d \in Decision /\ rows[t] = {d}
         /\ Leads[d.kind] \in Statuses
         /\ \A s : After(rows, s, t) = IF d.from = s /\ <<d.from, Leads[d.kind]>> \in Transitions
                                      THEN Leads[d.kind] ELSE "broken"
<1>1. d \in Decision /\ rows[t] = {d}
  BY DEF Rowing, Optional
<1>2. Leads[d.kind] \in Statuses
  BY <1>1 DEF Decision, Kinds, Leads, Statuses
<1>3. (CHOOSE x \in rows[t] : TRUE) = d
  BY <1>1
<1> QED
  BY <1>1, <1>2, <1>3 DEF After

LEMMA AfterTyped ==
  ASSUME NEW rows \in Rowing, NEW t \in Stamps, NEW s \in Findings
  PROVE  After(rows, s, t) \in Findings
<1>1. CASE rows[t] = {}
  BY <1>1 DEF After
<1>2. ASSUME NEW d \in rows[t] PROVE After(rows, s, t) \in Findings
  BY OneRow DEF Findings
<1> QED
  BY <1>1, <1>2

\* Once retired, or broken, a log stays so whatever rows follow.
LEMMA FinalStays ==
  ASSUME NEW rows \in Rowing, NEW t \in Stamps, NEW s \in Final
  PROVE  After(rows, s, t) \in Final
<1>1. CASE rows[t] = {}
  BY <1>1 DEF After
<1>2. ASSUME NEW d \in rows[t] PROVE After(rows, s, t) \in Final
  BY OneRow, TransitionsLeaveStatuses DEF Final
<1> QED
  BY <1>1, <1>2

\* The rows can be read: what reads them up to n extends to n + 1.
LEMMA RowsAreRead ==
  ASSUME NEW rows \in Rowing
  PROVE  \E f : Reads(rows, f)
<1> DEFINE Read(f, t) == IF t = 0 THEN "needs_review" ELSE After(rows, f[t - 1], t)
           S == {n \in Nat : \E f \in [0..MaxStamp -> Findings] :
                   \A t \in 0..MaxStamp : t <= n => f[t] = Read(f, t)}
<1>1. 0 \in S
  <2>1. [t \in 0..MaxStamp |-> "needs_review"] \in [0..MaxStamp -> Findings]
    BY DEF Findings, Statuses
  <2>2. \A t \in 0..MaxStamp : t <= 0 => t = 0
    BY BoundsAssumption
  <2> QED
    BY <2>1, <2>2
<1>2. ASSUME NEW i \in 0..MaxStamp, i # MaxStamp, i \in S PROVE i + 1 \in S
  <2>1. PICK f \in [0..MaxStamp -> Findings] : \A t \in 0..MaxStamp : t <= i => f[t] = Read(f, t)
    BY <1>2
  <2>2. i + 1 \in Stamps /\ i + 1 \in 0..MaxStamp
    BY <1>2, BoundsAssumption DEF Stamps
  <2>3. PICK v \in Findings : v = After(rows, f[i], i + 1)
    BY <1>2, <2>2, AfterTyped
  <2>4. PICK g \in [0..MaxStamp -> Findings] : g = [f EXCEPT ![i + 1] = v]
    BY <2>3
  <2>5. g[i + 1] = v /\ \A t \in 0..MaxStamp : t # i + 1 => g[t] = f[t]
    BY <2>2, <2>4
  <2>6. ASSUME NEW t \in 0..MaxStamp, t <= i + 1 PROVE g[t] = Read(g, t)
    <3>1. CASE t = i + 1
      <4>1. t # 0 /\ t - 1 = i /\ t - 1 # i + 1 /\ t - 1 \in 0..MaxStamp
        BY <1>2, <3>1, BoundsAssumption
      <4> QED
        BY <2>3, <2>5, <3>1, <4>1
    <3>2. CASE t # i + 1
      <4>1. t <= i /\ (t # 0 => t - 1 # i + 1 /\ t - 1 \in 0..MaxStamp)
        BY <1>2, <2>6, <3>2, BoundsAssumption
      <4> QED
        BY <2>1, <2>5, <3>2, <4>1
    <3> QED
      BY <3>1, <3>2
  <2>7. \E h \in [0..MaxStamp -> Findings] :
          \A t \in 0..MaxStamp : t <= i + 1 => h[t] = Read(h, t)
    BY <2>6
  <2>8. i + 1 \in Nat
    BY BoundsAssumption
  <2> QED
    BY <2>7, <2>8
<1> HIDE DEF S
<1>3. MaxStamp \in S
  <2>1. 0..MaxStamp \subseteq S
    BY <1>1, <1>2, UpTo, BoundsAssumption
  <2> QED
    BY <2>1, BoundsAssumption
<1>4. PICK f \in [0..MaxStamp -> Findings] :
        \A t \in 0..MaxStamp : t <= MaxStamp => f[t] = Read(f, t)
  BY <1>3 DEF S
<1>5. \A t \in 0..MaxStamp : f[t] = Read(f, t)
  BY <1>4, BoundsAssumption
<1> QED
  BY <1>4, <1>5 DEF Reads

\* Two readings of rows that agree up to n agree up to n.
LEMMA ReadingsAgree ==
  ASSUME NEW rows, NEW others, NEW f, NEW g, Reads(rows, f), Reads(others, g),
         NEW n \in 0..MaxStamp, \A t \in Stamps : t <= n => rows[t] = others[t]
  PROVE  \A t \in 0..n : f[t] = g[t]
<1> DEFINE S == {t \in Nat : f[t] = g[t]}
<1>1. 0 \in S
  BY BoundsAssumption DEF Reads
<1>2. ASSUME NEW i \in 0..n, i # n, i \in S PROVE i + 1 \in S
  <2>1. /\ i + 1 \in 0..MaxStamp /\ i + 1 # 0 /\ (i + 1) - 1 = i /\ i + 1 \in Nat
        /\ i + 1 \in Stamps /\ i + 1 <= n
    BY <1>2, BoundsAssumption DEF Stamps
  <2>2. f[i + 1] = After(rows, f[i], i + 1) /\ g[i + 1] = After(others, g[i], i + 1)
    BY <2>1 DEF Reads
  <2>3. rows[i + 1] = others[i + 1]
    BY <2>1
  <2>4. After(rows, f[i], i + 1) = After(others, g[i], i + 1)
    BY <1>2, <2>3 DEF After
  <2> QED
    BY <2>1, <2>2, <2>4
<1> HIDE DEF S
<1>3. 0..n \subseteq S
  BY <1>1, <1>2, UpTo, BoundsAssumption
<1> QED
  BY <1>3 DEF S

\* What Replayed finds is the end of any reading.
LEMMA ReplayIsRead ==
  ASSUME NEW rows \in Rowing, NEW f, Reads(rows, f)
  PROVE  Replayed(rows) = f[MaxStamp]
<1> DEFINE Runs(g) == g = [t \in 0..MaxStamp |->
                             IF t = 0 THEN "needs_review" ELSE After(rows, g[t - 1], t)]
<1>1. Replayed(rows) = (CHOOSE g : Runs(g))[MaxStamp]
  BY DEF Replayed
<1>2. Runs(f)
  BY DEF Reads
<1>3. PICK g : Runs(g) /\ Replayed(rows) = g[MaxStamp]
  BY <1>1, <1>2
<1>4. \A t \in 0..MaxStamp : g[t] = IF t = 0 THEN "needs_review" ELSE After(rows, g[t - 1], t)
  BY <1>3
<1> DEFINE S == {t \in Nat : f[t] = g[t]}
<1>5. 0 \in S
  BY <1>4, BoundsAssumption DEF Reads
<1>6. ASSUME NEW i \in 0..MaxStamp, i # MaxStamp, i \in S PROVE i + 1 \in S
  <2>1. i + 1 \in 0..MaxStamp /\ i + 1 # 0 /\ (i + 1) - 1 = i /\ i + 1 \in Nat
    BY <1>6, BoundsAssumption
  <2>2. f[i + 1] = After(rows, f[i], i + 1) /\ g[i + 1] = After(rows, g[i], i + 1)
    BY <1>4, <2>1 DEF Reads
  <2> QED
    BY <1>6, <2>1, <2>2
<1> HIDE DEF S
<1>7. MaxStamp \in S
  <2>1. 0..MaxStamp \subseteq S
    BY <1>5, <1>6, UpTo, BoundsAssumption
  <2> QED
    BY <2>1, BoundsAssumption
<1> QED
  BY <1>3, <1>7 DEF S

\* A set of findings that a reading enters at t and that no later row leaves
\* is where it ends.
LEMMA StaysToTheEnd ==
  ASSUME NEW rows, NEW f, Reads(rows, f), NEW t \in 0..MaxStamp, NEW F, f[t] \in F,
         \A u \in Stamps : u > t => \A s \in F : After(rows, s, u) \in F
  PROVE  f[MaxStamp] \in F
<1> DEFINE S == {n \in Nat : n >= t => f[n] \in F}
<1>1. 0 \in S /\ t \in Nat /\ t <= MaxStamp
  BY BoundsAssumption
<1>2. ASSUME NEW i \in 0..MaxStamp, i # MaxStamp, i \in S PROVE i + 1 \in S
  <2>1. /\ i + 1 \in 0..MaxStamp /\ i + 1 # 0 /\ (i + 1) - 1 = i /\ i + 1 \in Nat
        /\ i + 1 \in Stamps
        /\ i + 1 >= t => i + 1 = t \/ (i >= t /\ i + 1 > t)
    BY <1>1, <1>2, BoundsAssumption DEF Stamps
  <2>2. f[i + 1] = After(rows, f[i], i + 1)
    BY <2>1 DEF Reads
  <2>3. i + 1 >= t => f[i + 1] \in F
    BY <1>2, <2>1, <2>2
  <2> QED
    BY <2>1, <2>3
<1> HIDE DEF S
<1>3. MaxStamp \in S
  <2>1. 0..MaxStamp \subseteq S
    BY <1>1, <1>2, UpTo, BoundsAssumption
  <2> QED
    BY <2>1, BoundsAssumption
<1> QED
  BY <1>1, <1>3, BoundsAssumption DEF S

\* A candidate with a reassignment anywhere in its log has no other status.
LEMMA RetiredStaysRetired ==
  ASSUME TypeOK, NEW c \in Candidates, NEW t \in Stamps, NEW d \in log[c][t],
         d.kind = "reassign"
  PROVE  Replay(c) \in Final
<1>1. PICK rows \in Rowing : rows = log[c] /\ d \in rows[t]
  BY DEF TypeOK, Rowing
<1>2. PICK f : Reads(rows, f)
  BY RowsAreRead
<1>3. /\ t \in 0..MaxStamp /\ t # 0
  BY BoundsAssumption DEF Stamps
<1>4. f[t] = After(rows, f[t - 1], t)
  BY <1>2, <1>3 DEF Reads
<1>5. f[t] \in Final
  <2>1. Leads[d.kind] = "superseded"
    BY DEF Leads
  <2>2. After(rows, f[t - 1], t) = IF d.from = f[t - 1] /\ <<d.from, Leads[d.kind]>> \in Transitions
                                   THEN Leads[d.kind] ELSE "broken"
    BY <1>1, OneRow
  <2> QED
    BY <1>4, <2>1, <2>2 DEF Final
<1>6. f[MaxStamp] \in Final
  BY <1>2, <1>3, <1>5, FinalStays, StaysToTheEnd
<1> QED
  BY <1>1, <1>2, <1>6, ReplayIsRead DEF Replay

\* A row that leaves what was replayed, put behind all the others, is where
\* the log leads.
LEMMA RowAtTheEnd ==
  ASSUME NEW rows \in Rowing, NEW later \in Rowing, NEW t \in Stamps, NEW d \in later[t],
         \A u \in Stamps : u # t => later[u] = rows[u],
         \A u \in Stamps : u >= t => rows[u] = {},
         d.from = Replayed(rows), <<d.from, Leads[d.kind]>> \in Transitions
  PROVE  Replayed(later) = Leads[d.kind]
<1>1. PICK f, g : Reads(rows, f) /\ Reads(later, g)
  BY RowsAreRead
<1>2. /\ t \in 0..MaxStamp /\ t - 1 \in 0..MaxStamp /\ t # 0 /\ t - 1 \in 0..(t - 1)
      /\ \A u \in Stamps : u <= t - 1 => u # t
      /\ \A u \in Stamps : u > t - 1 => u >= t
      /\ \A u \in Stamps : u > t => u # t /\ u >= t
  BY BoundsAssumption DEF Stamps
<1>3. f[MaxStamp] \in {f[t - 1]}
  <2>1. \A u \in Stamps : u > t - 1 => \A s \in {f[t - 1]} : After(rows, s, u) \in {f[t - 1]}
    BY <1>2 DEF After
  <2> QED
    BY <1>1, <1>2, <2>1, StaysToTheEnd
<1>4. f[t - 1] = g[t - 1]
  <2>1. \A u \in Stamps : u <= t - 1 => rows[u] = later[u]
    BY <1>2
  <2> QED
    BY <1>1, <1>2, <2>1, ReadingsAgree
<1>5. d.from = g[t - 1]
  BY <1>1, <1>3, <1>4, ReplayIsRead
<1>6. g[t] = Leads[d.kind]
  <2>1. g[t] = After(later, g[t - 1], t)
    BY <1>1, <1>2 DEF Reads
  <2> QED
    BY <1>5, <2>1, OneRow
<1>7. g[MaxStamp] \in {Leads[d.kind]}
  <2>1. \A u \in Stamps : u > t => \A s \in {Leads[d.kind]} : After(later, s, u) \in {Leads[d.kind]}
    BY <1>2 DEF After
  <2>2. g[t] \in {Leads[d.kind]}
    BY <1>6
  <2> QED
    BY <1>1, <1>2, <2>1, <2>2, StaysToTheEnd
<1> QED
  BY <1>1, <1>7, ReplayIsRead

-------------------------------------------------------------------------------
(* Successors.                                                             *)

LEMMA CommitStamp ==
  ASSUME StampInv, NEW w \in Workers, work[w].step = "commit",
         NEW from \in work[w].from, NEW at \in work[w].at
  PROVE  /\ at \in Stamps /\ \A d \in Candidates : log[d][at] = {}
         /\ <<from, Leads[work[w].kind]>> \in Transitions
<1>1. PICK f \in Statuses, t \in Stamps :
        /\ work[w].from = {f} /\ <<f, Leads[work[w].kind]>> \in Transitions
        /\ work[w].at = {t} /\ t <= clock
        /\ \A d \in Candidates : log[d][t] = {}
  BY DEF StampInv
<1>2. from = f /\ at = t
  BY <1>1
<1> QED
  BY <1>1, <1>2

\* A decision that is no reassignment leaves the reassignments of every log.
LEMMA DecisionKeepsSuccessors ==
  ASSUME TypeOK, StampInv, OneSuccessor, NEW w \in Workers, CommitDecision(w)
  PROVE  OneSuccessor'
<1>1. PICK c, from, at :
        /\ c = work[w].on /\ from \in work[w].from /\ at \in work[w].at
        /\ log' = [log EXCEPT ![c][at] = {RowOf(work[w], from)}]
  BY DEF CommitDecision
<1>2. /\ work[w].step = "commit" /\ work[w].kind # "reassign"
      /\ UNCHANGED corrected
  BY DEF CommitDecision
<1>3. \A d \in Candidates : log[d][at] = {}
  BY <1>1, <1>2, CommitStamp
<1>4. RowOf(work[w], from).kind # "reassign"
  BY <1>2 DEF RowOf
<1>5. ASSUME NEW d \in Candidates, NEW t \in Stamps
      PROVE  (\E x \in log'[d][t] : x.kind = "reassign") <=>
             (\E x \in log[d][t] : x.kind = "reassign")
  <2>1. \/ log'[d][t] = log[d][t]
        \/ t = at /\ log'[d][t] = {RowOf(work[w], from)}
    BY <1>1 DEF TypeOK
  <2> QED
    BY <1>3, <1>4, <2>1
<1> QED
  BY <1>2, <1>5 DEF OneSuccessor

\* A reassignment commits only where none was, so it is the one.
LEMMA ReassignmentIsFirst ==
  ASSUME TypeOK, StampInv, OneSuccessor, NEW w \in Workers, CommitReassignment(w)
  PROVE  OneSuccessor'
<1>1. /\ work[w].step = "commit" /\ work[w].kind = "reassign"
      /\ work[w] \in Deciding
  BY Jobs DEF CommitReassignment, ReviewSteps
<1>2. PICK c \in Candidates, from \in Statuses, at \in Stamps :
        /\ c = work[w].on /\ from \in work[w].from /\ at \in work[w].at
        /\ Admitted(work[w], from)
        /\ log' = [log EXCEPT ![c][at] = {RowOf(work[w], from)}]
        /\ corrected' = [corrected EXCEPT ![c] = @ \cup {at}]
  <2>1. /\ work[w].on \in Candidates /\ work[w].from \subseteq Statuses
        /\ work[w].at \subseteq Stamps
    BY <1>1 DEF Deciding, Optional
  <2> QED
    BY <2>1 DEF CommitReassignment
<1>3. at \in Stamps /\ \A d \in Candidates : log[d][at] = {}
  BY <1>1, <1>2, CommitStamp
<1>4. Replay(c) \notin Final
  BY Committed, <1>2 DEF Final
<1>5. \A t \in Stamps : \A d \in log[c][t] : d.kind # "reassign"
  BY <1>4, RetiredStaysRetired
<1>6. corrected[c] = {}
  BY <1>5 DEF OneSuccessor
<1>7. corrected' = [corrected EXCEPT ![c] = {at}]
  BY <1>2, <1>6
<1>8. RowOf(work[w], from).kind = "reassign"
  BY <1>1 DEF RowOf
<1>9. ASSUME NEW d \in Candidates
      PROVE  /\ corrected'[d] = {t \in Stamps : \E x \in log'[d][t] : x.kind = "reassign"}
             /\ \A t, u \in corrected'[d] : t = u
  <2>1. CASE d = c
    <3>1. \A t \in Stamps : log'[c][t] = IF t = at THEN {RowOf(work[w], from)} ELSE log[c][t]
      BY <1>2 DEF TypeOK
    <3>2. \A t \in Stamps : (\E x \in log'[c][t] : x.kind = "reassign") <=> t = at
      BY <1>5, <1>8, <3>1
    <3>3. corrected'[c] = {at}
      BY <1>7 DEF TypeOK
    <3> QED
      BY <1>3, <2>1, <3>2, <3>3
  <2>2. CASE d # c
    BY <1>2, <1>7, <2>2 DEF TypeOK, OneSuccessor
  <2> QED
    BY <2>1, <2>2
<1> QED
  BY <1>9 DEF OneSuccessor

LEMMA SuccessorsNext ==
  TypeOK /\ TypeOK' /\ StampInv /\ OneSuccessor /\ [Next]_vars => OneSuccessor'
<1> SUFFICES ASSUME TypeOK, TypeOK', StampInv, OneSuccessor, [Next]_vars PROVE OneSuccessor'
  OBVIOUS
<1>1. CASE \E w \in Workers : CommitDecision(w) \/ CommitReassignment(w)
  BY <1>1, DecisionKeepsSuccessors, ReassignmentIsFirst
<1>2. CASE ~ \E w \in Workers : CommitDecision(w) \/ CommitReassignment(w)
  <2>1. UNCHANGED log
    BY <1>2, OtherStepsKeepStamps
  <2>2. UNCHANGED corrected
    BY <1>2 DEF Next, Editors, Approve, Crash, Review, Write, SourceMoves, TargetMoves, CompilePatch,
      GrantApproval, ReadSource, FileCandidate, ReadForDecision, CompareBaseline, BuildDecision,
      Abandon, Authorize, StageApply, PersistCompensation, StageRevert, CommitApply, CommitRevert,
      WriteRefused, FailureCloseout, vars, review
  <2> QED
    BY <2>1, <2>2 DEF OneSuccessor
<1> QED
  BY <1>1, <1>2

\* OneSuccessor: a superseded candidate has one replacement, whoever raced to
\* file another.
THEOREM Successor == Spec => []OneSuccessor
<1>1. Init => OneSuccessor
  <2> SUFFICES ASSUME Init, NEW c \in Candidates
               PROVE  /\ corrected[c] = {t \in Stamps : \E d \in log[c][t] : d.kind = "reassign"}
                      /\ \A t, u \in corrected[c] : t = u
    BY DEF OneSuccessor
  <2>1. corrected[c] = {} /\ \A t \in Stamps : log[c][t] = {}
    BY DEF Init
  <2> QED
    BY <2>1
<1> QED
  BY <1>1, Typing, StampInvInit, NextTyped, StampInvNext, SuccessorsNext, PTL DEF Spec

\* InOrderDecisionsCount: no row behind it, a decision moves its candidate to
\* where it leads, whatever was read when it was built.
THEOREM InOrder == Spec => InOrderDecisionsCount
<1>1. ASSUME TypeOK, TypeOK', StampInv, [Next]_vars,
             NEW c \in Candidates, NEW t \in Stamps, log[c][t] = {}, log'[c][t] # {},
             \A u \in Stamps : u > t => log[c][u] = {},
             NEW d \in log'[c][t]
      PROVE  Replay(c)' = Leads[d.kind]
  <2>1. PICK w \in Workers : CommitDecision(w) \/ CommitReassignment(w)
    BY <1>1, OtherStepsKeepStamps
  <2>2. PICK e, from, at :
          /\ e = work[w].on /\ from \in work[w].from /\ at \in work[w].at
          /\ work[w].step = "commit" /\ Admitted(work[w], from)
          /\ log' = [log EXCEPT ![e][at] = {RowOf(work[w], from)}]
    BY <2>1 DEF CommitDecision, CommitReassignment
  <2>3. <<from, Leads[work[w].kind]>> \in Transitions
    BY <1>1, <2>2, CommitStamp
  <2>4. e = c /\ at = t
    BY <1>1, <2>2 DEF TypeOK
  <2>5. PICK rows \in Rowing, later \in Rowing : rows = log[c] /\ later = log'[c]
    BY <1>1 DEF TypeOK, Rowing
  <2>6. later[t] = {RowOf(work[w], from)} /\ \A u \in Stamps : u # t => later[u] = rows[u]
    BY <1>1, <2>2, <2>4, <2>5 DEF TypeOK
  <2>7. /\ d \in later[t] /\ d = RowOf(work[w], from)
        /\ d.kind = work[w].kind /\ d.from = from
    BY <1>1, <2>5, <2>6 DEF RowOf
  <2>8. \A u \in Stamps : u >= t => rows[u] = {}
    <3>1. \A u \in Stamps : u >= t => u = t \/ u > t
      BY BoundsAssumption DEF Stamps
    <3> QED
      BY <1>1, <2>5, <3>1
  <2>9. d.from = Replayed(rows)
    BY <2>2, <2>4, <2>5, <2>7 DEF Admitted, Replay
  <2>10. Replayed(later) = Leads[d.kind]
    BY <2>3, <2>6, <2>7, <2>8, <2>9, RowAtTheEnd
  <2> QED
    BY <2>5, <2>10 DEF Replay
<1>2. TypeOK /\ TypeOK' /\ StampInv /\ [Next]_vars =>
        \A c \in Candidates, t \in Stamps :
          /\ log[c][t] = {} /\ log'[c][t] # {}
          /\ \A u \in Stamps : u > t => log[c][u] = {}
          => \A d \in log'[c][t] : Replay(c)' = Leads[d.kind]
  BY <1>1
<1> QED
  BY <1>2, Typing, StampInvInit, NextTyped, StampInvNext, PTL DEF Spec, InOrderDecisionsCount
===============================================================================
