-------------------------- MODULE AgentHarnessProofs --------------------------
(***************************************************************************)
(* Proofs about AgentHarness, for any number of drawings, sessions,        *)
(* approvals, tool calls and requests at a time, and any intents.          *)
(***************************************************************************)
EXTENDS AgentHarness, TLAPS

-------------------------------------------------------------------------------
(* Types.                                                                  *)

Steps == {"refuse", "prepare", "apply", "save", "close", "fail", "done", "complete"}

\* TypeOK is inductive once rows are known to be there when they are needed:
\* what a request holds, and what the keys of a call refer to.
Sound(job) ==
  /\ job.step = "resolve" => approval[job.approval] # Absent
  /\ job.step = "judge" => session[job.session] # Absent
  /\ job.step \in Steps => call[job.call] # Absent
  /\ job.step = "save" => \E r \in Revisions : job.base = {r} /\ r < MaxRevision

Linked(c) ==
  /\ session[call[c].session] # Absent
  /\ \A a \in call[c].approval : approval[a] # Absent

Typed ==
  /\ TypeOK
  /\ \A w \in Workers : Sound(work[w])
  /\ \A c \in Calls : call[c] # Absent => Linked(c)

\* A row that is there has the fields of its table.
LEMMA Rows ==
  ASSUME TypeOK
  PROVE  /\ \A s \in Sessions : session[s] # Absent => session[s] \in Session
         /\ \A a \in Approvals : approval[a] # Absent => approval[a] \in Approval
         /\ \A c \in Calls : call[c] # Absent => call[c] \in Call
BY DEF TypeOK

LEMMA NeverAbsent ==
  /\ \A x \in Session : x # Absent /\ x.status # "absent"
  /\ \A x \in Approval : x # Absent /\ x.status # "absent"
  /\ \A x \in Call : x # Absent /\ x.status # "absent"
BY DEF Session, Approval, Call, Absent

\* The step of a request tells what it holds.
LEMMA Jobs ==
  ASSUME TypeOK, NEW w \in Workers
  PROVE  /\ work[w].step = "resolve" => work[w] \in Resolving
         /\ work[w].step = "judge" => work[w] \in Opened
         /\ work[w].step \in Steps => work[w] \in Executing
         /\ work[w].step = "idle" => work[w] = Idle
         /\ work[w] = Idle => work[w].step = "idle"
BY DEF TypeOK, Resolving, Opened, Executing, Idle, Steps

\* What an intent is about.
LEMMA IntentFields ==
  ASSUME NEW i \in Intents
  PROVE  i.tool \in Tools /\ i.doc \in Docs /\ i.expects \in Optional(Revisions)
BY IntentsAssumption

\* A request that executes a call: the call, its drawing and its session.
LEMMA Executed ==
  ASSUME Typed, NEW w \in Workers, work[w].step \in Steps
  PROVE  /\ work[w] \in Executing
         /\ work[w].call \in Calls
         /\ call[work[w].call] \in Call
         /\ call[work[w].call].session \in Sessions
         /\ session[call[work[w].call].session] \in Session
         /\ IntentOf(work[w].call) \in Intents
         /\ DocOf(work[w].call) \in Docs
         /\ Now(work[w].call) \in Revisions
<1>1. work[w] \in Executing /\ work[w].call \in Calls
  BY Jobs DEF Typed, Executing
<1>2. call[work[w].call] \in Call
  BY <1>1, Rows DEF Typed, Sound
<1>3. call[work[w].call].session \in Sessions /\ IntentOf(work[w].call) \in Intents
  BY <1>2 DEF Call, IntentOf
<1>4. session[call[work[w].call].session] \in Session
  BY <1>1, <1>2, <1>3, Rows, NeverAbsent DEF Typed, Linked
<1>5. DocOf(work[w].call) \in Docs
  BY <1>3, IntentFields DEF DocOf
<1>6. Now(work[w].call) \in Revisions
  BY <1>5 DEF Now, Typed, TypeOK
<1> QED
  BY <1>1, <1>2, <1>3, <1>4, <1>5, <1>6

LEMMA InitTyped == Init => Typed
<1> SUFFICES ASSUME Init PROVE Typed
  OBVIOUS
<1>1. 0 \in Revisions
  BY MaxRevisionAssumption DEF Revisions
<1>2. TypeOK
  BY <1>1 DEF Init, TypeOK
<1>3. \A w \in Workers : Sound(work[w])
  BY DEF Init, Sound, Idle, Steps
<1> QED
  BY <1>2, <1>3 DEF Typed, Init

\* The rows a step leaves behind it stay, and so does what every other request
\* holds: it is enough to look at the request that moves.
RowsStay ==
  /\ \A s \in Sessions : session[s] # Absent => session'[s] # Absent
  /\ \A a \in Approvals : approval[a] # Absent => approval'[a] # Absent
  /\ \A c \in Calls : call[c] # Absent =>
       /\ call'[c] # Absent
       /\ call'[c].session = call[c].session
       /\ call'[c].approval = call[c].approval

\* A call that appears refers to rows that are there.
NewCallsLinked == \A c \in Calls : call'[c] # Absent /\ call[c] = Absent => Linked(c)'

LEMMA LinkedStays ==
  ASSUME Typed, RowsStay, NewCallsLinked
  PROVE  \A c \in Calls : call'[c] # Absent => Linked(c)'
<1> SUFFICES ASSUME NEW c \in Calls, call'[c] # Absent, call[c] # Absent PROVE Linked(c)'
  BY DEF NewCallsLinked
<1>1. Linked(c) /\ call[c].session \in Sessions /\ call[c].approval \subseteq Approvals
  BY Rows DEF Typed, Call, Optional
<1> QED
  BY <1>1 DEF Linked, RowsStay

LEMMA SoundStays ==
  ASSUME Typed, RowsStay, NEW w \in Workers, work'[w] = work[w]
  PROVE  Sound(work[w])'
<1>1. Sound(work[w])
  BY DEF Typed
<1>2. /\ work[w].step = "resolve" => work[w].approval \in Approvals
      /\ work[w].step = "judge" => work[w].session \in Sessions
      /\ work[w].step \in Steps => work[w].call \in Calls
  BY Jobs DEF Typed, Resolving, Opened, Executing
<1> QED
  BY <1>1, <1>2 DEF Sound, RowsStay

\* Sound, of what a request holds after a step.
SoundNext(job) ==
  /\ job.step = "resolve" => approval'[job.approval] # Absent
  /\ job.step = "judge" => session'[job.session] # Absent
  /\ job.step \in Steps => call'[job.call] # Absent
  /\ job.step = "save" => \E r \in Revisions : job.base = {r} /\ r < MaxRevision

\* A step of one request.
LEMMA OneMoves ==
  ASSUME Typed, RowsStay, NEW w \in Workers, NEW job, Goto(w, job),
         TypeOK', SoundNext(job),
         NewCallsLinked
  PROVE  Typed'
<1>1. work'[w] = job /\ \A v \in Workers : v # w => work'[v] = work[v]
  BY DEF Goto, Typed, TypeOK
<1>2. Sound(work[w])'
  BY <1>1 DEF Sound, SoundNext
<1>3. ASSUME NEW v \in Workers PROVE Sound(work[v])'
  <2>1. CASE v = w
    BY <1>2, <2>1
  <2>2. CASE v # w
    BY <1>1, <2>2, SoundStays
  <2> QED
    BY <2>1, <2>2
<1> QED
  BY <1>3, LinkedStays DEF Typed

\* A step of one request that leaves the tables alone.
LEMMA OneMovesAlone ==
  ASSUME Typed, NEW w \in Workers, NEW job, Goto(w, job), UNCHANGED <<tables, granted>>,
         job \in Resolving \cup Opened \cup Executing \cup {Idle}, Sound(job)
  PROVE  Typed'
<1>1. RowsStay
  BY DEF RowsStay, tables
<1>2. TypeOK'
  BY DEF Typed, TypeOK, Goto, tables
<1>3. SoundNext(job)
  BY DEF Sound, SoundNext, tables
<1>4. NewCallsLinked
  BY DEF NewCallsLinked, tables
<1> QED
  BY <1>1, <1>2, <1>3, <1>4, OneMoves

\* A step of the environment.
LEMMA NoneMoves ==
  ASSUME Typed, RowsStay, TypeOK', UNCHANGED work,
         NewCallsLinked
  PROVE  Typed'
BY SoundStays, LinkedStays DEF Typed

LEMMA EnvironmentTyped == Typed /\ Environment => Typed'
<1> SUFFICES ASSUME Typed, Environment PROVE Typed'
  OBVIOUS
<1>1. ASSUME NEW d \in Docs, EditElsewhere(d) PROVE Typed'
  <2>1. RowsStay
    BY <1>1 DEF RowsStay, EditElsewhere
  <2>2. revision[d] + 1 \in Revisions
    BY <1>1, MaxRevisionAssumption DEF EditElsewhere, Typed, TypeOK, Revisions
  <2>3. TypeOK'
    BY <1>1, <2>2 DEF Typed, TypeOK, EditElsewhere
  <2> QED
    BY <1>1, <2>1, <2>3, NoneMoves DEF EditElsewhere, NewCallsLinked
<1>2. ASSUME NEW s \in Sessions, NEW d \in Docs, CreateSession(s, d) PROVE Typed'
  <2> DEFINE new == [status |-> "active", doc |-> d, end |-> {}]
  <2>1. new \in Session /\ new # Absent
    BY NeverAbsent DEF Session, Optional
  <2>2. RowsStay
    BY <1>2, <2>1 DEF RowsStay, CreateSession, Typed, TypeOK
  <2>3. TypeOK'
    BY <1>2, <2>1 DEF Typed, TypeOK, CreateSession
  <2> QED
    BY <1>2, <2>2, <2>3, NoneMoves DEF CreateSession, NewCallsLinked
<1>3. ASSUME NEW s \in Sessions, NEW whole \in {"whole", "partial"},
             RecordSynthesisProposal(s, whole)
      PROVE  Typed'
  <2>1. RowsStay
    BY <1>3 DEF RowsStay, RecordSynthesisProposal
  <2>2. TypeOK'
    BY <1>3 DEF Typed, TypeOK, RecordSynthesisProposal
  <2> QED
    BY <1>3, <2>1, <2>2, NoneMoves DEF RecordSynthesisProposal, NewCallsLinked
<1>4. ASSUME NEW a \in Approvals, NEW s \in Sessions, NEW i \in Intents,
             RequestApproval(a, s, i)
      PROVE  Typed'
  <2> DEFINE new == [status |-> "pending", session |-> s, intent |-> i]
  <2>1. new \in Approval /\ new # Absent
    BY NeverAbsent DEF Approval
  <2>2. RowsStay
    BY <1>4, <2>1 DEF RowsStay, RequestApproval, Typed, TypeOK
  <2>3. TypeOK'
    BY <1>4, <2>1 DEF Typed, TypeOK, RequestApproval
  <2> QED
    BY <1>4, <2>2, <2>3, NoneMoves DEF RequestApproval, NewCallsLinked
<1> QED
  BY <1>1, <1>2, <1>3, <1>4 DEF Environment

LEMMA ResolverTyped ==
  ASSUME Typed, NEW w \in Workers,
         \/ \E a \in Approvals, verdict \in {"approved", "rejected"} : ReadPending(w, a, verdict)
         \/ WriteVerdict(w)
  PROVE  Typed'
<1>1. ASSUME NEW a \in Approvals, NEW verdict \in {"approved", "rejected"},
             ReadPending(w, a, verdict)
      PROVE  Typed'
  <2> DEFINE job == [step |-> "resolve", approval |-> a, to |-> verdict]
  <2>1. job \in Resolving
    BY DEF Resolving
  <2>2. approval[a] # Absent
    BY <1>1 DEF ReadPending, Absent
  <2>3. Sound(job)
    BY <2>2 DEF Sound, Steps
  <2> HIDE DEF job
  <2>4. Goto(w, job) /\ UNCHANGED <<tables, granted>>
    BY <1>1 DEF ReadPending, job
  <2> QED
    BY <2>1, <2>3, <2>4, OneMovesAlone
<1>2. CASE WriteVerdict(w)
  <2> DEFINE a == work[w].approval
             row == [approval[a] EXCEPT !.status = work[w].to]
  <2>1. work[w] \in Resolving /\ a \in Approvals /\ work[w].to \in {"approved", "rejected"}
    BY <1>2, Jobs DEF WriteVerdict, Typed, Resolving
  <2>2. approval[a] \in Approval
    BY <1>2, <2>1, Rows DEF WriteVerdict, Typed, Sound
  <2>3. row \in Approval /\ row # Absent
    BY <2>1, <2>2, NeverAbsent DEF Approval
  <2>4. approval' = [approval EXCEPT ![a] = row]
    BY <1>2, <2>1 DEF WriteVerdict, Typed, TypeOK
  <2>5. approval' \in [Approvals -> Approval \cup {Absent}]
    BY <2>3, <2>4 DEF Typed, TypeOK
  <2>6. RowsStay
    BY <1>2, <2>1, <2>3, <2>4 DEF RowsStay, WriteVerdict, Typed, TypeOK
  <2>7. granted' \subseteq Approvals
    BY <1>2, <2>1 DEF WriteVerdict, Typed, TypeOK
  <2>8. Goto(w, Idle)
    BY <1>2 DEF WriteVerdict
  <2>9. TypeOK'
    BY <1>2, <2>5, <2>7, <2>8 DEF WriteVerdict, Typed, TypeOK, Goto
  <2>10. SoundNext(Idle)
    BY DEF SoundNext, Idle, Steps
  <2>11. NewCallsLinked
    BY <1>2 DEF WriteVerdict, NewCallsLinked
  <2> QED
    BY <2>6, <2>8, <2>9, <2>10, <2>11, OneMoves
<1> QED
  BY <1>1, <1>2

\* A row of agent_tool_calls appears, and the request goes on to execute it.
LEMMA NewCallTyped ==
  ASSUME Typed, NEW w \in Workers, NEW c \in Calls, NEW status \in {"running", "rejected"},
         NEW job \in Opened, work[w] = job,
         NEW ref \in Optional(Approvals), \A a \in ref : approval[a] # Absent,
         NewCall(c, status, job, ref),
         NEW next \in Executing, next.call = c, next.step \in Steps \ {"save"},
         Goto(w, next),
         UNCHANGED <<revision, session, approval, proposal, chain, granted>>
  PROVE  Typed'
<1> DEFINE row == [status |-> status, session |-> job.session, intent |-> job.intent,
                   approval |-> ref, result |-> {}]
<1>1. job.session \in Sessions /\ job.intent \in Intents /\ job.step = "judge"
  BY DEF Opened
<1>2. row \in Call /\ row # Absent
  BY <1>1, NeverAbsent DEF Call, Optional
<1>3. session[job.session] # Absent
  BY <1>1 DEF Typed, Sound
<1>4. call' = [call EXCEPT ![c] = row] /\ call[c] = Absent
  BY DEF NewCall
<1>5. RowsStay
  BY <1>2, <1>4 DEF RowsStay, Typed, TypeOK
<1>6. TypeOK'
  BY <1>2, <1>4 DEF Typed, TypeOK, Goto
<1>7. SoundNext(next)
  BY <1>2, <1>4 DEF SoundNext, Typed, TypeOK, Steps
<1>8. NewCallsLinked
  BY <1>3, <1>4 DEF NewCallsLinked, Linked, Typed, TypeOK
<1> QED
  BY <1>5, <1>6, <1>7, <1>8, OneMoves

LEMMA AuthorizeTyped ==
  ASSUME Typed, NEW w \in Workers,
         \/ \E s \in Sessions, i \in Intents, ref \in Optional(Approvals),
               surface \in {"rest", "mcp"} : Open(w, s, i, ref, surface)
         \/ \E c \in Calls : Authorize(w, c) \/ Deny(w, c)
         \/ DenyUnrecorded(w) \/ AuditDenial(w)
  PROVE  Typed'
<1>1. ASSUME NEW s \in Sessions, NEW i \in Intents, NEW ref \in Optional(Approvals),
             NEW surface \in {"rest", "mcp"}, Open(w, s, i, ref, surface)
      PROVE  Typed'
  <2> DEFINE job == [step |-> "judge", session |-> s, intent |-> i,
                     approval |-> ref, surface |-> surface]
  <2>1. job \in Opened
    BY DEF Opened
  <2>2. session[s] # Absent
    BY <1>1 DEF Open, Absent
  <2>3. Sound(job)
    BY <2>2 DEF Sound, Steps
  <2> HIDE DEF job
  <2>4. Goto(w, job) /\ UNCHANGED <<tables, granted>>
    BY <1>1 DEF Open, job
  <2> QED
    BY <2>1, <2>3, <2>4, OneMovesAlone
<1>2. ASSUME NEW c \in Calls, Authorize(w, c) PROVE Typed'
  <2> DEFINE job == work[w]
             first == IF job.intent.tool = "compiled" THEN "apply" ELSE "prepare"
             next == Execute(first, c, job.surface, job.intent.expects, {})
  <2>1. job \in Opened
    BY <1>2, Jobs DEF Authorize, Typed
  <2>2. job.approval \in Optional(Approvals) /\ job.intent \in Intents
    BY <2>1 DEF Opened
  <2>3. Carried(job) \in Optional(Approvals) /\ \A a \in Carried(job) : approval[a] # Absent
    BY <1>2, <2>2 DEF Authorize, Carried, Optional, Permitted, Covers
  <2>4. next \in Executing /\ next.call = c /\ next.step \in Steps \ {"save"}
    BY <2>1, <2>2, IntentFields DEF Executing, Execute, Opened, Optional, Steps
  <2>5. NewCall(c, "running", job, Carried(job)) /\ Goto(w, next)
    BY <1>2 DEF Authorize
  <2>6. UNCHANGED <<revision, session, approval, proposal, chain, granted>>
    BY <1>2 DEF Authorize
  <2> HIDE DEF next, job
  <2> QED
    BY <2>1, <2>3, <2>4, <2>5, <2>6, NewCallTyped DEF job
<1>3. ASSUME NEW c \in Calls, Deny(w, c) PROVE Typed'
  <2> DEFINE job == work[w]
             next == Execute("refuse", c, job.surface, {}, {})
  <2>1. job \in Opened
    BY <1>3, Jobs DEF Deny, Typed
  <2>2. job.approval \in Optional(Approvals) /\ \A a \in job.approval : approval[a] # Absent
    BY <1>3, <2>1 DEF Opened, Deny, Named
  <2>3. next \in Executing /\ next.call = c /\ next.step \in Steps \ {"save"}
    BY <2>1 DEF Executing, Execute, Opened, Optional, Steps
  <2>4. NewCall(c, "rejected", job, job.approval) /\ Goto(w, next)
    BY <1>3 DEF Deny
  <2>5. UNCHANGED <<revision, session, approval, proposal, chain, granted>>
    BY <1>3 DEF Deny
  <2> HIDE DEF next, job
  <2> QED
    BY <2>1, <2>2, <2>3, <2>4, <2>5, NewCallTyped DEF job
<1>4. CASE DenyUnrecorded(w)
  <2>1. Sound(Idle)
    BY DEF Sound, Idle, Steps
  <2> QED
    BY <1>4, <2>1, OneMovesAlone DEF DenyUnrecorded
<1>5. CASE AuditDenial(w)
  <2>1. work[w].call \in Calls
    BY <1>5, Executed DEF AuditDenial, Steps
  <2>2. RowsStay
    BY <1>5 DEF RowsStay, AuditDenial
  <2>3. [kind |-> "refused", call |-> work[w].call, rev |-> {}] \in Event
    BY <2>1 DEF Event, Optional
  <2>4. TypeOK'
    BY <1>5, <2>3 DEF AuditDenial, Typed, TypeOK, Goto
  <2>5. SoundNext(Idle)
    BY DEF SoundNext, Idle, Steps
  <2>6. NewCallsLinked
    BY <1>5 DEF AuditDenial, NewCallsLinked
  <2> QED
    BY <1>5, <2>2, <2>4, <2>5, <2>6, OneMoves DEF AuditDenial
<1> QED
  BY <1>1, <1>2, <1>3, <1>4, <1>5

LEMMA SoundIdle == Sound(Idle) /\ SoundNext(Idle)
BY DEF Sound, SoundNext, Idle, Steps

\* The same call, at a next step that needs nothing more.
LEMMA ProceedTyped ==
  ASSUME Typed, NEW w \in Workers, work[w].step \in Steps,
         NEW step \in Steps \ {"save"}, Proceed(w, step)
  PROVE  \E job \in Executing :
           /\ job.call = work[w].call /\ job.step = step
           /\ Goto(w, job) /\ Sound(job)
           /\ (call'[job.call] # Absent => SoundNext(job))
<1> DEFINE job == [work[w] EXCEPT !.step = step]
<1>1. work[w] \in Executing /\ call[work[w].call] # Absent
  BY Executed, NeverAbsent
<1>2. job \in Executing /\ job.call = work[w].call /\ job.step = step
  BY <1>1 DEF Executing, Steps
<1>3. Goto(w, job)
  BY DEF Proceed
<1> HIDE DEF job
<1>4. Sound(job) /\ (call'[job.call] # Absent => SoundNext(job))
  BY <1>1, <1>2 DEF Sound, SoundNext, Steps
<1> QED
  BY <1>2, <1>3, <1>4

LEMMA ToolTyped ==
  ASSUME Typed, NEW w \in Workers,
         \/ Prepared(w) \/ CompileInvalid(w) \/ LayoutConflict(w) \/ NothingToApply(w)
         \/ Stage(w) \/ StageRefused(w) \/ SaveConflict(w)
  PROVE  Typed'
<1>1. ASSUME Prepared(w) \/ NothingToApply(w) PROVE Typed'
  <2>1. PICK step \in {"apply", "done"} :
          Goto(w, [work[w] EXCEPT !.step = step, !.pin = {Now(work[w].call)}])
    BY <1>1 DEF Prepared, NothingToApply
  <2>2. work[w].step \in Steps /\ UNCHANGED <<tables, granted>>
    BY <1>1 DEF Prepared, NothingToApply, Steps
  <2>3. /\ work[w] \in Executing /\ call[work[w].call] # Absent
        /\ Now(work[w].call) \in Revisions
    BY <2>2, Executed, NeverAbsent
  <2> DEFINE job == [work[w] EXCEPT !.step = step, !.pin = {Now(work[w].call)}]
  <2>4. job \in Executing /\ job.call = work[w].call /\ job.step = step
    BY <2>3 DEF Executing, Optional
  <2> HIDE DEF job
  <2>5. Sound(job)
    BY <2>3, <2>4 DEF Sound, Steps
  <2> QED
    BY <2>1, <2>2, <2>4, <2>5, OneMovesAlone DEF job
<1>2. ASSUME CompileInvalid(w) \/ StageRefused(w) \/ SaveConflict(w) PROVE Typed'
  <2>1. PICK step \in {"fail", "close"} : Proceed(w, step)
    BY <1>2 DEF CompileInvalid, StageRefused, SaveConflict
  <2>2. work[w].step \in Steps /\ UNCHANGED <<tables, granted>>
    BY <1>2 DEF CompileInvalid, StageRefused, SaveConflict, Steps
  <2>3. step \in Steps \ {"save"}
    BY DEF Steps
  <2>4. PICK job \in Executing : Goto(w, job) /\ Sound(job)
    BY <2>1, <2>2, <2>3, ProceedTyped
  <2> QED
    BY <2>2, <2>4, OneMovesAlone
<1>3. CASE LayoutConflict(w)
  BY <1>3, SoundIdle, OneMovesAlone DEF LayoutConflict
<1>4. CASE Stage(w)
  <2>1. work[w].step \in Steps /\ UNCHANGED <<tables, granted>>
    BY <1>4 DEF Stage, Steps
  <2>2. /\ work[w] \in Executing /\ call[work[w].call] # Absent
        /\ Now(work[w].call) \in Revisions /\ Now(work[w].call) < MaxRevision
    BY <1>4, <2>1, Executed, NeverAbsent DEF Stage
  <2> DEFINE job == [work[w] EXCEPT !.step = "save", !.base = {Now(work[w].call)}]
  <2>3. /\ job \in Executing /\ job.call = work[w].call
        /\ job.step = "save" /\ job.base = {Now(work[w].call)}
    BY <2>2 DEF Executing, Optional
  <2>4. Goto(w, job)
    BY <1>4 DEF Stage
  <2> HIDE DEF job
  <2>5. Sound(job)
    BY <2>2, <2>3 DEF Sound, Steps
  <2> QED
    BY <2>1, <2>3, <2>4, <2>5, OneMovesAlone
<1> QED
  BY <1>1, <1>2, <1>3, <1>4

LEMMA ClosingTyped ==
  ASSUME Typed, NEW w \in Workers,
         \/ CompleteToolCall(w) \/ CompleteSession(w) \/ Save(w)
         \/ RecordFailure(w) \/ FailToolCall(w)
  PROVE  Typed'
<1> DEFINE c == work[w].call
           s == call[c].session
<1>1. work[w].step \in Steps
  BY DEF CompleteToolCall, CompleteSession, Save, RecordFailure, FailToolCall, Steps
<1>2. /\ work[w] \in Executing /\ c \in Calls /\ call[c] \in Call
      /\ s \in Sessions /\ session[s] \in Session
      /\ DocOf(c) \in Docs /\ Now(c) \in Revisions
  BY <1>1, Executed
<1>3. work[w].pin \in Optional(Revisions)
  BY <1>2 DEF Executing
<1> HIDE DEF c, s
\* The row of the call, closed.
<1>4. ASSUME NEW status \in {"completed", "failed"}, NEW result \in Optional(Revisions),
             \/ call' = [call EXCEPT ![c].status = status, ![c].result = result]
             \/ call' = [call EXCEPT ![c].status = status]
      PROVE  /\ call' \in [Calls -> Call \cup {Absent}]
             /\ NewCallsLinked
             /\ \A b \in Calls : call[b] # Absent =>
                  /\ call'[b] # Absent
                  /\ call'[b].session = call[b].session
                  /\ call'[b].approval = call[b].approval
  <2>1. /\ call'[c] \in Call
        /\ call'[c].session = call[c].session /\ call'[c].approval = call[c].approval
        /\ \A b \in Calls : b # c => call'[b] = call[b]
    BY <1>2, <1>4 DEF Call, Typed, TypeOK
  <2>2. DOMAIN call' = Calls /\ call' = [b \in Calls |-> call'[b]]
    BY <1>4 DEF Typed, TypeOK
  <2>3. call' \in [Calls -> Call \cup {Absent}]
    BY <2>1, <2>2 DEF Typed, TypeOK
  <2>4. NewCallsLinked
    BY <1>2, <2>1, NeverAbsent DEF NewCallsLinked
  <2> QED
    BY <1>2, <2>1, <2>3, <2>4, NeverAbsent
\* The row of the session, closed.
<1>5. ASSUME NEW status \in {"completed", "failed"}, NEW end \in Optional(Revisions),
             session' = [session EXCEPT ![s].status = status, ![s].end = end]
      PROVE  /\ session' \in [Sessions -> Session \cup {Absent}]
             /\ \A t \in Sessions : session[t] # Absent => session'[t] # Absent
  <2>1. session'[s] \in Session /\ \A t \in Sessions : t # s => session'[t] = session[t]
    BY <1>2, <1>5 DEF Session, Typed, TypeOK
  <2>2. DOMAIN session' = Sessions /\ session' = [t \in Sessions |-> session'[t]]
    BY <1>5 DEF Typed, TypeOK
  <2> QED
    BY <1>2, <2>1, <2>2, NeverAbsent DEF Typed, TypeOK
<1>6. CASE CompleteToolCall(w)
  <2>1. call' = [call EXCEPT ![c].status = "completed", ![c].result = work[w].pin]
    BY <1>6 DEF CompleteToolCall, c
  <2>2. RowsStay /\ NewCallsLinked
    BY <1>3, <1>4, <1>6, <2>1 DEF RowsStay, CompleteToolCall
  <2>3. PICK job \in Executing : Goto(w, job) /\ job.call = c /\
                                 (call'[job.call] # Absent => SoundNext(job))
    BY <1>1, <1>6, ProceedTyped DEF CompleteToolCall, Steps, c
  <2>4. SoundNext(job)
    BY <1>2, <2>2, <2>3, NeverAbsent DEF RowsStay
  <2>5. TypeOK'
    BY <1>3, <1>4, <1>6, <2>1, <2>3 DEF CompleteToolCall, Typed, TypeOK, Goto
  <2> QED
    BY <2>2, <2>3, <2>4, <2>5, OneMoves
<1>7. CASE CompleteSession(w)
  <2>1. /\ session' \in [Sessions -> Session \cup {Absent}]
        /\ \A t \in Sessions : session[t] # Absent => session'[t] # Absent
    <3>1. CASE proposal[s] = "partial"
      BY <1>7, <3>1 DEF CompleteSession, Typed, TypeOK, s, c
    <3>2. CASE proposal[s] # "partial"
      BY <1>3, <1>5, <1>7, <3>2 DEF CompleteSession, s, c
    <3> QED
      BY <3>1, <3>2
  <2>2. RowsStay
    BY <1>7, <2>1 DEF RowsStay, CompleteSession
  <2>3. NewCallsLinked
    BY <1>7 DEF CompleteSession, NewCallsLinked
  <2>4. TypeOK'
    BY <1>7, <2>1 DEF CompleteSession, Typed, TypeOK, Goto
  <2> QED
    BY <1>7, <2>2, <2>3, <2>4, SoundIdle, OneMoves DEF CompleteSession
<1>8. CASE Save(w)
  <2> DEFINE next == {Now(c) + 1}
  <2>1. Now(c) + 1 \in Revisions
    <3>1. PICK r \in Revisions : work[w].base = {r} /\ r < MaxRevision
      BY <1>8 DEF Save, Typed, Sound
    <3>2. r = Now(c)
      BY <1>8, <3>1 DEF Save, c
    <3> QED
      BY <3>1, <3>2, MaxRevisionAssumption DEF Revisions
  <2>2. next \in Optional(Revisions) /\ [kind |-> "applied", call |-> c, rev |-> next] \in Event
    BY <1>2, <2>1 DEF Optional, Event
  <2>3. /\ call' = [call EXCEPT ![c].status = "completed", ![c].result = next]
        /\ session' = [session EXCEPT ![s].status = "completed", ![s].end = next]
        /\ revision' = [revision EXCEPT ![DocOf(c)] = @ + 1]
        /\ chain' = chain \cup {[kind |-> "applied", call |-> c, rev |-> next]}
        /\ approval' = [a \in Approvals |->
             IF a \in call[c].approval
             THEN [approval[a] EXCEPT !.status = "consumed"] ELSE approval[a]]
        /\ Goto(w, Idle) /\ UNCHANGED <<proposal, granted>>
    BY <1>8 DEF Save, c, s
  <2> HIDE DEF next
  <2>4. /\ approval' \in [Approvals -> Approval \cup {Absent}]
        /\ \A a \in Approvals : approval[a] # Absent => approval'[a] # Absent
    <3>1. ASSUME NEW a \in Approvals, approval[a] # Absent PROVE approval'[a] \in Approval
      <4>1. approval[a] \in Approval
        BY <3>1, Rows DEF Typed
      <4> QED
        BY <2>3, <4>1 DEF Approval
    <3>2. ASSUME NEW a \in Approvals, approval[a] = Absent PROVE approval'[a] = Absent
      <4>1. a \notin call[c].approval
        BY <1>2, <3>2, NeverAbsent DEF Typed, Linked
      <4> QED
        BY <2>3, <3>2, <4>1
    <3> QED
      BY <2>3, <3>1, <3>2, NeverAbsent
  <2>5. revision' \in [Docs -> Revisions]
    BY <1>2, <2>1, <2>3 DEF Typed, TypeOK, Now
  <2>6. RowsStay /\ NewCallsLinked
    BY <1>4, <1>5, <2>2, <2>3, <2>4 DEF RowsStay
  <2>7. TypeOK'
    BY <1>4, <1>5, <2>2, <2>3, <2>4, <2>5 DEF Typed, TypeOK, Goto
  <2> QED
    BY <2>3, <2>6, <2>7, SoundIdle, OneMoves
<1>9. CASE RecordFailure(w)
  <2>1. /\ call' = [call EXCEPT ![c].status = "failed"]
        /\ session' = [session EXCEPT ![s].status = "failed", ![s].end = {}]
        /\ chain' = chain \cup {[kind |-> "failed", call |-> c, rev |-> {}]}
        /\ UNCHANGED <<revision, approval, proposal, granted>>
        /\ Proceed(w, "fail") \/ Goto(w, Idle)
    BY <1>9 DEF RecordFailure, c, s
  <2>2. {} \in Optional(Revisions) /\ [kind |-> "failed", call |-> c, rev |-> {}] \in Event
    BY <1>2 DEF Optional, Event
  <2>3. RowsStay /\ NewCallsLinked
    BY <1>4, <1>5, <2>1, <2>2 DEF RowsStay
  <2>4. PICK job \in Executing \cup {Idle} : Goto(w, job) /\ SoundNext(job)
    <3>1. CASE Goto(w, Idle)
      BY <3>1, SoundIdle
    <3>2. CASE Proceed(w, "fail")
      <4>1. PICK job \in Executing : Goto(w, job) /\ job.call = c /\
                                     (call'[job.call] # Absent => SoundNext(job))
        BY <1>1, <3>2, ProceedTyped DEF Steps, c
      <4> QED
        BY <1>2, <2>3, <4>1, NeverAbsent DEF RowsStay
    <3> QED
      BY <2>1, <3>1, <3>2
  <2>5. TypeOK'
    BY <1>4, <1>5, <2>1, <2>2, <2>4 DEF Typed, TypeOK, Goto
  <2> QED
    BY <2>3, <2>4, <2>5, OneMoves
<1>10. CASE FailToolCall(w)
  <2>1. call' = [call EXCEPT ![c].status = "failed"]
    BY <1>10 DEF FailToolCall, c
  <2>2. RowsStay /\ NewCallsLinked
    BY <1>3, <1>4, <1>10, <2>1 DEF RowsStay, FailToolCall
  <2>3. TypeOK'
    BY <1>3, <1>4, <1>10, <2>1 DEF FailToolCall, Typed, TypeOK, Goto
  <2> QED
    BY <1>10, <2>2, <2>3, SoundIdle, OneMoves DEF FailToolCall
<1> QED
  BY <1>6, <1>7, <1>8, <1>9, <1>10

LEMMA NextTyped == Typed /\ [Next]_vars => Typed'
<1> SUFFICES ASSUME Typed, [Next]_vars PROVE Typed'
  OBVIOUS
<1>1. CASE UNCHANGED vars
  <2>1. RowsStay /\ NewCallsLinked
    BY <1>1 DEF vars, RowsStay, NewCallsLinked
  <2>2. TypeOK'
    BY <1>1 DEF vars, Typed, TypeOK
  <2> QED
    BY <1>1, <2>1, <2>2, NoneMoves DEF vars
<1>2. CASE Environment
  BY <1>2, EnvironmentTyped
<1>3. ASSUME NEW w \in Workers, Request(w) PROVE Typed'
  BY <1>3, ResolverTyped, AuthorizeTyped, ToolTyped, ClosingTyped DEF Request
<1> QED
  BY <1>1, <1>2, <1>3 DEF Next

\* Every table and every work record keeps its shape, and what a request holds
\* is in the tables.
LEMMA AlwaysTyped == Spec => []Typed
<1> QED
  BY InitTyped, NextTyped, PTL DEF Spec

\* The type invariant of the harness tables and of the requests in flight.
THEOREM Typing == Spec => []TypeOK
<1>1. Typed => TypeOK
  BY DEF Typed
<1> QED
  BY <1>1, AlwaysTyped, PTL

-------------------------------------------------------------------------------
(* The tables and the chain tell one story.                                *)

\* What the chain and the row say of one call.
AgreesOn(c) ==
  /\ \A e, f \in chain : e.call = c /\ f.call = c => e = f
  /\ \A e \in chain : e.call = c =>
       /\ e.kind = "applied" => call[c].status = "completed" /\ call[c].result = e.rev
       /\ e.kind = "failed"  => call[c].status = "failed"
       /\ e.kind = "refused" => call[c].status = "rejected"

\* How far the call has got when a request is at a step of it.
Phase(job) ==
  /\ job.step \in {"prepare", "apply", "save", "close", "done"} =>
       call[job.call].status = "running"
  /\ job.step = "refuse" =>
       /\ call[job.call].status = "rejected"
       /\ \A e \in chain : e.call # job.call
  /\ job.step = "fail" => call[job.call].status \in {"running", "failed"}
  /\ job.step = "complete" => call[job.call].status = "completed"

\* The inductive invariant: besides, no two requests execute one call.
Story ==
  /\ \A w \in Workers : work[w].step \in Steps => Phase(work[w])
  /\ \A v, w \in Workers :
       v # w /\ work[v].step \in Steps /\ work[w].step \in Steps =>
         work[v].call # work[w].call
  /\ \A e \in chain : call[e.call] # Absent
  /\ \A c \in Calls : AgreesOn(c)

LEMMA StoryIsAgreement == TypeOK /\ Story => RowsAgreeWithChain
BY DEF TypeOK, Story, AgreesOn, RowsAgreeWithChain, Event

\* A running call has no outcome in the chain.
LEMMA NoEventYet ==
  ASSUME TypeOK, Story, NEW c \in Calls, call[c].status = "running"
  PROVE  \A e \in chain : e.call # c
BY DEF TypeOK, Story, AgreesOn, Event

\* A request that moves outside the execution of a call.
LEMMA StoryAlone ==
  ASSUME Typed, Story, NEW w \in Workers, NEW job, Goto(w, job), job.step \notin Steps,
         UNCHANGED <<call, chain>>
  PROVE  Story'
<1>1. work'[w] = job /\ \A v \in Workers : v # w => work'[v] = work[v]
  BY DEF Goto, Typed, TypeOK
<1>2. \A v \in Workers : work'[v].step \in Steps =>
        v # w /\ work'[v] = work[v] /\ Phase(work[v])'
  BY <1>1 DEF Story, Phase
<1>3. \A c \in Calls : AgreesOn(c)'
  BY DEF Story, AgreesOn
<1> QED
  BY <1>1, <1>2, <1>3 DEF Story

\* Phase, of what a request holds after a step.
PhaseNext(job) ==
  /\ job.step \in {"prepare", "apply", "save", "close", "done"} =>
       call'[job.call].status = "running"
  /\ job.step = "refuse" =>
       /\ call'[job.call].status = "rejected"
       /\ \A e \in chain' : e.call # job.call
  /\ job.step = "fail" => call'[job.call].status \in {"running", "failed"}
  /\ job.step = "complete" => call'[job.call].status = "completed"

\* A request that moves on with a call nobody else executes.
LEMMA StoryOfCall ==
  ASSUME Typed, Story, NEW w \in Workers, NEW c \in Calls, NEW job, Goto(w, job),
         \A v \in Workers : v # w /\ work[v].step \in Steps => work[v].call # c,
         job.step \in Steps => job.call = c /\ PhaseNext(job),
         \A b \in Calls : b # c => call'[b] = call[b],
         chain \subseteq chain', \A e \in chain' : e \in chain \/ e.call = c,
         call'[c] # Absent, AgreesOn(c)'
  PROVE  Story'
<1>1. work'[w] = job /\ \A v \in Workers : v # w => work'[v] = work[v]
  BY DEF Goto, Typed, TypeOK
<1>2. ASSUME NEW v \in Workers, v # w, work'[v].step \in Steps PROVE Phase(work[v])'
  <2>1. work[v].step \in Steps /\ Phase(work[v]) /\ work[v].call # c /\ work[v].call \in Calls
    BY <1>1, <1>2, Executed DEF Story
  <2>2. call'[work[v].call] = call[work[v].call]
    BY <2>1
  <2>3. \A e \in chain' : e.call = work[v].call => e \in chain
    BY <2>1
  <2> QED
    BY <1>1, <1>2, <2>1, <2>2, <2>3 DEF Phase
<1>3. work'[w].step \in Steps => Phase(work[w])'
  BY <1>1 DEF Phase, PhaseNext
<1>4. ASSUME NEW u \in Workers, NEW v \in Workers, u # v,
             work'[u].step \in Steps, work'[v].step \in Steps
      PROVE  work'[u].call # work'[v].call
  BY <1>1, <1>4 DEF Story
<1>5. \A e \in chain' : call'[e.call] # Absent
  BY DEF Story, Typed, TypeOK, Event
<1>6. ASSUME NEW b \in Calls, b # c PROVE AgreesOn(b)'
  <2>1. AgreesOn(b) /\ call'[b] = call[b] /\ \A e \in chain' : e.call = b => e \in chain
    BY <1>6 DEF Story
  <2> QED
    BY <2>1 DEF AgreesOn
<1> QED
  BY <1>2, <1>3, <1>4, <1>5, <1>6 DEF Story

\* A call that appears has no outcome yet, and no request executes it.
LEMMA FreshCall ==
  ASSUME Typed, Story, NEW c \in Calls, call[c] = Absent
  PROVE  /\ \A e \in chain : e.call # c
         /\ \A v \in Workers : work[v].step \in Steps => work[v].call # c
<1>1. \A v \in Workers : work[v].step \in Steps => call[work[v].call] # Absent
  BY DEF Typed, Sound
<1> QED
  BY <1>1 DEF Story

LEMMA InitStory == Init => Story
BY DEF Init, Story, AgreesOn, Idle, Steps

LEMMA OpeningStory ==
  ASSUME Typed, Story, NEW w \in Workers, NEW c \in Calls, Authorize(w, c) \/ Deny(w, c)
  PROVE  Story'
<1>1. PICK status \in {"running", "rejected"}, job \in Executing, ref \in Optional(Approvals) :
        /\ NewCall(c, status, work[w], ref) /\ Goto(w, job) /\ job.call = c
        /\ status = "running" => job.step \in {"apply", "prepare"}
        /\ status = "rejected" => job.step = "refuse"
  <2>1. CASE Authorize(w, c)
    <3> DEFINE first == IF work[w].intent.tool = "compiled" THEN "apply" ELSE "prepare"
               job == Execute(first, c, work[w].surface, work[w].intent.expects, {})
    <3>1. work[w] \in Opened
      BY <2>1, Jobs DEF Authorize, Typed
    <3>2. job \in Executing /\ job.call = c /\ job.step \in {"apply", "prepare"}
      BY <3>1, IntentFields DEF Executing, Execute, Opened, Optional
    <3>3. Carried(work[w]) \in Optional(Approvals)
      BY <3>1 DEF Carried, Opened, Optional
    <3>4. NewCall(c, "running", work[w], Carried(work[w])) /\ Goto(w, job)
      BY <2>1 DEF Authorize
    <3> HIDE DEF job
    <3> QED
      BY <3>2, <3>3, <3>4
  <2>2. CASE Deny(w, c)
    <3> DEFINE job == Execute("refuse", c, work[w].surface, {}, {})
    <3>1. work[w] \in Opened
      BY <2>2, Jobs DEF Deny, Typed
    <3>2. job \in Executing /\ job.call = c /\ job.step = "refuse"
      BY <3>1 DEF Executing, Execute, Opened, Optional
    <3>3. work[w].approval \in Optional(Approvals)
      BY <3>1 DEF Opened
    <3>4. NewCall(c, "rejected", work[w], work[w].approval) /\ Goto(w, job)
      BY <2>2 DEF Deny
    <3> HIDE DEF job
    <3> QED
      BY <3>2, <3>3, <3>4
  <2> QED
    BY <2>1, <2>2
<1>2. UNCHANGED chain
  BY DEF Authorize, Deny
<1>3. /\ call[c] = Absent /\ call'[c].status = status /\ call'[c] # Absent
      /\ \A b \in Calls : b # c => call'[b] = call[b]
  BY <1>1 DEF NewCall, Typed, TypeOK, Absent
<1>4. /\ \A e \in chain' : e.call # c
      /\ \A v \in Workers : v # w /\ work[v].step \in Steps => work[v].call # c
  BY <1>2, <1>3, FreshCall
<1>5. AgreesOn(c)'
  BY <1>4 DEF AgreesOn
<1>6. PhaseNext(job)
  BY <1>1, <1>3, <1>4 DEF PhaseNext
<1> QED
  BY <1>1, <1>2, <1>3, <1>4, <1>5, <1>6, StoryOfCall

\* The same call at its next step, its row and the chain as they were.
LEMMA SteppingStory ==
  ASSUME Typed, Story, NEW w \in Workers, work[w].step \in Steps,
         NEW job, Goto(w, job), UNCHANGED <<call, chain>>,
         job.step \in Steps => job.call = work[w].call /\ PhaseNext(job)
  PROVE  Story'
<1>1. PICK c \in Calls : c = work[w].call /\ call'[c] # Absent
  BY Executed, NeverAbsent
<1>2. \A v \in Workers : v # w /\ work[v].step \in Steps => work[v].call # c
  BY <1>1 DEF Story
<1>3. AgreesOn(c)'
  BY <1>1 DEF Story, AgreesOn
<1> QED
  BY <1>1, <1>2, <1>3, StoryOfCall

LEMMA ToolStory ==
  ASSUME Typed, Story, NEW w \in Workers,
         \/ Prepared(w) \/ CompileInvalid(w) \/ LayoutConflict(w) \/ NothingToApply(w)
         \/ Stage(w) \/ StageRefused(w) \/ SaveConflict(w)
  PROVE  Story'
<1>1. work[w].step \in {"prepare", "apply", "save"} /\ UNCHANGED <<call, chain>>
  BY DEF Prepared, CompileInvalid, LayoutConflict, NothingToApply, Stage,
         StageRefused, SaveConflict, tables
<1>2. work[w].step \in Steps /\ work[w] \in Executing /\ call[work[w].call].status = "running"
  BY <1>1, Executed DEF Steps, Story, Phase
<1>3. PICK job : /\ Goto(w, job)
                 /\ job.step \in Steps => job.call = work[w].call
                 /\ job.step \in {"apply", "save", "close", "done", "fail", "idle"}
  <2>1. CASE LayoutConflict(w)
    BY <2>1 DEF LayoutConflict, Idle, Steps
  <2>2. CASE Prepared(w) \/ NothingToApply(w) \/ Stage(w)
    <3>1. PICK step \in {"apply", "done", "save"} : \E pin, base :
            Goto(w, [work[w] EXCEPT !.step = step, !.pin = pin, !.base = base])
      <4>1. work[w] = [work[w] EXCEPT !.base = work[w].base]
        BY <1>2 DEF Executing
      <4>2. work[w] = [work[w] EXCEPT !.pin = work[w].pin]
        BY <1>2 DEF Executing
      <4>3. CASE Prepared(w)
        <5>1. Goto(w, [work[w] EXCEPT !.step = "apply", !.pin = {Now(work[w].call)},
                                      !.base = work[w].base])
          BY <1>2, <4>3 DEF Prepared, Executing
        <5> QED
          BY <5>1
      <4>4. CASE NothingToApply(w)
        <5>1. Goto(w, [work[w] EXCEPT !.step = "done", !.pin = {Now(work[w].call)},
                                      !.base = work[w].base])
          BY <1>2, <4>4 DEF NothingToApply, Executing
        <5> QED
          BY <5>1
      <4>5. CASE Stage(w)
        <5>1. Goto(w, [work[w] EXCEPT !.step = "save", !.pin = work[w].pin,
                                      !.base = {Now(work[w].call)}])
          BY <1>2, <4>5 DEF Stage, Executing
        <5> QED
          BY <5>1
      <4> QED
        BY <2>2, <4>3, <4>4, <4>5
    <3>2. PICK pin, base :
            Goto(w, [work[w] EXCEPT !.step = step, !.pin = pin, !.base = base])
      BY <3>1
    <3> DEFINE job == [work[w] EXCEPT !.step = step, !.pin = pin, !.base = base]
    <3>3. job.step = step /\ job.call = work[w].call
      BY <1>2 DEF Executing
    <3> HIDE DEF job
    <3> QED
      BY <3>2, <3>3 DEF job
  <2>3. CASE CompileInvalid(w) \/ StageRefused(w) \/ SaveConflict(w)
    <3>1. PICK step \in {"fail", "close"} : Proceed(w, step)
      BY <2>3 DEF CompileInvalid, StageRefused, SaveConflict
    <3>2. PICK job \in Executing : job.call = work[w].call /\ job.step = step /\ Goto(w, job)
      BY <1>2, <3>1, ProceedTyped DEF Steps
    <3> QED
      BY <3>2
  <2> QED
    BY <2>1, <2>2, <2>3
<1>4. job.step \in Steps => PhaseNext(job)
  BY <1>1, <1>2, <1>3 DEF PhaseNext
<1> QED
  BY <1>1, <1>2, <1>3, <1>4, SteppingStory

\* The call closes: its row changes, and one outcome of it joins the chain, or
\* none does.
LEMMA ClosingStory ==
  ASSUME Typed, Story, NEW w \in Workers,
         \/ CompleteToolCall(w) \/ Save(w) \/ RecordFailure(w)
         \/ FailToolCall(w) \/ AuditDenial(w)
  PROVE  Story'
<1>1. work[w].step \in Steps
  BY DEF CompleteToolCall, Save, RecordFailure, FailToolCall, AuditDenial, Steps
<1>2. PICK c \in Calls : c = work[w].call
  BY <1>1, Executed
<1>3. /\ call[c] \in Call /\ Phase(work[w])
      /\ \A v \in Workers : v # w /\ work[v].step \in Steps => work[v].call # c
  BY <1>1, <1>2, Executed DEF Story
<1>4. Idle.step \notin Steps
  BY DEF Idle, Steps
<1>5. CASE CompleteToolCall(w)
  <2>1. /\ call' = [call EXCEPT ![c].status = "completed", ![c].result = work[w].pin]
        /\ Proceed(w, "complete") /\ UNCHANGED chain
        /\ call[c].status = "running"
    BY <1>2, <1>3, <1>5 DEF CompleteToolCall, Phase
  <2>2. PICK job \in Executing : job.call = c /\ job.step = "complete" /\ Goto(w, job)
    BY <1>1, <1>2, <2>1, ProceedTyped DEF Steps
  <2>3. /\ call'[c] \in Call /\ call'[c].status = "completed"
        /\ \A b \in Calls : b # c => call'[b] = call[b]
    BY <1>3, <2>1, <1>1, Executed DEF Typed, TypeOK, Call, Executing
  <2>4. AgreesOn(c)'
    BY <2>1, NoEventYet DEF AgreesOn, Typed
  <2>5. PhaseNext(job)
    BY <2>2, <2>3 DEF PhaseNext
  <2>6. call'[c] # Absent /\ chain \subseteq chain' /\ \A e \in chain' : e \in chain
    BY <2>1, <2>3, NeverAbsent
  <2> QED
    BY <1>3, <2>2, <2>3, <2>4, <2>5, <2>6, StoryOfCall
<1>6. CASE Save(w)
  <2> DEFINE next == {Now(c) + 1}
             e == [kind |-> "applied", call |-> c, rev |-> next]
  <2>1. /\ call' = [call EXCEPT ![c].status = "completed", ![c].result = next]
        /\ chain' = chain \cup {e} /\ Goto(w, Idle) /\ call[c].status = "running"
    BY <1>2, <1>3, <1>6 DEF Save, Phase
  <2>2. /\ call'[c].status = "completed" /\ call'[c].result = next
        /\ \A b \in Calls : b # c => call'[b] = call[b]
    BY <1>3, <2>1 DEF Typed, TypeOK, Call
  <2>3. call'[c] # Absent
    BY <2>2 DEF Absent
  <2> HIDE DEF next
  <2>5. e.kind = "applied" /\ e.call = c /\ e.rev = next
    OBVIOUS
  <2> HIDE DEF e
  <2>6. chain \subseteq chain' /\ \A f \in chain' : f \in chain \/ f.call = c
    BY <2>1, <2>5
  <2>4. AgreesOn(c)'
    <3>1. \A f \in chain' : f.call = c => f = e
      BY <2>1, NoEventYet DEF Typed
    <3>2. /\ e.kind = "applied" => call'[c].status = "completed" /\ call'[c].result = e.rev
          /\ e.kind # "failed" /\ e.kind # "refused"
      BY <2>2, <2>5
    <3> QED
      BY <3>1, <3>2 DEF AgreesOn
  <2> QED
    BY <1>3, <1>4, <2>1, <2>2, <2>3, <2>4, <2>6, StoryOfCall
<1>7. CASE RecordFailure(w)
  <2> DEFINE e == [kind |-> "failed", call |-> c, rev |-> {}]
  <2>1. /\ call' = [call EXCEPT ![c].status = "failed"]
        /\ chain' = chain \cup {e} /\ call[c].status = "running"
        /\ Proceed(w, "fail") \/ Goto(w, Idle)
    BY <1>2, <1>3, <1>7 DEF RecordFailure, Phase
  <2>2. call'[c].status = "failed" /\ \A b \in Calls : b # c => call'[b] = call[b]
    BY <1>3, <2>1 DEF Typed, TypeOK, Call
  <2>3. call'[c] # Absent
    BY <2>2 DEF Absent
  <2>4. AgreesOn(c)'
    <3>1. \A f \in chain' : f.call = c => f = e
      BY <2>1, NoEventYet DEF Typed
    <3> QED
      BY <2>2, <3>1 DEF AgreesOn
  <2>5. PICK job \in Executing \cup {Idle} :
          Goto(w, job) /\ (job.step \in Steps => job.call = c /\ job.step = "fail")
    <3>1. CASE Proceed(w, "fail")
      BY <1>1, <1>2, <3>1, ProceedTyped DEF Steps
    <3>2. CASE Goto(w, Idle)
      BY <1>4, <3>2
    <3> QED
      BY <2>1, <3>1, <3>2
  <2>6. job.step \in Steps => PhaseNext(job)
    BY <2>2, <2>5 DEF PhaseNext
  <2> QED
    BY <1>3, <2>1, <2>2, <2>3, <2>4, <2>5, <2>6, StoryOfCall
<1>8. CASE FailToolCall(w)
  <2>1. /\ call' = [call EXCEPT ![c].status = "failed"]
        /\ UNCHANGED chain /\ Goto(w, Idle) /\ call[c].status \in {"running", "failed"}
    BY <1>2, <1>3, <1>8 DEF FailToolCall, Phase
  <2>2. call'[c].status = "failed" /\ \A b \in Calls : b # c => call'[b] = call[b]
    BY <1>3, <2>1 DEF Typed, TypeOK, Call
  <2>3. call'[c] # Absent
    BY <2>2 DEF Absent
  <2>4. AgreesOn(c)'
    <3>1. AgreesOn(c) /\ \A e \in chain : e.call = c => e.kind = "failed"
      BY <2>1 DEF Story, AgreesOn, Typed, TypeOK, Event
    <3> QED
      BY <2>1, <2>2, <3>1 DEF AgreesOn
  <2> QED
    BY <1>3, <1>4, <2>1, <2>2, <2>3, <2>4, StoryOfCall
<1>9. CASE AuditDenial(w)
  <2> DEFINE e == [kind |-> "refused", call |-> c, rev |-> {}]
  <2>1. /\ UNCHANGED call /\ chain' = chain \cup {e} /\ Goto(w, Idle)
        /\ call[c].status = "rejected" /\ \A f \in chain : f.call # c
    BY <1>2, <1>3, <1>9 DEF AuditDenial, Phase
  <2>2. /\ e.kind = "refused" /\ e.call = c
        /\ call'[c].status = "rejected" /\ call'[c] # Absent
    BY <1>3, <2>1, NeverAbsent
  <2> HIDE DEF e
  <2>3. /\ chain \subseteq chain' /\ \A f \in chain' : f \in chain \/ f.call = c
        /\ \A f \in chain' : f.call = c => f = e
    BY <2>1, <2>2
  <2>4. AgreesOn(c)'
    BY <2>2, <2>3 DEF AgreesOn
  <2> QED
    BY <1>3, <1>4, <2>1, <2>2, <2>3, <2>4, StoryOfCall
<1> QED
  BY <1>5, <1>6, <1>7, <1>8, <1>9

LEMMA NextStory == Typed /\ Story /\ [Next]_vars => Story'
<1> SUFFICES ASSUME Typed, Story, [Next]_vars PROVE Story'
  OBVIOUS
<1>1. CASE UNCHANGED <<call, chain, work>>
  BY <1>1 DEF Story, Phase, AgreesOn
<1>2. CASE UNCHANGED vars
  BY <1>1, <1>2 DEF vars
<1>3. CASE Environment
  <2>1. UNCHANGED <<call, chain, work>>
    BY <1>3 DEF Environment, EditElsewhere, CreateSession, RecordSynthesisProposal,
                RequestApproval
  <2> QED
    BY <1>1, <2>1
<1>4. ASSUME NEW w \in Workers, Request(w) PROVE Story'
  <2>1. ASSUME NEW a \in Approvals, NEW verdict \in {"approved", "rejected"},
               ReadPending(w, a, verdict)
        PROVE  Story'
    <3>1. PICK job : Goto(w, job) /\ job.step = "resolve" /\ UNCHANGED <<call, chain>>
      BY <2>1 DEF ReadPending, tables
    <3> QED
      BY <3>1, StoryAlone DEF Steps
  <2>2. ASSUME NEW s \in Sessions, NEW i \in Intents, NEW ref \in Optional(Approvals),
               NEW surface \in {"rest", "mcp"}, Open(w, s, i, ref, surface)
        PROVE  Story'
    <3>1. PICK job : Goto(w, job) /\ job.step = "judge" /\ UNCHANGED <<call, chain>>
      BY <2>2 DEF Open, tables
    <3> QED
      BY <3>1, StoryAlone DEF Steps
  <2>3. CASE WriteVerdict(w) \/ DenyUnrecorded(w) \/ CompleteSession(w)
    <3>1. Goto(w, Idle) /\ UNCHANGED <<call, chain>> /\ Idle.step \notin Steps
      BY <2>3 DEF WriteVerdict, DenyUnrecorded, CompleteSession, tables, Idle, Steps
    <3> QED
      BY <3>1, StoryAlone
  <2> QED
    BY <1>4, <2>1, <2>2, <2>3, OpeningStory, ToolStory, ClosingStory DEF Request
<1> QED
  BY <1>2, <1>3, <1>4 DEF Next

LEMMA AlwaysStory == Spec => [](Typed /\ Story)
<1> QED
  BY InitTyped, NextTyped, InitStory, NextStory, PTL DEF Spec

\* One outcome per call in the chain, and the row of the call says the same.
THEOREM OneStory == Spec => []RowsAgreeWithChain
<1>1. Typed /\ Story => RowsAgreeWithChain
  BY StoryIsAgreement DEF Typed
<1> QED
  BY <1>1, AlwaysStory, PTL

-------------------------------------------------------------------------------
(* What no step takes back.                                                *)

CallsKept ==
  \A c \in Calls : call[c] # Absent =>
    /\ call'[c] # Absent
    /\ call'[c].session = call[c].session
    /\ call'[c].intent = call[c].intent
    /\ call'[c].approval = call[c].approval
    /\ call'[c].status = "rejected" <=> call[c].status = "rejected"

ApprovalsKept ==
  \A a \in Approvals : approval[a] # Absent =>
    /\ approval'[a] # Absent
    /\ approval'[a].session = approval[a].session
    /\ approval'[a].intent = approval[a].intent

\* Only the request that authorizes or denies a call creates its row.
Created ==
  \A c \in Calls : call[c] = Absent /\ call'[c] # Absent =>
    \E w \in Workers : Authorize(w, c) \/ Deny(w, c)

Kept ==
  /\ CallsKept /\ ApprovalsKept /\ Created
  /\ granted \subseteq granted'
  /\ \A d \in Docs : revision[d] <= revision'[d]

LEMMA Staying ==
  ASSUME Typed
  PROVE  /\ UNCHANGED call => CallsKept /\ Created
         /\ UNCHANGED approval => ApprovalsKept
         /\ UNCHANGED revision => \A d \in Docs : revision[d] <= revision'[d]
<1>1. \A d \in Docs : revision[d] \in Nat
  BY MaxRevisionAssumption DEF Typed, TypeOK, Revisions
<1> QED
  BY <1>1 DEF CallsKept, ApprovalsKept, Created

\* Closing a call that is not a refused one.
LEMMA ClosingKeeps ==
  ASSUME Typed, Story, NEW w \in Workers, work[w].step \in Steps \ {"refuse"},
         NEW c \in Calls, c = work[w].call,
         NEW status \in {"completed", "failed"}, NEW result,
         \/ call' = [call EXCEPT ![c].status = status, ![c].result = result]
         \/ call' = [call EXCEPT ![c].status = status]
  PROVE  CallsKept /\ Created
<1>1. call[c] \in Call /\ call[c].status # "rejected"
  BY Executed DEF Story, Phase, Steps
<1>2. /\ call'[c].status = status /\ call'[c].session = call[c].session
      /\ call'[c].intent = call[c].intent /\ call'[c].approval = call[c].approval
      /\ \A b \in Calls : b # c => call'[b] = call[b]
  BY <1>1 DEF Typed, TypeOK, Call
<1>3. call[c] # Absent /\ call'[c] # Absent
  BY <1>1, <1>2, NeverAbsent DEF Absent
<1> QED
  BY <1>1, <1>2, <1>3 DEF CallsKept, Created

LEMMA StepKeeps == Typed /\ Story /\ [Next]_vars => Kept
<1> SUFFICES ASSUME Typed, Story, [Next]_vars PROVE Kept
  OBVIOUS
<1>1. CASE UNCHANGED vars
  BY <1>1, Staying DEF vars, Kept
<1>2. CASE Environment
  <2>1. ASSUME NEW d \in Docs, EditElsewhere(d) PROVE Kept
    <3>1. \A b \in Docs : revision[b] <= revision'[b]
      BY <2>1, MaxRevisionAssumption DEF EditElsewhere, Typed, TypeOK, Revisions
    <3> QED
      BY <2>1, <3>1, Staying DEF EditElsewhere, Kept
  <2>2. ASSUME NEW a \in Approvals, NEW s \in Sessions, NEW i \in Intents,
               RequestApproval(a, s, i)
        PROVE  Kept
    <3>1. ApprovalsKept
      BY <2>2 DEF RequestApproval, ApprovalsKept, Typed, TypeOK
    <3> QED
      BY <2>2, <3>1, Staying DEF RequestApproval, Kept
  <2>3. ASSUME NEW s \in Sessions, NEW d \in Docs, CreateSession(s, d) PROVE Kept
    BY <2>3, Staying DEF CreateSession, Kept
  <2>4. ASSUME NEW s \in Sessions, NEW whole \in {"whole", "partial"},
               RecordSynthesisProposal(s, whole)
        PROVE  Kept
    BY <2>4, Staying DEF RecordSynthesisProposal, Kept
  <2> QED
    BY <1>2, <2>1, <2>2, <2>3, <2>4 DEF Environment
<1>3. ASSUME NEW w \in Workers, Request(w) PROVE Kept
  <2>1. CASE UNCHANGED <<tables, granted>>
    BY <2>1, Staying DEF tables, Kept
  <2>2. CASE WriteVerdict(w)
    <3>1. work[w].approval \in Approvals
      BY <2>2, Jobs DEF WriteVerdict, Typed, Resolving
    <3>2. approval[work[w].approval] \in Approval
      BY <2>2, <3>1, Rows DEF WriteVerdict, Typed, Sound
    <3>3. PICK a \in Approvals, to \in {"approved", "rejected"} :
            approval[a] \in Approval /\ approval' = [approval EXCEPT ![a].status = to]
      BY <2>2, <3>1, <3>2, Jobs DEF WriteVerdict, Typed, Resolving
    <3>4. /\ approval'[a].status = to /\ approval'[a].session = approval[a].session
          /\ approval'[a].intent = approval[a].intent
          /\ \A b \in Approvals : b # a => approval'[b] = approval[b]
      BY <3>3 DEF Typed, TypeOK, Approval
    <3>5. approval'[a] # Absent
      BY <3>4 DEF Absent
    <3>6. ApprovalsKept
      BY <3>3, <3>4, <3>5 DEF ApprovalsKept
    <3> QED
      BY <2>2, <3>6, Staying DEF WriteVerdict, Kept
  <2>3. ASSUME NEW c \in Calls, Authorize(w, c) \/ Deny(w, c) PROVE Kept
    <3>1. CallsKept
      BY <2>3 DEF Authorize, Deny, NewCall, CallsKept, Typed, TypeOK
    <3>2. Created
      <4>1. \A b \in Calls : b # c => call'[b] = call[b]
        BY <2>3 DEF Authorize, Deny, NewCall, Typed, TypeOK
      <4> QED
        BY <2>3, <4>1 DEF Created
    <3>3. UNCHANGED <<revision, approval, granted>>
      BY <2>3 DEF Authorize, Deny
    <3> QED
      BY <3>1, <3>2, <3>3, Staying DEF Kept
  <2>4. CASE AuditDenial(w) \/ CompleteSession(w)
    BY <2>4, Staying DEF AuditDenial, CompleteSession, Kept
  <2>5. CASE CompleteToolCall(w) \/ RecordFailure(w) \/ FailToolCall(w)
    <3>1. work[w].step \in Steps \ {"refuse"} /\ UNCHANGED <<revision, approval, granted>>
      BY <2>5 DEF CompleteToolCall, RecordFailure, FailToolCall, Steps
    <3>2. PICK c \in Calls : c = work[w].call
      BY <3>1, Executed
    <3>3. CASE CompleteToolCall(w)
      <4>1. call' = [call EXCEPT ![c].status = "completed", ![c].result = work[w].pin]
        BY <3>2, <3>3 DEF CompleteToolCall
      <4>2. CallsKept /\ Created
        BY <3>1, <3>2, <4>1, ClosingKeeps
      <4> QED
        BY <3>1, <4>2, Staying DEF Kept
    <3>4. CASE RecordFailure(w) \/ FailToolCall(w)
      <4>1. call' = [call EXCEPT ![c].status = "failed"]
        BY <3>2, <3>4 DEF RecordFailure, FailToolCall
      <4>2. CallsKept /\ Created
        BY <3>1, <3>2, <4>1, ClosingKeeps
      <4> QED
        BY <3>1, <4>2, Staying DEF Kept
    <3> QED
      BY <2>5, <3>3, <3>4
  <2>6. CASE Save(w)
    <3>1. work[w].step \in Steps \ {"refuse"}
      BY <2>6 DEF Save, Steps
    <3>2. PICK c \in Calls : c = work[w].call
      BY <3>1, Executed
    <3>3. PICK result : call' = [call EXCEPT ![c].status = "completed", ![c].result = result]
      BY <2>6, <3>2 DEF Save
    <3>4. CallsKept /\ Created
      BY <3>1, <3>2, <3>3, ClosingKeeps
    <3>5. ApprovalsKept
      <4>1. ASSUME NEW a \in Approvals, approval[a] # Absent
            PROVE  /\ approval'[a].session = approval[a].session
                   /\ approval'[a].intent = approval[a].intent
                   /\ approval'[a] # Absent
        <5>1. approval[a] \in Approval
          BY <4>1, Rows DEF Typed
        <5>2. \/ approval'[a] = approval[a]
              \/ approval'[a] = [approval[a] EXCEPT !.status = "consumed"]
          BY <2>6 DEF Save
        <5>3. approval'[a] \in Approval
          BY <5>1, <5>2 DEF Approval
        <5> QED
          BY <5>1, <5>2, <5>3, NeverAbsent DEF Approval
      <4> QED
        BY <4>1 DEF ApprovalsKept
    <3>6. \A d \in Docs : revision[d] <= revision'[d]
      <4>1. PICK b \in Docs : revision' = [revision EXCEPT ![b] = @ + 1]
        BY <2>6, <3>1, Executed DEF Save
      <4>2. \A d \in Docs : revision[d] \in Nat
        BY MaxRevisionAssumption DEF Typed, TypeOK, Revisions
      <4>3. \A d \in Docs : revision'[d] = IF d = b THEN revision[d] + 1 ELSE revision[d]
        BY <4>1 DEF Typed, TypeOK
      <4> QED
        BY <4>2, <4>3
    <3>7. UNCHANGED granted
      BY <2>6 DEF Save
    <3> QED
      BY <3>4, <3>5, <3>6, <3>7 DEF Kept
  <2>7. ASSUME \/ \E a \in Approvals, verdict \in {"approved", "rejected"} :
                    ReadPending(w, a, verdict)
               \/ \E s \in Sessions, i \in Intents, ref \in Optional(Approvals),
                     surface \in {"rest", "mcp"} : Open(w, s, i, ref, surface)
               \/ DenyUnrecorded(w) \/ Prepared(w) \/ CompileInvalid(w)
               \/ LayoutConflict(w) \/ NothingToApply(w)
               \/ Stage(w) \/ StageRefused(w) \/ SaveConflict(w)
        PROVE  UNCHANGED <<tables, granted>>
    BY <2>7 DEF ReadPending, Open, DenyUnrecorded, Prepared, CompileInvalid,
                LayoutConflict, NothingToApply, Stage, StageRefused, SaveConflict
  <2> QED
    BY <1>3, <2>1, <2>2, <2>3, <2>4, <2>5, <2>6, <2>7 DEF Request
<1> QED
  BY <1>1, <1>2, <1>3 DEF Next

-------------------------------------------------------------------------------
(* No revision without permission.                                         *)

\* What an authorized call rests on, for as long as it is on record.
Warrant(c) ==
  LET permission == Permission[call[c].intent.tool] IN
  /\ permission # "deny"
  /\ permission = "ask" => \E a \in call[c].approval : a \in granted
  /\ permission = "allow" => call[c].approval = {}
  /\ \A a \in call[c].approval :
       /\ approval[a].session = call[c].session
       /\ approval[a].intent = call[c].intent

Lawful ==
  /\ \A a \in Approvals : approval[a].status = "approved" => a \in granted
  /\ \A c \in Calls : call[c] # Absent /\ call[c].status # "rejected" => Warrant(c)

LEMMA InitLawful == Init => Lawful
BY DEF Init, Lawful, Absent

\* Approvals are approved by a resolver only.
LEMMA GrantsKept ==
  ASSUME Typed, Lawful, [Next]_vars
  PROVE  \A a \in Approvals : approval'[a].status = "approved" => a \in granted'
<1>1. CASE UNCHANGED <<approval, granted>>
  BY <1>1 DEF Lawful
<1>2. ASSUME NEW a \in Approvals, NEW s \in Sessions, NEW i \in Intents,
             RequestApproval(a, s, i)
      PROVE  \A b \in Approvals : approval'[b].status = "approved" => b \in granted'
  <2>1. /\ approval'[a].status = "pending" /\ UNCHANGED granted
        /\ \A b \in Approvals : b # a => approval'[b] = approval[b]
    BY <1>2 DEF RequestApproval, Typed, TypeOK
  <2> QED
    BY <2>1 DEF Lawful
<1>3. ASSUME NEW w \in Workers, WriteVerdict(w)
      PROVE  \A b \in Approvals : approval'[b].status = "approved" => b \in granted'
  <2>1. work[w].approval \in Approvals
    BY <1>3, Jobs DEF WriteVerdict, Typed, Resolving
  <2>2. approval[work[w].approval] \in Approval
    BY <1>3, <2>1, Rows DEF WriteVerdict, Typed, Sound
  <2>3. /\ approval'[work[w].approval].status = work[w].to
        /\ \A b \in Approvals : b # work[w].approval => approval'[b] = approval[b]
    BY <1>3, <2>1, <2>2 DEF WriteVerdict, Typed, TypeOK, Approval
  <2>4. /\ granted \subseteq granted'
        /\ work[w].to = "approved" => work[w].approval \in granted'
    BY <1>3 DEF WriteVerdict
  <2> QED
    BY <2>3, <2>4 DEF Lawful
<1>4. ASSUME NEW w \in Workers, Save(w)
      PROVE  \A b \in Approvals : approval'[b].status = "approved" => b \in granted'
  <2>1. work[w].step \in Steps
    BY <1>4 DEF Save, Steps
  <2>2. call[work[w].call] # Absent /\ work[w].call \in Calls
    BY <2>1, Executed, NeverAbsent
  <2>3. ASSUME NEW b \in Approvals, approval'[b].status = "approved"
        PROVE  approval'[b] = approval[b]
    <3>1. CASE b \in call[work[w].call].approval
      <4>1. approval[b] \in Approval
        BY <2>2, <3>1, Rows DEF Typed, Linked
      <4>2. approval'[b].status = "consumed"
        BY <1>4, <3>1, <4>1 DEF Save, Approval
      <4> QED
        BY <2>3, <4>2
    <3>2. CASE b \notin call[work[w].call].approval
      BY <1>4, <3>2 DEF Save
    <3> QED
      BY <3>1, <3>2
  <2> QED
    BY <1>4, <2>3 DEF Save, Lawful
<1>5. ASSUME NEW w \in Workers, Request(w), ~WriteVerdict(w), ~Save(w)
      PROVE  UNCHANGED <<approval, granted>>
  BY <1>5 DEF Request, ReadPending, Open, Authorize, Deny, DenyUnrecorded, AuditDenial,
              Prepared, CompileInvalid, LayoutConflict, NothingToApply,
              CompleteToolCall, CompleteSession, Stage, StageRefused, SaveConflict,
              RecordFailure, FailToolCall, tables
<1>6. CASE Environment
  BY <1>1, <1>2, <1>6 DEF Environment, EditElsewhere, CreateSession, RecordSynthesisProposal
<1>7. CASE UNCHANGED vars
  BY <1>1, <1>7 DEF vars
<1> QED
  BY <1>1, <1>3, <1>4, <1>5, <1>6, <1>7 DEF Next

\* authorize gives a call a warrant.
LEMMA AuthorizedWarrant ==
  ASSUME Typed, Lawful, NEW w \in Workers, NEW c \in Calls, Authorize(w, c)
  PROVE  Warrant(c)'
<1> DEFINE job == work[w]
<1>1. job \in Opened /\ Permitted(job) /\ job.intent.tool \in Tools
  BY Jobs, IntentFields DEF Authorize, Typed, Opened
<1>2. /\ call'[c].intent = job.intent /\ call'[c].session = job.session
      /\ call'[c].approval = Carried(job)
      /\ UNCHANGED <<approval, granted>>
  BY DEF Authorize, NewCall, Typed, TypeOK
<1>3. job.approval \in Optional(Approvals)
  BY <1>1 DEF Opened
<1> HIDE DEF job
<1>4. Permission[job.intent.tool] \in {"ask", "allow", "deny"}
  BY <1>1 DEF Permission, Tools
<1>5. CASE Permission[job.intent.tool] = "allow"
  <2>1. Carried(job) = {}
    BY <1>5 DEF Carried
  <2> QED
    BY <1>2, <1>5, <2>1 DEF Warrant
<1>6. CASE Permission[job.intent.tool] = "ask"
  <2>1. Carried(job) = job.approval /\ \E a \in job.approval : Covers(a, job.session, job.intent)
    BY <1>1, <1>6 DEF Carried, Permitted
  <2>2. PICK a \in Approvals : job.approval = {a} /\ Covers(a, job.session, job.intent)
    BY <1>3, <2>1 DEF Optional
  <2>3. a \in granted
    BY <2>2 DEF Covers, Lawful
  <2> QED
    BY <1>2, <1>6, <2>1, <2>2, <2>3 DEF Warrant, Covers
<1>7. CASE Permission[job.intent.tool] = "deny"
  BY <1>1, <1>7 DEF Permitted
<1> QED
  BY <1>4, <1>5, <1>6, <1>7

LEMMA NextLawful == Typed /\ Story /\ Lawful /\ [Next]_vars => Lawful'
<1> SUFFICES ASSUME Typed, Story, Lawful, [Next]_vars PROVE Lawful'
  OBVIOUS
<1>1. Kept
  BY StepKeeps
<1>2. ASSUME NEW c \in Calls, call'[c] # Absent, call'[c].status # "rejected"
      PROVE  Warrant(c)'
  <2>1. CASE call[c] # Absent
    <3>1. Warrant(c) /\ call[c] \in Call /\ Linked(c)
      BY <1>1, <1>2, <2>1, Rows DEF Kept, CallsKept, Lawful, Typed
    <3>2. /\ call'[c].session = call[c].session /\ call'[c].intent = call[c].intent
          /\ call'[c].approval = call[c].approval /\ granted \subseteq granted'
      BY <1>1, <2>1 DEF Kept, CallsKept
    <3>3. \A a \in call[c].approval :
            /\ approval'[a].session = approval[a].session
            /\ approval'[a].intent = approval[a].intent
      BY <1>1, <3>1 DEF Kept, ApprovalsKept, Linked, Call, Optional
    <3> QED
      BY <3>1, <3>2, <3>3 DEF Warrant
  <2>2. CASE call[c] = Absent
    <3>1. PICK w \in Workers : Authorize(w, c) \/ Deny(w, c)
      BY <1>1, <1>2, <2>2 DEF Kept, Created
    <3>2. ~Deny(w, c)
      BY <1>2 DEF Deny, NewCall, Typed, TypeOK
    <3> QED
      BY <3>1, <3>2, AuthorizedWarrant
  <2> QED
    BY <2>1, <2>2
<1> QED
  BY <1>2, GrantsKept DEF Lawful

LEMMA AlwaysLawful == Spec => [](Typed /\ Story /\ Lawful)
<1> QED
  BY InitTyped, NextTyped, InitStory, NextStory, InitLawful, NextLawful, PTL DEF Spec

\* No agent commits a revision but under the policy: by a tool that is allowed,
\* or with an approval that a resolver gave for exactly that.
THEOREM NothingWithoutApproval == Spec => []AppliedWithExactApproval
<1>1. Typed /\ Story /\ Lawful => AppliedWithExactApproval
  <2> SUFFICES ASSUME Typed, Story, Lawful, NEW e \in Applied
               PROVE  LET c == call[e.call]
                          permission == Permission[c.intent.tool] IN
                      /\ permission # "deny"
                      /\ permission = "ask" =>
                           \E a \in c.approval :
                             /\ a \in granted
                             /\ approval[a].session = c.session
                             /\ approval[a].intent = c.intent
    BY DEF AppliedWithExactApproval
  <2>1. /\ e.call \in Calls /\ call[e.call] # Absent
        /\ call[e.call].status = "completed"
    BY DEF Applied, Story, AgreesOn, Typed, TypeOK, Event
  <2>2. Warrant(e.call)
    BY <2>1 DEF Lawful
  <2> QED
    BY <2>2 DEF Warrant
<1> QED
  BY <1>1, AlwaysLawful, PTL

-------------------------------------------------------------------------------
(* One revision per approval of a pinned transaction.                      *)

\* The pin of a request is at least what its intent expects, and what it staged
\* is at the pin.
Pin(job) ==
  /\ job.step \in {"prepare", "apply", "save"} => IntentOf(job.call).expects \subseteq job.pin
  /\ job.step = "save" => job.pin \subseteq job.base

\* The revision an applied call made follows the one its intent expects.
Numbered(e) ==
  \E n \in Nat :
    /\ e.rev = {n + 1}
    /\ n + 1 <= revision[DocOf(e.call)]
    /\ IntentOf(e.call).expects \subseteq {n}

Pinned ==
  /\ \A w \in Workers : Pin(work[w])
  /\ \A e \in Applied : Numbered(e)
  /\ \A e, f \in Applied : DocOf(e.call) = DocOf(f.call) /\ e.rev = f.rev => e = f

LEMMA InitPinned == Init => Pinned
BY DEF Init, Pinned, Pin, Applied, Idle

\* An applied call: the row of it, its drawing, and the number it has.
LEMMA AppliedCall ==
  ASSUME Typed, Story, NEW e \in Applied
  PROVE  /\ e.call \in Calls /\ call[e.call] \in Call /\ call[e.call] # Absent
         /\ DocOf(e.call) \in Docs
         /\ call[e.call].status = "completed"
<1>1. e.call \in Calls /\ call[e.call] # Absent /\ call[e.call].status = "completed"
  BY DEF Applied, Story, AgreesOn, Typed, TypeOK, Event
<1>2. call[e.call] \in Call
  BY <1>1, Rows DEF Typed
<1> QED
  BY <1>1, <1>2, IntentFields DEF DocOf, IntentOf, Call

\* The number stays, whatever the drawing does next.
LEMMA NumberStays ==
  ASSUME Typed, Story, Kept, Typed', NEW e \in Applied, Numbered(e)
  PROVE  Numbered(e)'
<1>1. /\ IntentOf(e.call)' = IntentOf(e.call) /\ DocOf(e.call)' = DocOf(e.call)
      /\ DocOf(e.call) \in Docs
  BY AppliedCall DEF Kept, CallsKept, IntentOf, DocOf
<1>2. /\ revision[DocOf(e.call)] \in Nat /\ revision'[DocOf(e.call)] \in Nat
      /\ revision[DocOf(e.call)] <= revision'[DocOf(e.call)]
  BY <1>1, MaxRevisionAssumption DEF Kept, Typed, TypeOK, Revisions
<1>3. PICK n \in Nat : /\ e.rev = {n + 1} /\ n + 1 <= revision[DocOf(e.call)]
                       /\ IntentOf(e.call).expects \subseteq {n}
  BY DEF Numbered
<1>4. n + 1 <= revision'[DocOf(e.call)]
  BY <1>2, <1>3
<1> QED
  BY <1>1, <1>3, <1>4 DEF Numbered

\* What every other request holds stays pinned.
LEMMA PinStays ==
  ASSUME Typed, Story, Kept, NEW v \in Workers, work'[v] = work[v], Pin(work[v])
  PROVE  Pin(work[v])'
<1>1. CASE work[v].step \in {"prepare", "apply", "save"}
  <2>1. work[v].call \in Calls /\ call[work[v].call] # Absent
    BY <1>1, Executed, NeverAbsent DEF Steps
  <2>2. call'[work[v].call].intent = call[work[v].call].intent
    BY <2>1 DEF Kept, CallsKept
  <2> QED
    BY <2>2 DEF Pin, IntentOf
<1>2. CASE work[v].step \notin {"prepare", "apply", "save"}
  BY <1>2 DEF Pin
<1> QED
  BY <1>1, <1>2

\* A step that applies nothing.
LEMMA PinnedQuietly ==
  ASSUME Typed, Story, Pinned, Kept, Typed', NEW w \in Workers,
         \A v \in Workers : v # w => work'[v] = work[v], Pin(work[w])',
         Applied' = Applied
  PROVE  Pinned'
<1>1. \A v \in Workers : Pin(work[v])'
  BY PinStays DEF Pinned
<1>2. \A e \in Applied : Numbered(e)'
  BY NumberStays DEF Pinned
<1>3. \A e \in Applied : DocOf(e.call)' = DocOf(e.call)
  BY AppliedCall DEF Kept, CallsKept, DocOf, IntentOf
<1> QED
  BY <1>1, <1>2, <1>3 DEF Pinned

\* A request that has nothing pinned after its step.
LEMMA Unpinned ==
  ASSUME Typed, NEW w \in Workers,
         \/ \E job : Goto(w, job) /\ job.step \notin {"prepare", "apply", "save"}
         \/ \E step \in Steps \ {"prepare", "apply", "save"} :
              work[w].step \in Steps /\ Proceed(w, step)
  PROVE  Pin(work[w])' /\ \A v \in Workers : v # w => work'[v] = work[v]
<1>1. PICK job : Goto(w, job) /\ job.step \notin {"prepare", "apply", "save"}
  BY ProceedTyped
<1>2. work'[w] = job /\ \A v \in Workers : v # w => work'[v] = work[v]
  BY <1>1 DEF Goto, Typed, TypeOK
<1> QED
  BY <1>1, <1>2 DEF Pin

LEMMA SavePinned ==
  ASSUME Typed, Story, Pinned, Kept, Typed', NEW w \in Workers, Save(w)
  PROVE  Pinned'
<1>1. work[w].step \in Steps
  BY DEF Save, Steps
<1>2. PICK c \in Calls : c = work[w].call
  BY <1>1, Executed
<1>3. /\ call[c] \in Call /\ call[c] # Absent /\ DocOf(c) \in Docs
      /\ Now(c) \in Revisions /\ Now(c) \in Nat
  BY <1>1, <1>2, Executed, NeverAbsent, MaxRevisionAssumption DEF Revisions
<1>4. PICK n \in Nat : n = Now(c)
  BY <1>3
<1>5. IntentOf(c).expects \subseteq {n}
  BY <1>2, <1>4 DEF Save, Pinned, Pin
<1>6. PICK e : /\ e.kind = "applied" /\ e.call = c /\ e.rev = {n + 1}
               /\ chain' = chain \cup {e}
  <2> DEFINE e == [kind |-> "applied", call |-> c, rev |-> {n + 1}]
  <2>1. chain' = chain \cup {e} /\ e.kind = "applied" /\ e.call = c /\ e.rev = {n + 1}
    BY <1>2, <1>4 DEF Save
  <2> HIDE DEF e
  <2> QED
    BY <2>1
<1>7. Applied' = Applied \cup {e}
  BY <1>6 DEF Applied
<1>8. revision' = [revision EXCEPT ![DocOf(c)] = @ + 1]
  BY <1>2 DEF Save
<1>9. revision'[DocOf(c)] = n + 1
  BY <1>3, <1>4, <1>8 DEF Now, Typed, TypeOK
<1>10. IntentOf(c)' = IntentOf(c) /\ DocOf(c)' = DocOf(c)
  BY <1>3 DEF Kept, CallsKept, IntentOf, DocOf
<1>11. Numbered(e)'
  BY <1>4, <1>5, <1>6, <1>9, <1>10 DEF Numbered
<1>12. \A f \in Applied : Numbered(f)'
  BY NumberStays DEF Pinned
<1>13. ASSUME NEW f \in Applied, DocOf(f.call) = DocOf(c) PROVE f.rev # {n + 1}
  <2>1. PICK m \in Nat : f.rev = {m + 1} /\ m + 1 <= revision[DocOf(c)]
    BY <1>13 DEF Pinned, Numbered
  <2>2. revision[DocOf(c)] = n
    BY <1>4 DEF Now
  <2>3. m + 1 # n + 1
    BY <2>1, <2>2
  <2> QED
    BY <2>1, <2>3
<1>14. \A f \in Applied : DocOf(f.call)' = DocOf(f.call)
  BY AppliedCall DEF Kept, CallsKept, DocOf, IntentOf
<1>15. ASSUME NEW f \in Applied', NEW g \in Applied',
              (DocOf(f.call) = DocOf(g.call))', f.rev = g.rev
       PROVE  f = g
  BY <1>6, <1>7, <1>10, <1>13, <1>14, <1>15 DEF Pinned
<1>16. Goto(w, Idle) /\ Idle.step \notin {"prepare", "apply", "save"}
  BY DEF Save, Idle
<1>17. Pin(work[w])' /\ \A v \in Workers : v # w => work'[v] = work[v]
  BY <1>16, Unpinned
<1>18. \A v \in Workers : Pin(work[v])'
  BY <1>17, PinStays DEF Pinned
<1> QED
  BY <1>7, <1>11, <1>12, <1>15, <1>18 DEF Pinned

\* What a request pins: authorize takes the intent's expected revision, the
\* compiler and the layout engine the one they read, staging the one it found.
LEMMA PinningStep ==
  ASSUME Typed, Story, Pinned, Typed', NEW w \in Workers,
         \/ \E c \in Calls : Authorize(w, c)
         \/ Prepared(w) \/ Stage(w)
  PROVE  /\ \A v \in Workers : v # w => work'[v] = work[v]
         /\ Pin(work[w])'
         /\ UNCHANGED chain
<1>1. ASSUME NEW c \in Calls, Authorize(w, c)
      PROVE  /\ \A v \in Workers : v # w => work'[v] = work[v]
             /\ Pin(work[w])'
  <2> DEFINE first == IF work[w].intent.tool = "compiled" THEN "apply" ELSE "prepare"
  <2>1. /\ work'[w] = Execute(first, c, work[w].surface, work[w].intent.expects, {})
        /\ \A v \in Workers : v # w => work'[v] = work[v]
        /\ call'[c].intent = work[w].intent
    BY <1>1 DEF Authorize, NewCall, Goto, Typed, TypeOK
  <2>2. work'[w].step # "save" /\ work'[w].call = c /\ work'[w].pin = call'[c].intent.expects
    BY <2>1 DEF Execute
  <2> QED
    BY <2>1, <2>2 DEF Pin, IntentOf
<1>2. ASSUME Prepared(w) \/ Stage(w)
      PROVE  /\ \A v \in Workers : v # w => work'[v] = work[v]
             /\ Pin(work[w])'
  <2>1. work[w].step \in Steps /\ UNCHANGED call
    BY <1>2 DEF Prepared, Stage, Steps, tables
  <2>2. work[w] \in Executing /\ IntentOf(work[w].call).expects \subseteq work[w].pin
    BY <1>2, <2>1, Executed DEF Prepared, Stage, Pinned, Pin
  <2>3. PICK r : r = Now(work[w].call) /\ work[w].pin \subseteq {r}
    BY <1>2 DEF Prepared, Stage, Expected
  <2>4. \/ work'[w] = [work[w] EXCEPT !.step = "apply", !.pin = {r}]
        \/ work'[w] = [work[w] EXCEPT !.step = "save", !.base = {r}]
    BY <1>2, <2>3 DEF Prepared, Stage, Goto, Typed, TypeOK
  <2>5. \A v \in Workers : v # w => work'[v] = work[v]
    BY <1>2 DEF Prepared, Stage, Goto, Typed, TypeOK
  <2>6. /\ work'[w].call = work[w].call
        /\ \/ work'[w].step = "apply" /\ work'[w].pin = {r}
           \/ /\ work'[w].step = "save" /\ work'[w].base = {r}
              /\ work'[w].pin = work[w].pin
    BY <2>2, <2>4 DEF Executing
  <2>7. call'[work'[w].call].intent = call[work[w].call].intent
    BY <2>1, <2>6
  <2> QED
    BY <2>2, <2>3, <2>5, <2>6, <2>7 DEF Pin, IntentOf
<1>3. UNCHANGED chain
  BY DEF Authorize, Prepared, Stage, tables
<1> QED
  BY <1>1, <1>2, <1>3

LEMMA NextPinned == Typed /\ Story /\ Pinned /\ [Next]_vars => Pinned'
<1> SUFFICES ASSUME Typed, Story, Pinned, [Next]_vars PROVE Pinned'
  OBVIOUS
<1>1. Kept /\ Typed'
  BY StepKeeps, NextTyped
<1>2. ASSUME UNCHANGED work, UNCHANGED chain PROVE Pinned'
  <2>1. Applied' = Applied
    BY <1>2 DEF Applied
  <2>2. \A v \in Workers : Pin(work[v])'
    BY <1>1, <1>2, PinStays DEF Pinned
  <2>3. \A e \in Applied : Numbered(e)' /\ DocOf(e.call)' = DocOf(e.call)
    BY <1>1, NumberStays, AppliedCall DEF Pinned, Kept, CallsKept, DocOf, IntentOf
  <2> QED
    BY <2>1, <2>2, <2>3 DEF Pinned
<1>3. CASE UNCHANGED vars
  BY <1>2, <1>3 DEF vars
<1>4. CASE Environment
  BY <1>2, <1>4 DEF Environment, EditElsewhere, CreateSession, RecordSynthesisProposal,
                    RequestApproval
<1>5. ASSUME NEW w \in Workers, Request(w) PROVE Pinned'
  <2>1. ASSUME \/ \E c \in Calls : Authorize(w, c)
               \/ Prepared(w) \/ Stage(w)
        PROVE  Pinned'
    <3>1. /\ \A v \in Workers : v # w => work'[v] = work[v]
          /\ Pin(work[w])' /\ UNCHANGED chain
      BY <1>1, <2>1, PinningStep
    <3>2. Applied' = Applied
      BY <3>1 DEF Applied
    <3> QED
      BY <1>1, <3>1, <3>2, PinnedQuietly
  <2>2. CASE Save(w)
    BY <1>1, <2>2, SavePinned
  <2>3. ASSUME Pin(work[w])' /\ \A v \in Workers : v # w => work'[v] = work[v],
               Applied' = Applied
        PROVE  Pinned'
    BY <1>1, <2>3, PinnedQuietly
  <2>4. ASSUME \/ WriteVerdict(w) \/ DenyUnrecorded(w) \/ AuditDenial(w)
               \/ LayoutConflict(w) \/ CompleteSession(w) \/ FailToolCall(w)
        PROVE  Pinned'
    <3>1. Goto(w, Idle) /\ Idle.step \notin {"prepare", "apply", "save"}
      BY <2>4 DEF WriteVerdict, DenyUnrecorded, AuditDenial, LayoutConflict,
                  CompleteSession, FailToolCall, Idle
    <3>2. Applied' = Applied
      BY <2>4 DEF WriteVerdict, DenyUnrecorded, AuditDenial, LayoutConflict,
                  CompleteSession, FailToolCall, tables, Applied
    <3> QED
      BY <2>3, <3>1, <3>2, Unpinned
  <2>5. ASSUME CompileInvalid(w) \/ CompleteToolCall(w) \/ StageRefused(w) \/ SaveConflict(w)
        PROVE  Pinned'
    <3>1. PICK step \in Steps \ {"prepare", "apply", "save"} :
            work[w].step \in Steps /\ Proceed(w, step)
      BY <2>5 DEF CompileInvalid, CompleteToolCall, StageRefused, SaveConflict, Steps
    <3>2. Applied' = Applied
      BY <2>5 DEF CompileInvalid, CompleteToolCall, StageRefused, SaveConflict, tables, Applied
    <3> QED
      BY <2>3, <3>1, <3>2, Unpinned
  <2>6. CASE RecordFailure(w)
    <3>1. Applied' = Applied
      BY <2>6 DEF RecordFailure, Applied
    <3>2. CASE Goto(w, Idle)
      <4>1. Idle.step \notin {"prepare", "apply", "save"}
        BY DEF Idle
      <4> QED
        BY <2>3, <3>1, <3>2, <4>1, Unpinned
    <3>3. CASE Proceed(w, "fail")
      <4>1. work[w].step \in Steps /\ "fail" \in Steps \ {"prepare", "apply", "save"}
        BY <2>6 DEF RecordFailure, Steps
      <4> QED
        BY <2>3, <3>1, <3>3, <4>1, Unpinned
    <3> QED
      BY <2>6, <3>2, <3>3 DEF RecordFailure
  <2>7. ASSUME NEW a \in Approvals, NEW verdict \in {"approved", "rejected"},
               ReadPending(w, a, verdict)
        PROVE  Pinned'
    <3>1. \E job : Goto(w, job) /\ job.step \notin {"prepare", "apply", "save"}
      BY <2>7 DEF ReadPending
    <3>2. Applied' = Applied
      BY <2>7 DEF ReadPending, tables, Applied
    <3> QED
      BY <2>3, <3>1, <3>2, Unpinned
  <2>8. ASSUME NEW s \in Sessions, NEW i \in Intents, NEW ref \in Optional(Approvals),
               NEW surface \in {"rest", "mcp"}, Open(w, s, i, ref, surface)
        PROVE  Pinned'
    <3>1. \E job : Goto(w, job) /\ job.step \notin {"prepare", "apply", "save"}
      BY <2>8 DEF Open
    <3>2. Applied' = Applied
      BY <2>8 DEF Open, tables, Applied
    <3> QED
      BY <2>3, <3>1, <3>2, Unpinned
  <2>9. ASSUME NEW c \in Calls, Deny(w, c) PROVE Pinned'
    <3>1. PICK job : Goto(w, job) /\ job.step = "refuse"
      BY <2>9 DEF Deny, Execute
    <3>2. Applied' = Applied
      BY <2>9 DEF Deny, Applied
    <3> QED
      BY <2>3, <3>1, <3>2, Unpinned
  <2>10. CASE NothingToApply(w)
    <3>1. work[w].step \in Steps
      BY <2>10 DEF NothingToApply, Steps
    <3>2. work[w] \in Executing
      BY <3>1, Executed
    <3>3. PICK job : job = [work[w] EXCEPT !.step = "done", !.pin = {Now(work[w].call)}]
      OBVIOUS
    <3>4. Goto(w, job) /\ job.step = "done"
      BY <2>10, <3>2, <3>3 DEF NothingToApply, Executing
    <3>5. Applied' = Applied
      BY <2>10 DEF NothingToApply, tables, Applied
    <3> QED
      BY <2>3, <3>4, <3>5, Unpinned
  <2> QED
    BY <1>5, <2>1, <2>2, <2>4, <2>5, <2>6, <2>7, <2>8, <2>9, <2>10 DEF Request
<1> QED
  BY <1>3, <1>4, <1>5 DEF Next

LEMMA AlwaysPinned == Spec => [](Typed /\ Story /\ Lawful /\ Pinned)
<1> QED
  BY InitTyped, NextTyped, InitStory, NextStory, InitLawful, NextLawful,
     InitPinned, NextPinned, PTL DEF Spec

\* Two revisions never rest on one approval of a transaction that says which
\* revision it expects, however many requests the approval authorized.
THEOREM PinnedApprovalIsUsedOnce == Spec => []OneRevisionPerPinnedApproval
<1>1. Typed /\ Story /\ Lawful /\ Pinned => OneRevisionPerPinnedApproval
  <2> SUFFICES ASSUME Typed, Story, Lawful, Pinned, NEW e \in Applied, NEW f \in Applied,
                      call[e.call].approval \cap call[f.call].approval # {},
                      IntentOf(e.call).expects # {}
               PROVE  e = f
    BY DEF OneRevisionPerPinnedApproval
  <2>1. PICK a : a \in call[e.call].approval /\ a \in call[f.call].approval
    OBVIOUS
  <2>2. Warrant(e.call) /\ Warrant(f.call)
    BY AppliedCall DEF Lawful
  <2>3. IntentOf(e.call) = IntentOf(f.call)
    BY <2>1, <2>2 DEF Warrant, IntentOf
  <2>4. PICK m \in Nat : e.rev = {m + 1} /\ IntentOf(e.call).expects \subseteq {m}
    BY DEF Pinned, Numbered
  <2>5. PICK n \in Nat : f.rev = {n + 1} /\ IntentOf(f.call).expects \subseteq {n}
    BY DEF Pinned, Numbered
  <2>6. m = n
    BY <2>3, <2>4, <2>5
  <2> QED
    BY <2>3, <2>4, <2>5, <2>6 DEF Pinned, DocOf
<1> QED
  BY <1>1, AlwaysPinned, PTL

-------------------------------------------------------------------------------
(* No call is left running but a layout that found another revision.       *)

\* Why a layout may have been left: the drawing was at a revision, now past or
\* present, that it does not expect.
Missed(c) ==
  /\ IntentOf(c).tool = "layout"
  /\ \E past \in 0..Now(c) : ~Expected(IntentOf(c).expects, past)

\* What a request has pinned until something is prepared: what was asked for.
\* Without it a refused preview would say nothing of the intent of the call.
Asked ==
  \A w \in Workers : work[w].step = "prepare" =>
    work[w].pin = IntentOf(work[w].call).expects

LEMMA InitAsked == Init => Asked /\ RunningCallsAreHeld
BY DEF Init, Asked, Idle, RunningCallsAreHeld, Absent

\* One request moves, and begins to prepare only when its call is authorized.
LEMMA RequestMoves ==
  ASSUME Typed, Story, NEW w \in Workers, Request(w)
  PROVE  /\ \A v \in Workers : v # w => work'[v] = work[v]
         /\ (\E c \in Calls : Authorize(w, c)) \/ work'[w].step # "prepare"
<1>1. ASSUME NEW job, Goto(w, job)
      PROVE  work'[w] = job /\ \A v \in Workers : v # w => work'[v] = work[v]
  BY <1>1 DEF Goto, Typed, TypeOK
<1>2. Idle.step # "prepare"
  BY DEF Idle
<1>3. CASE \E c \in Calls : Authorize(w, c)
  BY <1>1, <1>3 DEF Authorize
<1>4. CASE \E c \in Calls : Deny(w, c)
  BY <1>1, <1>4 DEF Deny, Execute
<1>5. CASE \/ WriteVerdict(w) \/ DenyUnrecorded(w) \/ AuditDenial(w) \/ LayoutConflict(w)
           \/ CompleteSession(w) \/ FailToolCall(w) \/ Save(w)
  <2>1. Save(w) => Goto(w, Idle)
    BY DEF Save
  <2>2. Goto(w, Idle)
    BY <1>5, <2>1 DEF WriteVerdict, DenyUnrecorded, AuditDenial, LayoutConflict,
                      CompleteSession, FailToolCall
  <2> QED
    BY <1>1, <1>2, <2>2
<1>6. CASE \/ Prepared(w) \/ NothingToApply(w) \/ Stage(w)
           \/ CompileInvalid(w) \/ CompleteToolCall(w) \/ StageRefused(w) \/ SaveConflict(w)
  <2>1. work[w] \in Executing
    BY <1>6, Executed DEF Prepared, NothingToApply, Stage, CompileInvalid,
                          CompleteToolCall, StageRefused, SaveConflict, Steps
  <2>2. PICK r : r = Now(work[w].call)
    OBVIOUS
  <2>3. \/ Goto(w, [work[w] EXCEPT !.step = "apply", !.pin = {r}])
        \/ Goto(w, [work[w] EXCEPT !.step = "done", !.pin = {r}])
        \/ Goto(w, [work[w] EXCEPT !.step = "save", !.base = {r}])
        \/ \E step \in {"fail", "complete", "close"} : Proceed(w, step)
    BY <1>6, <2>2 DEF Prepared, NothingToApply, Stage, CompileInvalid, CompleteToolCall,
                      StageRefused, SaveConflict
  <2>4. \A step \in {"fail", "complete", "close"} :
          Proceed(w, step) => Goto(w, [work[w] EXCEPT !.step = step])
    BY DEF Proceed
  <2>5. \E job : Goto(w, job) /\ job.step # "prepare"
    <3>1. /\ [work[w] EXCEPT !.step = "apply", !.pin = {r}].step # "prepare"
          /\ [work[w] EXCEPT !.step = "done", !.pin = {r}].step # "prepare"
          /\ [work[w] EXCEPT !.step = "save", !.base = {r}].step # "prepare"
          /\ \A step \in {"fail", "complete", "close"} :
               [work[w] EXCEPT !.step = step].step # "prepare"
      BY <2>1 DEF Executing
    <3> QED
      BY <2>3, <2>4, <3>1, Zenon
  <2> QED
    BY <1>1, <2>5
<1>7. CASE RecordFailure(w)
  <2>1. work[w] \in Executing
    BY <1>7, Executed DEF RecordFailure, Steps
  <2>2. \E job : Goto(w, job) /\ job.step # "prepare"
    BY <1>2, <1>7, <2>1 DEF RecordFailure, Proceed, Executing
  <2> QED
    BY <1>1, <2>2
<1>8. ASSUME NEW a \in Approvals, NEW verdict \in {"approved", "rejected"},
             ReadPending(w, a, verdict)
      PROVE  /\ \A v \in Workers : v # w => work'[v] = work[v]
             /\ work'[w].step # "prepare"
  BY <1>1, <1>8 DEF ReadPending
<1>9. ASSUME NEW s \in Sessions, NEW i \in Intents, NEW ref \in Optional(Approvals),
             NEW surface \in {"rest", "mcp"}, Open(w, s, i, ref, surface)
      PROVE  /\ \A v \in Workers : v # w => work'[v] = work[v]
             /\ work'[w].step # "prepare"
  BY <1>1, <1>9 DEF Open
<1> QED
  BY <1>3, <1>4, <1>5, <1>6, <1>7, <1>8, <1>9 DEF Request

LEMMA NextAsked == Typed /\ Story /\ Asked /\ [Next]_vars => Asked'
<1> SUFFICES ASSUME Typed, Story, Asked, [Next]_vars PROVE Asked'
  OBVIOUS
<1>1. Kept
  BY StepKeeps
<1>2. ASSUME NEW v \in Workers, work'[v] = work[v], work'[v].step = "prepare"
      PROVE  work'[v].pin = IntentOf(work[v].call)'.expects
  <2>1. work[v].call \in Calls /\ call[work[v].call] # Absent
    BY <1>2, Executed, NeverAbsent DEF Steps
  <2>2. call'[work[v].call].intent = call[work[v].call].intent
    BY <1>1, <2>1 DEF Kept, CallsKept
  <2> QED
    BY <1>2, <2>2 DEF Asked, IntentOf
<1>3. CASE UNCHANGED work
  BY <1>2, <1>3 DEF Asked, IntentOf
<1>4. ASSUME NEW w \in Workers, Request(w) PROVE Asked'
  <2>1. /\ \A v \in Workers : v # w => work'[v] = work[v]
        /\ (\E c \in Calls : Authorize(w, c)) \/ work'[w].step # "prepare"
    BY <1>4, RequestMoves
  <2>2. ASSUME NEW c \in Calls, Authorize(w, c), work'[w].step = "prepare"
        PROVE  work'[w].pin = IntentOf(work[w].call)'.expects
    <3>1. PICK step :
            work'[w] = Execute(step, c, work[w].surface, work[w].intent.expects, {})
      BY <2>2 DEF Authorize, Goto, Typed, TypeOK
    <3>2. call'[c].intent = work[w].intent
      BY <2>2 DEF Authorize, NewCall, Typed, TypeOK
    <3> QED
      BY <3>1, <3>2 DEF Execute, IntentOf
  <2> QED
    BY <1>2, <2>1, <2>2 DEF Asked, IntentOf
<1> QED
  BY <1>3, <1>4 DEF Next, vars, Environment, EditElsewhere, CreateSession,
                    RecordSynthesisProposal, RequestApproval

\* A call that is closed is not opened again.
LEMMA NeverReopened ==
  ASSUME Typed, Story, [Next]_vars, NEW c \in Calls,
         call[c] # Absent, call'[c].status = "running"
  PROVE  call[c].status = "running"
<1>1. CASE UNCHANGED call
  BY <1>1
<1>2. ASSUME NEW w \in Workers, NEW b \in Calls, Authorize(w, b) \/ Deny(w, b)
      PROVE  call'[c] = call[c]
  BY <1>2 DEF Authorize, Deny, NewCall, Typed, TypeOK
<1>3. ASSUME NEW w \in Workers,
             CompleteToolCall(w) \/ Save(w) \/ RecordFailure(w) \/ FailToolCall(w)
      PROVE  call'[c] = call[c]
  <2>1. work[w].step \in {"done", "save", "close", "fail"}
    <3>1. CompleteToolCall(w) => work[w].step = "done"
      BY DEF CompleteToolCall
    <3>2. Save(w) => work[w].step = "save"
      BY DEF Save
    <3>3. RecordFailure(w) => work[w].step = "close"
      BY DEF RecordFailure
    <3>4. FailToolCall(w) => work[w].step = "fail"
      BY DEF FailToolCall
    <3> QED
      BY <1>3, <3>1, <3>2, <3>3, <3>4
  <2>2. PICK b \in Calls : b = work[w].call /\ call[b] \in Call
    BY <2>1, Executed DEF Steps
  <2>3. \/ call' = [call EXCEPT ![b].status = "completed", ![b].result = work[w].pin]
        \/ call' = [call EXCEPT ![b].status = "completed", ![b].result = {Now(b) + 1}]
        \/ call' = [call EXCEPT ![b].status = "failed"]
    <3>1. CompleteToolCall(w) =>
            call' = [call EXCEPT ![b].status = "completed", ![b].result = work[w].pin]
      BY <2>2 DEF CompleteToolCall
    <3>2. Save(w) =>
            call' = [call EXCEPT ![b].status = "completed", ![b].result = {Now(b) + 1}]
      BY <2>2 DEF Save
    <3>3. RecordFailure(w) \/ FailToolCall(w) => call' = [call EXCEPT ![b].status = "failed"]
      BY <2>2 DEF RecordFailure, FailToolCall
    <3> QED
      BY <1>3, <3>1, <3>2, <3>3
  <2>4. /\ call'[b].status \in {"completed", "failed"}
        /\ \A a \in Calls : a # b => call'[a] = call[a]
    BY <2>2, <2>3 DEF Typed, TypeOK, Call
  <2> QED
    BY <2>4
<1>4. ASSUME NEW w \in Workers, Request(w),
             \A b \in Calls : ~Authorize(w, b) /\ ~Deny(w, b),
             ~CompleteToolCall(w), ~Save(w), ~RecordFailure(w), ~FailToolCall(w)
      PROVE  UNCHANGED call
  BY <1>4 DEF Request, ReadPending, WriteVerdict, Open, DenyUnrecorded, AuditDenial, Prepared,
              CompileInvalid, LayoutConflict, NothingToApply, CompleteSession,
              Stage, StageRefused, SaveConflict, tables
<1>5. Environment => UNCHANGED call
  BY DEF Environment, EditElsewhere, CreateSession, RecordSynthesisProposal, RequestApproval
<1> QED
  BY <1>1, <1>2, <1>3, <1>4, <1>5 DEF Next, vars

\* What holds of a running call after a step held before it: the request that
\* executed the call still does, or has closed it, or has just missed.
LEMMA NextHeld ==
  ASSUME Typed, Story, Asked, RunningCallsAreHeld, [Next]_vars
  PROVE  RunningCallsAreHeld'
<1>1. Kept /\ Typed'
  BY StepKeeps, NextTyped
<1>2. ASSUME NEW v \in Workers, work'[v].step \in Steps PROVE work'[v] \in Executing
  BY <1>1, <1>2, Jobs DEF Typed, TypeOK, Resolving, Opened, Executing, Idle, Steps
<1> SUFFICES ASSUME NEW c \in Calls, call'[c].status = "running"
             PROVE  Held(c)' \/ Missed(c)'
  BY DEF RunningCallsAreHeld, Missed
<1>3. CASE call[c] = Absent
  <2>1. call'[c] # Absent
    BY DEF Absent
  <2>2. PICK w \in Workers : Authorize(w, c) \/ Deny(w, c)
    BY <1>1, <1>3, <2>1 DEF Kept, Created
  <2>3. Authorize(w, c)
    BY <2>2 DEF Deny, NewCall, Typed, TypeOK
  <2>4. work'[w].call = c /\ work'[w].step \in {"apply", "prepare"}
    BY <2>3 DEF Authorize, Execute, Goto, Typed, TypeOK
  <2> QED
    BY <1>2, <2>4 DEF Held, Steps
<1>4. CASE call[c] # Absent
  <2>1. call[c].status = "running" /\ call[c] \in Call /\ DocOf(c) \in Docs
    BY <1>4, NeverReopened, Rows, IntentFields DEF Typed, Call, DocOf, IntentOf
  <2>2. IntentOf(c)' = IntentOf(c) /\ DocOf(c)' = DocOf(c)
    BY <1>1, <1>4 DEF Kept, CallsKept, IntentOf, DocOf
  <2>3. Now(c) \in Nat /\ Now(c)' \in Nat /\ Now(c) <= Now(c)'
    BY <1>1, <2>1, <2>2, MaxRevisionAssumption DEF Kept, Typed, TypeOK, Revisions, Now
  <2>4. Missed(c) => Missed(c)'
    BY <2>2, <2>3 DEF Missed
  <2>5. ASSUME NEW v \in Workers, work[v] \in Executing, work[v].call = c, work'[v] = work[v]
        PROVE  Held(c)'
    BY <2>5 DEF Held
  <2>6. ASSUME NEW w \in Workers, Request(w), work[w] \in Executing, work[w].call = c
        PROVE  Held(c)' \/ Missed(c)'
    <3>1. work[w].step \in Steps \ {"refuse", "complete"}
      BY <2>1, <2>6 DEF Executing, Steps, Story, Phase
    <3>2. ASSUME NEW job, Goto(w, job), job.step \in Steps, job.call = c
          PROVE  Held(c)'
      <4>1. work'[w] = job
        BY <3>2 DEF Goto, Typed, TypeOK
      <4> QED
        BY <1>2, <3>2, <4>1 DEF Held
    <3>3. CASE LayoutConflict(w)
      <4>1. IntentOf(c).tool = "layout" /\ ~Expected(IntentOf(c).expects, Now(c))
        BY <2>6, <3>3 DEF LayoutConflict, Asked
      <4> QED
        BY <2>3, <2>4, <4>1 DEF Missed
    <3>4. CASE Prepared(w) \/ NothingToApply(w) \/ Stage(w)
      <4>1. PICK r : r = Now(work[w].call)
        OBVIOUS
      <4>2. \/ Goto(w, [work[w] EXCEPT !.step = "apply", !.pin = {r}])
            \/ Goto(w, [work[w] EXCEPT !.step = "done", !.pin = {r}])
            \/ Goto(w, [work[w] EXCEPT !.step = "save", !.base = {r}])
        BY <3>4, <4>1 DEF Prepared, NothingToApply, Stage
      <4>3. \A step \in Steps :
              /\ [work[w] EXCEPT !.step = step, !.pin = {r}].step = step
              /\ [work[w] EXCEPT !.step = step, !.pin = {r}].call = c
              /\ [work[w] EXCEPT !.step = step, !.base = {r}].step = step
              /\ [work[w] EXCEPT !.step = step, !.base = {r}].call = c
        BY <2>6 DEF Executing
      <4> QED
        BY <3>2, <4>2, <4>3 DEF Steps
    <3>5. ASSUME NEW step \in Steps, Proceed(w, step) PROVE Held(c)'
      <4>1. PICK job : Goto(w, job) /\ job = [work[w] EXCEPT !.step = step]
        BY <3>5 DEF Proceed
      <4>2. job.step = step /\ job.call = c
        BY <2>6, <4>1 DEF Executing
      <4> QED
        BY <3>2, <4>1, <4>2
    <3>6. CASE CompileInvalid(w) \/ CompleteToolCall(w) \/ StageRefused(w) \/ SaveConflict(w)
      <4>1. \E step \in {"fail", "complete", "close"} : Proceed(w, step)
        BY <3>6 DEF CompileInvalid, CompleteToolCall, StageRefused, SaveConflict
      <4> QED
        BY <3>5, <4>1 DEF Steps
    <3>7. ~Save(w)
      <4>1. Save(w) => \E result :
              call' = [call EXCEPT ![c].status = "completed", ![c].result = result]
        BY <2>6 DEF Save
      <4> QED
        BY <2>1, <4>1 DEF Typed, TypeOK, Call
    <3>8. ~RecordFailure(w) /\ ~FailToolCall(w)
      <4>1. RecordFailure(w) \/ FailToolCall(w) => call' = [call EXCEPT ![c].status = "failed"]
        BY <2>6 DEF RecordFailure, FailToolCall
      <4> QED
        BY <2>1, <4>1 DEF Typed, TypeOK, Call
    <3>9. /\ ~WriteVerdict(w) /\ ~DenyUnrecorded(w) /\ ~AuditDenial(w) /\ ~CompleteSession(w)
          /\ \A b \in Calls : ~Authorize(w, b) /\ ~Deny(w, b)
          /\ \A a \in Approvals, verdict \in {"approved", "rejected"} :
               ~ReadPending(w, a, verdict)
          /\ \A s \in Sessions, i \in Intents, ref \in Optional(Approvals),
               surface \in {"rest", "mcp"} : ~Open(w, s, i, ref, surface)
      BY <3>1 DEF WriteVerdict, DenyUnrecorded, AuditDenial, CompleteSession, Authorize, Deny,
                  ReadPending, Open, Idle, Steps
    <3> QED
      BY <2>6, <3>3, <3>4, <3>6, <3>7, <3>8, <3>9 DEF Request
  <2>7. Held(c) \/ Missed(c)
    BY <2>1 DEF RunningCallsAreHeld, Missed
  <2>8. ASSUME NEW v \in Workers, work[v] \in Executing, work[v].call = c
        PROVE  Held(c)' \/ Missed(c)'
    <3>1. CASE UNCHANGED work
      BY <2>5, <2>8, <3>1
    <3>2. ASSUME NEW w \in Workers, Request(w) PROVE Held(c)' \/ Missed(c)'
      <4>1. \A u \in Workers : u # w => work'[u] = work[u]
        BY <3>2, RequestMoves
      <4>2. CASE v = w
        BY <2>6, <2>8, <3>2, <4>2
      <4>3. CASE v # w
        BY <2>5, <2>8, <4>1, <4>3
      <4> QED
        BY <4>2, <4>3
    <3> QED
      BY <3>1, <3>2 DEF Next, vars, Environment, EditElsewhere, CreateSession,
                        RecordSynthesisProposal, RequestApproval
  <2> QED
    BY <2>4, <2>7, <2>8 DEF Held
<1> QED
  BY <1>3, <1>4

\* A call is never left running behind the code that executes it, but by a
\* layout that was previewed on another revision than it expects: every other
\* way out of a tool closes its call.
THEOREM NoStrayCalls == Spec => []RunningCallsAreHeld
BY InitTyped, NextTyped, InitStory, NextStory, InitAsked, NextAsked, NextHeld, PTL DEF Spec

===============================================================================
