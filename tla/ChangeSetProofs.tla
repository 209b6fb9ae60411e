--------------------------- MODULE ChangeSetProofs ---------------------------
(***************************************************************************)
(* Proofs about ChangeSet, for any documents, links, change sets, sessions,*)
(* calls and requests at a time.                                           *)
(***************************************************************************)
EXTENDS ChangeSet, TLAPS

-------------------------------------------------------------------------------
(* Types.                                                                  *)

\* Which step belongs to which phase, and what a request has by then: a session
\* once one is named, a call once it is authorized or denied.
Staged(job) ==
  /\ job.step = "mark" => job.phase = (IF deployment = "shared" THEN "execute" ELSE "ask")
  /\ job.step \in {"session", "resolve", "verdict"} => job.phase = "ask"
  /\ job.step \in {"judge", "refuse"} => job.phase = "authorize"
  /\ job.step \in {"execute", "commit", "close"} => job.phase = "execute"
  /\ job.session = {} <=> job.phase = "ask" /\ job.step \in {"mark", "session"}
  /\ job.call = {} <=> job.phase # "execute" /\ job.step # "refuse"

\* What it holds is there: its call, and the approval it is about to resolve.
Sound(job) ==
  /\ job \in Job => Staged(job) /\ \A c \in job.call : call[c] # Absent
  /\ job.step = "verdict" => \A s \in job.session : approval[s] # Absent

Typed ==
  /\ TypeOK
  /\ \A w \in Workers : Sound(work[w])

\* The rows that are there have a status of their table, none is "absent".
LEMMA NeverAbsent ==
  /\ \A x \in LinkRow : x # Absent /\ x.status # "absent"
  /\ \A x \in ApprovalRow : x # Absent /\ x.status # "absent"
  /\ \A x \in CallRow : x # Absent /\ x.status # "absent"
  /\ Absent.status = "absent"
BY DEF LinkRow, ApprovalRow, CallRow, Absent

\* A row that is there has the fields of its table.
LEMMA Rows ==
  ASSUME TypeOK
  PROVE  /\ \A l \in Links : link[l] # Absent => link[l] \in LinkRow
         /\ \A s \in Sessions : approval[s] # Absent => approval[s] \in ApprovalRow
         /\ \A c \in Calls : call[c] # Absent => call[c] \in CallRow
         /\ \A x \in ChangeSets : changeSet[x] # Absent =>
              \E declared \in SUBSET Docs : changeSet[x] \in RowOver(declared)
BY DEF TypeOK

LEMMA RowFields ==
  ASSUME TypeOK, NEW x \in ChangeSets, changeSet[x].status # "absent"
  PROVE  /\ changeSet[x] # Absent
         /\ DOMAIN changeSet[x].pins \in SUBSET Docs
         /\ changeSet[x] \in RowOver(DOMAIN changeSet[x].pins)
         /\ changeSet[x].pins \in [DOMAIN changeSet[x].pins -> Nat]
         /\ changeSet[x].mutates \subseteq DOMAIN changeSet[x].pins
<1>1. changeSet[x] # Absent
  BY DEF Absent
<1>2. PICK declared \in SUBSET Docs : changeSet[x] \in RowOver(declared)
  BY <1>1, Rows
<1>3. /\ changeSet[x].pins \in [declared -> Nat]
      /\ changeSet[x].mutates \subseteq declared
  BY <1>2 DEF RowOver
<1>4. DOMAIN changeSet[x].pins = declared
  BY <1>3
<1> QED
  BY <1>1, <1>2, <1>3, <1>4

\* The step of a request tells its kind.
LEMMA Jobs ==
  ASSUME TypeOK, NEW w \in Workers
  PROVE  /\ work[w].step \notin {"idle", "verdict"} => work[w] \in Job
         /\ work[w].step = "verdict" => work[w] \in Job \cup Resolving
         /\ work[w].step = "idle" <=> work[w] = Idle
         /\ work[w] \in Job => work[w].step # "idle"
BY DEF TypeOK, Job, Resolving, Idle

LEMMA JobFields ==
  ASSUME NEW job \in Job
  PROVE  /\ job.of \in ChangeSets
         /\ job.session \in Optional(Sessions) /\ job.session \subseteq Sessions
         /\ job.call \in Optional(Calls) /\ job.call \subseteq Calls
         /\ job.impact \subseteq Pinned
         /\ job \notin Resolving /\ job # Idle
BY DEF Job, Optional, Resolving, Idle

LEMMA ImpactIsPinned ==
  ASSUME TypeOK, NEW row
  PROVE  Impact(row) \subseteq Pinned
<1> SUFFICES ASSUME NEW l \in Affected(row)
             PROVE  [link |-> l, source |-> link[l].source, target |-> link[l].target] \in Pinned
  BY DEF Impact
<1>1. l \in Links /\ link[l].status = "active"
  BY DEF Affected, Linked
<1>2. link[l] \in LinkRow
  BY <1>1, Rows DEF Absent
<1> QED
  BY <1>1, <1>2 DEF LinkRow, Pinned

\* A transition leaves a table of change sets behind.
ChangeSetsOK(table) ==
  /\ DOMAIN table = ChangeSets
  /\ \A x \in ChangeSets : table[x] = Absent \/ \E D \in SUBSET Docs : table[x] \in RowOver(D)

LEMMA MovedOK ==
  ASSUME TypeOK, NEW x \in ChangeSets, NEW from,  from # "absent",
         NEW to \in {"approved", "applied", "refused"}
  PROVE  ChangeSetsOK(Moved(x, from, to))
<1>1. CASE changeSet[x].status # from
  BY <1>1 DEF Moved, ChangeSetsOK, TypeOK
<1>2. CASE changeSet[x].status = from
  <2>1. changeSet[x] \in RowOver(DOMAIN changeSet[x].pins) /\ DOMAIN changeSet[x].pins \in SUBSET Docs
    BY <1>2, RowFields
  <2>2. [changeSet[x] EXCEPT !.status = to] \in RowOver(DOMAIN changeSet[x].pins)
    BY <2>1 DEF RowOver
  <2>3. Moved(x, from, to) = [changeSet EXCEPT ![x] = [changeSet[x] EXCEPT !.status = to]]
    BY <1>2 DEF Moved
  <2> QED
    BY <2>1, <2>2, <2>3 DEF ChangeSetsOK, TypeOK
<1> QED
  BY <1>1, <1>2

LEMMA ClosedOK ==
  ASSUME Typed, NEW w \in Workers, work[w] \in Job,
         NEW status \in {"completed", "failed"}
  PROVE  /\ Closed(work[w], status) \in [Calls -> CallRow \cup {Absent}]
         /\ \A c \in Calls : call[c] # Absent => Closed(work[w], status)[c] # Absent
<1> SUFFICES ASSUME NEW c \in Calls
             PROVE  /\ Closed(work[w], status)[c] \in CallRow \cup {Absent}
                    /\ call[c] # Absent => Closed(work[w], status)[c] # Absent
  BY DEF Closed
<1>1. CASE c \in work[w].call
  <2>1. call[c] \in CallRow
    BY <1>1, Rows DEF Typed, Sound
  <2>2. [call[c] EXCEPT !.status = status] \in CallRow
    BY <2>1 DEF CallRow
  <2> QED
    BY <1>1, <2>2, NeverAbsent DEF Closed
<1>2. CASE c \notin work[w].call
  BY <1>2 DEF Closed, Typed, TypeOK
<1> QED
  BY <1>1, <1>2

LEMMA ToldOK ==
  ASSUME TypeOK, NEW job \in Job, NEW kind \in {"applied", "failed", "refused"}
  PROVE  Told(job, kind) \subseteq Event
BY JobFields DEF Told, TypeOK, Event

LEMMA InitTyped == Init => Typed
<1> SUFFICES ASSUME Init PROVE Typed
  OBVIOUS
<1>1. link \in [Links -> LinkRow \cup {Absent}]
  <2>1. [status |-> "active", source |-> 0, target |-> 0] \in LinkRow
    BY DEF LinkRow
  <2> QED
    BY <2>1 DEF Init
<1>2. 0 \in 0..MaxOthers
  BY MaxOthersAssumption
<1>3. TypeOK
  BY <1>1, <1>2 DEF Init, TypeOK
<1>4. \A w \in Workers : Sound(work[w])
  BY JobFields DEF Init, Sound, Idle
<1> QED
  BY <1>3, <1>4 DEF Typed

\* Approvals and calls that are there stay, whoever moves.
RowsStay ==
  /\ \A s \in Sessions : approval[s] # Absent => approval'[s] # Absent
  /\ \A c \in Calls : call[c] # Absent => call'[c] # Absent
  /\ deployment' = deployment

\* Sound, of what a request holds after a step.
SoundNext(job) ==
  /\ job \in Job => Staged(job) /\ \A c \in job.call : call'[c] # Absent
  /\ job.step = "verdict" => \A s \in job.session : approval'[s] # Absent

LEMMA SoundStays ==
  ASSUME Typed, RowsStay, NEW w \in Workers, work'[w] = work[w]
  PROVE  Sound(work[w])'
<1>1. Sound(work[w])
  BY DEF Typed
<1>2. work[w] \in Job => work[w].call \subseteq Calls
  BY JobFields
<1>3. work[w].step = "verdict" => work[w].session \subseteq Sessions
  BY Jobs, JobFields DEF Typed, Resolving, Optional
<1> QED
  BY <1>1, <1>2, <1>3 DEF Sound, Staged, RowsStay, Job

\* A step of one request.
LEMMA OneMoves ==
  ASSUME Typed, RowsStay, NEW w \in Workers, NEW job, Goto(w, job), TypeOK', SoundNext(job)
  PROVE  Typed'
<1>1. work'[w] = job /\ \A v \in Workers : v # w => work'[v] = work[v]
  BY DEF Goto, Typed, TypeOK
<1>2. Sound(work[w])'
  BY <1>1 DEF Sound, SoundNext, Staged, RowsStay, Job
<1>3. ASSUME NEW v \in Workers PROVE Sound(work[v])'
  <2>1. CASE v = w
    BY <1>2, <2>1
  <2>2. CASE v # w
    BY <1>1, <2>2, SoundStays
  <2> QED
    BY <2>1, <2>2
<1> QED
  BY <1>3 DEF Typed

\* A step of one request that leaves the tables alone.
LEMMA OneMovesAlone ==
  ASSUME Typed, NEW w \in Workers, NEW job, Goto(w, job),
         UNCHANGED <<project, governance, deployment, granted, others>>,
         job \in Job \cup Resolving \cup {Idle}, Sound(job)
  PROVE  Typed'
<1>1. RowsStay
  BY DEF RowsStay, governance
<1>2. TypeOK'
  BY DEF Typed, TypeOK, Goto, project, governance
<1>3. SoundNext(job)
  BY DEF Sound, SoundNext, governance
<1> QED
  BY <1>1, <1>2, <1>3, OneMoves

\* A step of nobody's request.
LEMMA NoneMoves ==
  ASSUME Typed, RowsStay, TypeOK', UNCHANGED work
  PROVE  Typed'
BY SoundStays DEF Typed

LEMMA SoundIdle == Sound(Idle) /\ Idle \in Job \cup Resolving \cup {Idle}
BY JobFields DEF Sound, Idle

LEMMA EnvironmentTyped == Typed /\ Environment => Typed'
<1> SUFFICES ASSUME Typed, Environment PROVE Typed'
  OBVIOUS
<1>1. others' \in 0..MaxOthers
  BY MaxOthersAssumption DEF Environment, Typed, TypeOK
<1>2. ASSUME NEW d \in Docs, NEW kept \in BOOLEAN, EditDocument(d, kept) PROVE Typed'
  <2>1. revision' \in [Docs -> Nat] /\ sound' \subseteq Docs
    BY <1>2 DEF EditDocument, Typed, TypeOK
  <2>2. TypeOK' /\ RowsStay
    BY <1>1, <1>2, <2>1 DEF EditDocument, Typed, TypeOK, RowsStay, governance
  <2> QED
    BY <1>2, <2>2, NoneMoves DEF EditDocument
<1>3. ASSUME NEW d \in Docs, RemoveMember(d) \/ AddMember(d) PROVE Typed'
  <2>1. TypeOK' /\ RowsStay
    BY <1>1, <1>3 DEF RemoveMember, AddMember, Typed, TypeOK, RowsStay, governance
  <2> QED
    BY <1>3, <2>1, NoneMoves DEF RemoveMember, AddMember
<1>4. ASSUME NEW l \in Links, PinLink(l) PROVE Typed'
  <2>1. [status |-> "active", source |-> revision[Source[l]], target |-> revision[Target[l]]]
          \in LinkRow
    BY LinksAssumption DEF Typed, TypeOK, LinkRow
  <2>2. link' \in [Links -> LinkRow \cup {Absent}]
    BY <1>4, <2>1 DEF PinLink, Typed, TypeOK
  <2>3. TypeOK' /\ RowsStay
    BY <1>1, <1>4, <2>2 DEF PinLink, Typed, TypeOK, RowsStay, governance
  <2> QED
    BY <1>4, <2>3, NoneMoves DEF PinLink
<1>5. ASSUME NEW l \in Links, DeleteLink(l) PROVE Typed'
  <2>1. link[l] \in LinkRow
    BY <1>5, Rows DEF DeleteLink, Linked, Typed, Absent
  <2>2. [link[l] EXCEPT !.status = "deleted"] \in LinkRow
    BY <2>1 DEF LinkRow
  <2>3. link' \in [Links -> LinkRow \cup {Absent}]
    BY <1>5, <2>2 DEF DeleteLink, Typed, TypeOK
  <2>4. TypeOK' /\ RowsStay
    BY <1>1, <1>5, <2>3 DEF DeleteLink, Typed, TypeOK, RowsStay, governance
  <2> QED
    BY <1>5, <2>4, NoneMoves DEF DeleteLink
<1> QED
  BY <1>2, <1>3, <1>4, <1>5 DEF Environment, Rest, CreateLink, RepinLink

LEMMA StageTyped ==
  ASSUME Typed, NEW x \in ChangeSets, NEW write \in Writes, StageChangeSet(x, write)
  PROVE  Typed'
<1> DEFINE row == [status |-> "staged", pins |-> [d \in members |-> revision[d]],
                   mutates |-> write.mutates, removes |-> write.removes]
<1>1. members \in SUBSET Docs /\ [d \in members |-> revision[d]] \in [members -> Nat]
  BY DEF Typed, TypeOK
<1>2. row \in RowOver(members)
  BY <1>1 DEF RowOver, StageChangeSet
<1>3. changeSet' = [changeSet EXCEPT ![x] = row]
  BY DEF StageChangeSet
<1> HIDE DEF row
<1>4. DOMAIN changeSet' = ChangeSets
  BY <1>3 DEF Typed, TypeOK
<1>5. ASSUME NEW y \in ChangeSets
      PROVE  changeSet'[y] = Absent \/ \E declared \in SUBSET Docs : changeSet'[y] \in RowOver(declared)
  BY <1>1, <1>2, <1>3 DEF Typed, TypeOK
<1>6. TypeOK' /\ RowsStay
  BY <1>4, <1>5 DEF StageChangeSet, Typed, TypeOK, RowsStay, project
<1> QED
  BY <1>6, NoneMoves DEF StageChangeSet

-------------------------------------------------------------------------------
(* Types of the steps of a request, in the order of the routes.            *)

\* The steps that read, and those that only turn away.
LEMMA ReadingTyped ==
  ASSUME Typed, NEW w \in Workers,
         \/ \E x \in ChangeSets : RequestApproval(w, x) \/ ApplyLocally(w, x)
         \/ \E x \in ChangeSets, s \in Sessions : ApplyOnApproval(w, x, s)
         \/ MarkLost(w) \/ CheckPins(w) \/ ReadLinks(w) \/ Recompute(w)
         \/ GiveUp(w) \/ ExecutionFails(w)
         \/ \E s \in Sessions, verdict \in {"approved", "rejected"} : ReadPending(w, s, verdict)
         \/ ReadOwnPending(w) \/ OwnAlreadyResolved(w)
         \/ Execute(w) \/ CommitRefused(w)
  PROVE  Typed'
<1>1. Sound(work[w]) /\ TypeOK
  BY DEF Typed
<1>2. ASSUME NEW step \in {"read", "close", "commit", "check"}, work[w] \in Job,
             work[w].step \notin {"mark", "session", "refuse"},
             step \in {"close", "commit"} => work[w].phase = "execute",
             Proceed(w, step), UNCHANGED <<project, governance, deployment, granted, others>>
      PROVE  Typed'
  <2>1. [work[w] EXCEPT !.step = step] \in Job
    BY <1>2 DEF Job
  <2>2. Sound([work[w] EXCEPT !.step = step])
    BY <1>1, <1>2 DEF Sound, Staged, Job
  <2> QED
    BY <1>2, <2>1, <2>2, OneMovesAlone DEF Proceed
<1>3. ASSUME Goto(w, Idle), UNCHANGED <<project, governance, deployment, granted, others>>
      PROVE  Typed'
  BY <1>3, SoundIdle, OneMovesAlone
<1>4. ASSUME NEW x \in ChangeSets, RequestApproval(w, x) \/ ApplyLocally(w, x) PROVE Typed'
  <2> DEFINE ask == NewJob("ask", x, "ask", "session", {})
             apply == NewJob("apply", x, "ask", "mark", {})
  <2>1. ask \in Job /\ apply \in Job
    BY DEF NewJob, Job, Optional
  <2>2. Sound(ask) /\ (ApplyLocally(w, x) => Sound(apply))
    BY DEF Sound, Staged, NewJob, ApplyLocally
  <2>3. CASE RequestApproval(w, x)
    BY <2>1, <2>2, <2>3, OneMovesAlone DEF RequestApproval
  <2>4. CASE ApplyLocally(w, x)
    BY <2>1, <2>2, <2>4, OneMovesAlone DEF ApplyLocally
  <2> QED
    BY <1>4, <2>3, <2>4
<1>5. ASSUME NEW x \in ChangeSets, NEW s \in Sessions, ApplyOnApproval(w, x, s) PROVE Typed'
  <2> DEFINE job == NewJob("apply", x, "authorize", "check", {s})
  <2>1. job \in Job
    BY DEF NewJob, Job, Optional
  <2>2. Sound(job)
    BY DEF Sound, Staged, NewJob
  <2> QED
    BY <1>5, <2>1, <2>2, OneMovesAlone DEF ApplyOnApproval
<1>6. CASE MarkLost(w)
  BY <1>3, <1>6 DEF MarkLost
<1>7. CASE CheckPins(w)
  BY <1>1, <1>2, <1>7, Jobs DEF CheckPins
<1>8. CASE ReadLinks(w)
  <2> DEFINE job == [work[w] EXCEPT !.step = "judge", !.impact = Impact(RowOf(work[w]))]
  <2>1. work[w] \in Job /\ work[w].step = "read" /\ work[w].phase = "authorize"
    BY <1>1, <1>8, Jobs DEF ReadLinks
  <2>2. Impact(RowOf(work[w])) \subseteq Pinned
    BY <1>1, ImpactIsPinned
  <2>3. job \in Job
    BY <2>1, <2>2 DEF Job
  <2>4. Sound(job)
    BY <1>1, <2>1 DEF Sound, Staged, Job
  <2> QED
    BY <1>8, <2>3, <2>4, OneMovesAlone DEF ReadLinks
<1>9. CASE Recompute(w)
  BY <1>1, <1>2, <1>9, Jobs DEF Recompute
<1>10. CASE GiveUp(w)
  BY <1>3, <1>10 DEF GiveUp
<1>11. CASE ExecutionFails(w)
  BY <1>2, <1>11 DEF ExecutionFails, AnalysisFails
<1>12. ASSUME NEW s \in Sessions, NEW verdict \in {"approved", "rejected"},
              ReadPending(w, s, verdict)
       PROVE  Typed'
  <2> DEFINE job == [flow |-> "resolve", step |-> "verdict", session |-> {s}, verdict |-> verdict]
  <2>1. job \in Resolving
    BY DEF Resolving, Optional
  <2>2. approval[s] # Absent
    BY <1>12, NeverAbsent DEF ReadPending
  <2>3. Sound(job)
    BY <2>1, <2>2, JobFields DEF Sound
  <2> QED
    BY <1>12, <2>1, <2>3, OneMovesAlone DEF ReadPending
<1>13. CASE ReadOwnPending(w)
  <2> DEFINE job == [work[w] EXCEPT !.step = "verdict"]
  <2>1. work[w] \in Job /\ work[w].step = "resolve"
    BY <1>1, <1>13, Jobs DEF ReadOwnPending
  <2>2. job \in Job
    BY <2>1 DEF Job
  <2>3. \A s \in work[w].session : approval[s] # Absent
    BY <1>13, NeverAbsent DEF ReadOwnPending
  <2>4. Sound(job)
    BY <1>1, <2>1, <2>3 DEF Sound, Staged, Job
  <2> QED
    BY <1>13, <2>2, <2>4, OneMovesAlone DEF ReadOwnPending, Proceed
<1>14. CASE OwnAlreadyResolved(w)
  BY <1>3, <1>14 DEF OwnAlreadyResolved
<1>15. CASE Execute(w)
  <2>1. work[w] \in Job /\ work[w].phase = "execute" /\ work[w].step = "execute"
    BY <1>1, <1>15, Jobs DEF Execute, Sound, Staged
  <2> QED
    BY <1>2, <1>15, <2>1 DEF Execute
<1>16. CASE CommitRefused(w)
  <2>1. work[w] \in Job /\ work[w].phase = "execute" /\ work[w].step = "commit"
    BY <1>1, <1>16, Jobs DEF CommitRefused, Sound, Staged
  <2> QED
    BY <1>2, <1>16, <2>1 DEF CommitRefused
<1> QED
  BY <1>4, <1>5, <1>6, <1>7, <1>8, <1>9, <1>10, <1>11, <1>12, <1>13, <1>14, <1>15, <1>16

LEMMA JobTyped ==
  ASSUME TypeOK, NEW w \in Workers, NEW job \in Job \cup Resolving \cup {Idle}, Goto(w, job)
  PROVE  work' \in [Workers -> Job \cup Resolving \cup {Idle}]
BY DEF TypeOK, Goto

LEMMA MarkTyped ==
  ASSUME Typed, NEW w \in Workers, MarkLocally(w) \/ MarkShared(w)
  PROVE  Typed'
<1> DEFINE next == IF deployment = "local" THEN "session" ELSE "execute"
           job == [work[w] EXCEPT !.step = next]
<1>1. work[w] \in Job /\ Sound(work[w]) /\ TypeOK /\ work[w].step = "mark"
  BY Jobs DEF Typed, MarkLocally, MarkShared
<1>2. Goto(w, job)
  BY <1>1 DEF MarkLocally, MarkShared, Proceed
<1>3. job \in Job
  BY <1>1 DEF Job
<1>4. ChangeSetsOK(changeSet')
  BY <1>1, JobFields, MovedOK DEF MarkLocally, MarkShared
<1>5. work' \in [Workers -> Job \cup Resolving \cup {Idle}]
  BY <1>1, <1>2, <1>3, JobTyped
<1>6. TypeOK' /\ RowsStay
  BY <1>1, <1>4, <1>5 DEF MarkLocally, MarkShared, TypeOK, ChangeSetsOK, project, RowsStay
<1>7. deployment \in {"local", "shared"} /\ call' = call
  BY <1>1 DEF TypeOK, MarkLocally, MarkShared
<1>8. SoundNext(job)
  BY <1>1, <1>7 DEF SoundNext, Sound, Staged, Job
<1> QED
  BY <1>2, <1>6, <1>8, OneMoves

LEMMA OpenSessionTyped ==
  ASSUME Typed, NEW w \in Workers, NEW s \in Sessions, OpenSession(w, s)
  PROVE  Typed'
<1> DEFINE job == [work[w] EXCEPT !.step = "check", !.session = {s}]
<1>1. work[w] \in Job /\ Sound(work[w]) /\ TypeOK /\ work[w].step = "session"
  BY Jobs DEF Typed, OpenSession
<1>2. job \in Job
  BY <1>1 DEF Job, Optional
<1>3. session' \in [Sessions -> {"absent", "active", "completed", "failed"}]
  BY <1>1 DEF OpenSession, TypeOK
<1>4. Goto(w, job)
  BY DEF OpenSession
<1>5. work' \in [Workers -> Job \cup Resolving \cup {Idle}]
  BY <1>1, <1>2, <1>4, JobTyped
<1>6. TypeOK' /\ RowsStay
  BY <1>1, <1>3, <1>5 DEF OpenSession, TypeOK, project, RowsStay
<1>7. SoundNext(job)
  BY <1>1 DEF SoundNext, Sound, Staged, Job, OpenSession
<1> QED
  BY <1>4, <1>6, <1>7, OneMoves

LEMMA CreateApprovalTyped ==
  ASSUME Typed, NEW w \in Workers, CreateApproval(w)
  PROVE  Typed'
<1> DEFINE row == [status |-> "pending", of |-> work[w].of, impact |-> Impact(RowOf(work[w]))]
<1>1. work[w] \in Job /\ Sound(work[w]) /\ TypeOK /\ work[w].step = "read" /\ work[w].phase = "ask"
  BY Jobs DEF Typed, CreateApproval
<1>2. row \in ApprovalRow
  BY <1>1, JobFields, ImpactIsPinned DEF ApprovalRow
<1>3. approval' = [s \in Sessions |-> IF s \in work[w].session THEN row ELSE approval[s]]
  BY DEF CreateApproval
<1> HIDE DEF row
<1>4. approval' \in [Sessions -> ApprovalRow \cup {Absent}]
  BY <1>1, <1>2, <1>3 DEF TypeOK
<1>5. RowsStay
  BY <1>2, <1>3, NeverAbsent DEF RowsStay, CreateApproval
<1>6. CASE work[w].flow = "apply"
  <2> DEFINE job == [work[w] EXCEPT !.step = "resolve"]
  <2>1. job \in Job
    BY <1>1 DEF Job
  <2>2. Goto(w, job)
    BY <1>6 DEF CreateApproval, Proceed
  <2>3. work' \in [Workers -> Job \cup Resolving \cup {Idle}]
    BY <1>1, <2>1, <2>2, JobTyped
  <2>4. TypeOK'
    BY <1>1, <1>4, <2>3 DEF CreateApproval, TypeOK, project
  <2>5. SoundNext(job)
    BY <1>1 DEF SoundNext, Sound, Staged, Job, CreateApproval
  <2> QED
    BY <1>5, <2>2, <2>4, <2>5, OneMoves
<1>7. CASE work[w].flow # "apply"
  <2>1. Goto(w, Idle)
    BY <1>7 DEF CreateApproval
  <2>2. work' \in [Workers -> Job \cup Resolving \cup {Idle}]
    BY <1>1, <2>1, JobTyped
  <2>3. TypeOK'
    BY <1>1, <1>4, <2>2 DEF CreateApproval, TypeOK, project
  <2>4. SoundNext(Idle)
    BY JobFields DEF SoundNext, Idle
  <2> QED
    BY <1>5, <2>1, <2>3, <2>4, OneMoves
<1> QED
  BY <1>6, <1>7

LEMMA WriteVerdictTyped ==
  ASSUME Typed, NEW w \in Workers, WriteVerdict(w)
  PROVE  Typed'
<1>1. Sound(work[w]) /\ TypeOK /\ work[w].step = "verdict" /\ work[w] \in Job \cup Resolving
  BY Jobs DEF Typed, WriteVerdict
<1>2. work[w].session \subseteq Sessions /\ VerdictOf(work[w]) \in {"approved", "rejected"}
  BY <1>1, JobFields DEF Resolving, Optional, VerdictOf, Job
<1>3. ASSUME NEW s \in work[w].session
      PROVE  [approval[s] EXCEPT !.status = VerdictOf(work[w])] \in ApprovalRow
  <2>1. approval[s] \in ApprovalRow
    BY <1>1, <1>2, <1>3, Rows DEF Sound
  <2> QED
    BY <1>2, <2>1 DEF ApprovalRow
<1>4. approval' \in [Sessions -> ApprovalRow \cup {Absent}]
  BY <1>1, <1>3 DEF WriteVerdict, TypeOK
<1>5. RowsStay
  BY <1>3, NeverAbsent DEF WriteVerdict, RowsStay
<1>6. granted' \subseteq Sessions
  BY <1>1, <1>2 DEF WriteVerdict, TypeOK
<1>7. CASE work[w].flow = "resolve"
  <2>1. Goto(w, Idle)
    BY <1>7 DEF WriteVerdict
  <2>2. work' \in [Workers -> Job \cup Resolving \cup {Idle}]
    BY <1>1, <2>1, JobTyped
  <2>3. TypeOK'
    BY <1>1, <1>4, <1>6, <2>2 DEF WriteVerdict, TypeOK, project
  <2>4. SoundNext(Idle)
    BY JobFields DEF SoundNext, Idle
  <2> QED
    BY <1>5, <2>1, <2>3, <2>4, OneMoves
<1>8. CASE work[w].flow # "resolve"
  <2> DEFINE job == [work[w] EXCEPT !.phase = "authorize", !.step = "check"]
  <2>1. Goto(w, job) /\ work[w] \in Job
    BY <1>1, <1>8 DEF WriteVerdict, Resolving
  <2>2. job \in Job
    BY <2>1 DEF Job
  <2>3. work' \in [Workers -> Job \cup Resolving \cup {Idle}]
    BY <1>1, <2>1, <2>2, JobTyped
  <2>4. TypeOK'
    BY <1>1, <1>4, <1>6, <2>3 DEF WriteVerdict, TypeOK, project
  <2>5. SoundNext(job)
    BY <1>1, <2>1 DEF SoundNext, Sound, Staged, Job, WriteVerdict
  <2> QED
    BY <1>5, <2>1, <2>4, <2>5, OneMoves
<1> QED
  BY <1>7, <1>8

\* The one session of a request, as a new call records it.
SessionOf(job) == CHOOSE s \in Sessions : job.session = {s}

LEMMA OneSession ==
  ASSUME NEW job \in Job, job.session # {}
  PROVE  SessionOf(job) \in Sessions /\ job.session = {SessionOf(job)}
<1>1. PICK s \in Sessions : job.session = {s}
  BY JobFields DEF Optional
<1> QED
  BY <1>1 DEF SessionOf

LEMMA OneCall ==
  ASSUME NEW job \in Job, job.call # {}
  PROVE  \E c \in Calls : job.call = {c}
BY JobFields DEF Optional

\* The row of a call that a request makes.
CallOf(status, job) ==
  [status |-> status, session |-> SessionOf(job), of |-> job.of, impact |-> job.impact]

LEMMA NewCallTyped ==
  ASSUME TypeOK, NEW job \in Job, job.session # {}, NEW c \in Calls,
         NEW status \in {"running", "rejected"}, NewCall(c, status, job)
  PROVE  /\ CallOf(status, job) \in CallRow
         /\ call' = [call EXCEPT ![c] = CallOf(status, job)]
         /\ call' \in [Calls -> CallRow \cup {Absent}]
         /\ call'[c] # Absent
         /\ \A d \in Calls : call[d] # Absent => d # c /\ call'[d] = call[d]
<1>1. CallOf(status, job) \in CallRow
  BY OneSession, JobFields DEF CallOf, CallRow
<1>2. call' = [call EXCEPT ![c] = CallOf(status, job)]
  BY DEF NewCall, CallOf, SessionOf
<1> QED
  BY <1>1, <1>2, NeverAbsent DEF TypeOK, NewCall

LEMMA JudgeTyped ==
  ASSUME Typed, NEW w \in Workers, NEW c \in Calls, Authorize(w, c) \/ Deny(w, c)
  PROVE  Typed'
<1> DEFINE run == [work[w] EXCEPT !.phase = "execute", !.call = {c},
                     !.step = IF deployment = "shared" THEN "mark" ELSE "execute"]
           stop == [work[w] EXCEPT !.call = {c}, !.step = "refuse"]
<1>1. /\ work[w] \in Job /\ Sound(work[w]) /\ TypeOK /\ work[w].step = "judge"
      /\ work[w].session # {} /\ work[w].phase = "authorize"
  BY Jobs DEF Typed, Authorize, Deny, Sound, Staged
<1>2. run \in Job /\ stop \in Job
  BY <1>1 DEF Job, Optional
<1>3. /\ call' \in [Calls -> CallRow \cup {Absent}] /\ call'[c] # Absent
      /\ \A d \in Calls : call[d] # Absent => call'[d] = call[d]
  BY <1>1, NewCallTyped DEF Authorize, Deny
<1>4. RowsStay
  BY <1>3 DEF RowsStay, Authorize, Deny
<1>5. CASE Authorize(w, c)
  <2>1. Goto(w, run)
    BY <1>5 DEF Authorize
  <2>2. work' \in [Workers -> Job \cup Resolving \cup {Idle}]
    BY <1>1, <1>2, <2>1, JobTyped
  <2>3. TypeOK'
    BY <1>1, <1>3, <1>5, <2>2 DEF Authorize, TypeOK, project
  <2>4. SoundNext(run)
    BY <1>1, <1>3 DEF SoundNext, Sound, Staged, Job
  <2> QED
    BY <1>4, <2>1, <2>3, <2>4, OneMoves
<1>6. CASE Deny(w, c)
  <2>1. Goto(w, stop)
    BY <1>6 DEF Deny
  <2>2. work' \in [Workers -> Job \cup Resolving \cup {Idle}]
    BY <1>1, <1>2, <2>1, JobTyped
  <2>3. TypeOK'
    BY <1>1, <1>3, <1>6, <2>2 DEF Deny, TypeOK, project
  <2>4. SoundNext(stop)
    BY <1>1, <1>3 DEF SoundNext, Sound, Staged, Job
  <2> QED
    BY <1>4, <2>1, <2>3, <2>4, OneMoves
<1> QED
  BY <1>5, <1>6

LEMMA SoundNextIdle == SoundNext(Idle)
BY JobFields DEF SoundNext, Idle

LEMMA AuditDenialTyped ==
  ASSUME Typed, NEW w \in Workers, AuditDenial(w)
  PROVE  Typed'
<1>1. work[w] \in Job /\ TypeOK
  BY Jobs DEF Typed, AuditDenial
<1>2. chain' \subseteq Event
  BY <1>1, ToldOK DEF AuditDenial
<1>3. work' \in [Workers -> Job \cup Resolving \cup {Idle}]
  BY <1>1, JobTyped DEF AuditDenial
<1>4. TypeOK' /\ RowsStay
  BY <1>1, <1>2, <1>3 DEF AuditDenial, TypeOK, project, RowsStay
<1> QED
  BY <1>4, SoundNextIdle, OneMoves DEF AuditDenial

LEMMA CloseOutTyped ==
  ASSUME Typed, NEW w \in Workers, CloseOut(w)
  PROVE  Typed'
<1>1. work[w] \in Job /\ TypeOK
  BY Jobs DEF Typed, CloseOut
<1>2. chain' \subseteq Event
  BY <1>1, ToldOK DEF CloseOut
<1>3. work' \in [Workers -> Job \cup Resolving \cup {Idle}]
  BY <1>1, JobTyped DEF CloseOut
<1>4. ChangeSetsOK(changeSet')
  BY <1>1, JobFields, MovedOK DEF CloseOut
<1>5. /\ call' \in [Calls -> CallRow \cup {Absent}]
      /\ \A c \in Calls : call[c] # Absent => call'[c] # Absent
  BY <1>1, ClosedOK DEF CloseOut
<1>6. session' \in [Sessions -> {"absent", "active", "completed", "failed"}]
  BY <1>1 DEF CloseOut, TypeOK
<1>7. TypeOK' /\ RowsStay
  BY <1>1, <1>2, <1>3, <1>4, <1>5, <1>6 DEF CloseOut, TypeOK, ChangeSetsOK, project, RowsStay
<1> QED
  BY <1>7, SoundNextIdle, OneMoves DEF CloseOut

\* What the committing transaction finds, and what it makes of it.
LEMMA Commits ==
  ASSUME Typed, NEW w \in Workers, Commit(w)
  PROVE  /\ work[w] \in Job /\ work[w].phase = "execute"
         /\ RowOf(work[w]) = changeSet[work[w].of] /\ RowOf(work[w]).status = "approved"
         /\ DOMAIN RowOf(work[w]).pins = members
         /\ RowOf(work[w]).pins \in [members -> Nat]
         /\ RowOf(work[w]).mutates \subseteq members
         /\ \A d \in members : revision[d] = RowOf(work[w]).pins[d]
         /\ \A p \in work[w].impact :
              Linked(p.link) /\ Ends(p.link) \subseteq members \cap (sound \ RowOf(work[w]).removes)
<1>1. work[w] \in Job /\ Sound(work[w]) /\ TypeOK /\ work[w].step = "commit"
  BY Jobs DEF Typed, Commit
<1>2. work[w].of \in ChangeSets
  BY <1>1, JobFields
<1>3. RowOf(work[w]).status = "approved" /\ PinsCurrent(RowOf(work[w])) /\ LinksHold(work[w])
  BY DEF Commit, Committable
<1>4. /\ RowOf(work[w]).pins \in [DOMAIN RowOf(work[w]).pins -> Nat]
      /\ RowOf(work[w]).mutates \subseteq DOMAIN RowOf(work[w]).pins
  BY <1>1, <1>2, <1>3, RowFields DEF RowOf
<1> QED
  BY <1>1, <1>3, <1>4 DEF RowOf, PinsCurrent, LinksHold, Sound, Staged

LEMMA CommitTyped ==
  ASSUME Typed, NEW w \in Workers, Commit(w)
  PROVE  Typed'
<1> DEFINE row == RowOf(work[w])
<1>1. work[w] \in Job /\ TypeOK /\ work[w].of \in ChangeSets /\ work[w].impact \subseteq Pinned
  BY Commits, JobFields DEF Typed
<1>2. \A d \in members : Result(row, d) \in Nat
  BY Commits DEF Result
<1>3. revision' \in [Docs -> Nat]
  <2>1. revision' = [d \in Docs |-> IF d \in row.mutates THEN Result(row, d) ELSE revision[d]]
    BY DEF Commit
  <2> QED
    BY <1>1, <1>2, <2>1, Commits DEF TypeOK
<1>4. ASSUME NEW p \in work[w].impact PROVE Repinned(row, p) \in LinkRow
  <2>1. p.link \in Links /\ Source[p.link] \in members /\ Target[p.link] \in members
    BY <1>1, <1>4, Commits DEF Pinned, Ends
  <2> QED
    BY <1>2, <2>1 DEF Repinned, LinkRow
<1>5. link' \in [Links -> LinkRow \cup {Absent}]
  <2>1. link' = [l \in Links |-> IF \E p \in work[w].impact : p.link = l
                   THEN Repinned(row, CHOOSE p \in work[w].impact : p.link = l) ELSE link[l]]
    BY DEF Commit
  <2>2. ASSUME NEW l \in Links PROVE link'[l] \in LinkRow \cup {Absent}
    <3>1. CASE \E p \in work[w].impact : p.link = l
      <4>1. (CHOOSE p \in work[w].impact : p.link = l) \in work[w].impact
        BY <3>1
      <4> QED
        BY <1>4, <2>1, <3>1, <4>1
    <3>2. CASE ~\E p \in work[w].impact : p.link = l
      BY <1>1, <2>1, <3>2 DEF TypeOK
    <3> QED
      BY <3>1, <3>2
  <2> QED
    BY <2>1, <2>2
<1>6. sound' \subseteq Docs /\ chain' \subseteq Event
  BY <1>1, ToldOK DEF Commit, TypeOK
<1>7. ChangeSetsOK(changeSet')
  BY <1>1, MovedOK DEF Commit
<1>8. /\ call' \in [Calls -> CallRow \cup {Absent}]
      /\ \A c \in Calls : call[c] # Absent => call'[c] # Absent
  BY <1>1, ClosedOK DEF Commit
<1>9. /\ approval' \in [Sessions -> ApprovalRow \cup {Absent}]
      /\ \A s \in Sessions : approval[s] # Absent => approval'[s] # Absent
  <2>1. ASSUME NEW s \in Sessions, s \in work[w].session
        PROVE  [approval[s] EXCEPT !.status = "consumed"] \in ApprovalRow
    <3>1. approval[s] \in ApprovalRow
      BY <1>1, <2>1, Rows, NeverAbsent DEF Commit, Committable
    <3> QED
      BY <3>1 DEF ApprovalRow
  <2>2. approval' = [s \in Sessions |->
          IF s \in work[w].session THEN [approval[s] EXCEPT !.status = "consumed"] ELSE approval[s]]
    BY DEF Commit
  <2> QED
    BY <1>1, <2>1, <2>2, NeverAbsent DEF TypeOK
<1>10. session' \in [Sessions -> {"absent", "active", "completed", "failed"}]
  BY <1>1 DEF Commit, TypeOK
<1>11. work' \in [Workers -> Job \cup Resolving \cup {Idle}]
  BY <1>1, JobTyped DEF Commit
<1>12. TypeOK'
  BY <1>1, <1>3, <1>5, <1>6, <1>7, <1>8, <1>9, <1>10, <1>11 DEF Commit, TypeOK, ChangeSetsOK
<1>13. RowsStay
  BY <1>8, <1>9 DEF RowsStay, Commit
<1> QED
  BY <1>12, <1>13, SoundNextIdle, OneMoves DEF Commit

\* The steps of a request, sorted by what they write.
Reading(w) ==
  \/ \E x \in ChangeSets : RequestApproval(w, x) \/ ApplyLocally(w, x)
  \/ \E x \in ChangeSets, s \in Sessions : ApplyOnApproval(w, x, s)
  \/ MarkLost(w) \/ CheckPins(w) \/ ReadLinks(w) \/ Recompute(w)
  \/ GiveUp(w) \/ ExecutionFails(w)
  \/ \E s \in Sessions, verdict \in {"approved", "rejected"} : ReadPending(w, s, verdict)
  \/ ReadOwnPending(w) \/ OwnAlreadyResolved(w)
  \/ Execute(w) \/ CommitRefused(w)

Writing(w) ==
  \/ MarkLocally(w) \/ MarkShared(w)
  \/ \E s \in Sessions : OpenSession(w, s)
  \/ CreateApproval(w) \/ WriteVerdict(w)
  \/ \E c \in Calls : Authorize(w, c) \/ Deny(w, c)
  \/ AuditDenial(w) \/ CloseOut(w) \/ Commit(w)

LEMMA RequestSorted ==
  ASSUME NEW w \in Workers, Request(w) PROVE Reading(w) \/ Writing(w)
BY DEF Request, Reading, Writing

LEMMA StepTyped == Typed /\ [Next]_vars => Typed'
<1> SUFFICES ASSUME Typed, [Next]_vars PROVE Typed'
  OBVIOUS
<1>1. CASE Environment
  BY <1>1, EnvironmentTyped
<1>2. ASSUME NEW x \in ChangeSets, NEW write \in Writes, StageChangeSet(x, write) PROVE Typed'
  BY <1>2, StageTyped
<1>3. ASSUME NEW w \in Workers, Reading(w) PROVE Typed'
  BY <1>3, ReadingTyped DEF Reading
<1>4. ASSUME NEW w \in Workers, Writing(w) PROVE Typed'
  BY <1>4, MarkTyped, OpenSessionTyped, CreateApprovalTyped, WriteVerdictTyped, JudgeTyped,
     AuditDenialTyped, CloseOutTyped, CommitTyped DEF Writing
<1>5. CASE UNCHANGED vars
  <2>1. TypeOK' /\ RowsStay
    BY <1>5 DEF vars, project, governance, Typed, TypeOK, RowsStay
  <2> QED
    BY <1>5, <2>1, NoneMoves DEF vars
<1> QED
  BY <1>1, <1>2, <1>3, <1>4, <1>5, RequestSorted DEF Next

LEMMA TypedAlways == Spec => []Typed
BY InitTyped, StepTyped, PTL DEF Spec

(***************************************************************************)
(* Every table and every request keeps its shape, whatever the rest of the *)
(* system does between two transactions of it.                             *)
(***************************************************************************)
THEOREM Typing == Spec => []TypeOK
<1>1. Typed => TypeOK
  BY DEF Typed
<1> QED
  BY <1>1, TypedAlways, PTL

-------------------------------------------------------------------------------
(* ChangeSet implements ProjectChange: the mark of a row is not seen there, *)
(* nor is anything that happens before the committing transaction.         *)

Promises == [x \in ChangeSets |-> Promised(x)]

LEMMA MovedPromise ==
  ASSUME TypeOK, NEW x \in ChangeSets, changeSet[x].status = "approved",
         NEW to \in {"applied", "refused"}, changeSet' = Moved(x, "approved", to)
  PROVE  /\ Promises[x].state = "open"
         /\ Promises' = [Promises EXCEPT ![x].state = to]
<1>1. changeSet[x] # Absent /\ changeSet[x] \in RowOver(DOMAIN changeSet[x].pins)
  BY RowFields
<1>2. Promised(x) = [state |-> "open", pins |-> changeSet[x].pins, mutates |-> changeSet[x].mutates]
  BY <1>1 DEF Promised
<1>3. changeSet' = [changeSet EXCEPT ![x] = [changeSet[x] EXCEPT !.status = to]]
  BY DEF Moved
<1>4. changeSet'[x] = [changeSet[x] EXCEPT !.status = to]
  BY <1>3 DEF TypeOK
<1>5. /\ changeSet'[x] # Absent /\ changeSet'[x].status = to
      /\ changeSet'[x].pins = changeSet[x].pins /\ changeSet'[x].mutates = changeSet[x].mutates
  BY <1>1, <1>4 DEF RowOver, Absent
<1>6. Promised(x)' = [state |-> to, pins |-> changeSet[x].pins, mutates |-> changeSet[x].mutates]
  BY <1>5 DEF Promised
<1>7. \A y \in ChangeSets : y # x => Promised(y)' = Promised(y)
  BY <1>3 DEF Promised, TypeOK
<1>8. Promises[x] = Promised(x) /\ Promises = [y \in ChangeSets |-> Promised(y)]
  BY DEF Promises
<1>9. Promises' = [y \in ChangeSets |-> Promised(y)']
  BY DEF Promises
<1>10. [Promises[x] EXCEPT !.state = to] = Promised(x)'
  BY <1>2, <1>6, <1>8
<1>11. [Promises EXCEPT ![x].state = to] =
         [y \in ChangeSets |-> IF y = x THEN [Promises[x] EXCEPT !.state = to] ELSE Promised(y)]
  BY <1>8
<1>12. [y \in ChangeSets |-> Promised(y)'] =
         [y \in ChangeSets |-> IF y = x THEN [Promises[x] EXCEPT !.state = to] ELSE Promised(y)]
  BY <1>7, <1>10
<1> QED
  BY <1>2, <1>8, <1>9, <1>11, <1>12

\* Marking a row changes no promise.
LEMMA MarkedPromise ==
  ASSUME TypeOK, NEW x \in ChangeSets, changeSet' = Moved(x, "staged", "approved")
  PROVE  Promises' = Promises
<1>1. CASE changeSet[x].status # "staged"
  BY <1>1 DEF Moved, Promises, Promised
<1>2. CASE changeSet[x].status = "staged"
  <2>1. changeSet[x] # Absent /\ changeSet[x] \in RowOver(DOMAIN changeSet[x].pins)
    BY <1>2, RowFields
  <2>2. changeSet' = [changeSet EXCEPT ![x] = [changeSet[x] EXCEPT !.status = "approved"]]
    BY <1>2 DEF Moved
  <2>3. changeSet'[x] = [changeSet[x] EXCEPT !.status = "approved"]
    BY <2>2 DEF TypeOK
  <2>4. /\ changeSet'[x] # Absent /\ changeSet'[x].status = "approved"
        /\ changeSet'[x].pins = changeSet[x].pins /\ changeSet'[x].mutates = changeSet[x].mutates
    BY <2>1, <2>3 DEF RowOver, Absent
  <2>5. Promised(x)' = Promised(x)
    BY <1>2, <2>1, <2>4 DEF Promised
  <2>6. \A y \in ChangeSets : y # x => Promised(y)' = Promised(y)
    BY <2>2 DEF Promised, TypeOK
  <2> QED
    BY <2>5, <2>6 DEF Promises
<1> QED
  BY <1>1, <1>2

LEMMA InitImplements == Init => Abstract!Init
BY DEF Init, Abstract!Init, Abstract!Undeclared, Promised

LEMMA StageDeclares ==
  ASSUME Typed, NEW x \in ChangeSets, NEW write \in Writes, StageChangeSet(x, write)
  PROVE  Abstract!Declare(x)
<1> DEFINE row == [status |-> "staged", pins |-> [d \in members |-> revision[d]],
                   mutates |-> write.mutates, removes |-> write.removes]
<1>1. changeSet[x] = Absent /\ changeSet' = [changeSet EXCEPT ![x] = row] /\ revision' = revision
  BY DEF StageChangeSet, project
<1>2. members \in SUBSET Docs /\ write.mutates \in SUBSET members
  BY DEF Typed, TypeOK, StageChangeSet
<1>3. Promised(x) = [state |-> "none"]
  BY <1>1 DEF Promised
<1>4. changeSet'[x] = row /\ row.status = "staged"
  BY <1>1 DEF Typed, TypeOK
<1>5. Promised(x)' = [state |-> "open", pins |-> [d \in members |-> revision[d]],
                      mutates |-> write.mutates]
  BY <1>4 DEF Promised, Absent
<1>6. \A y \in ChangeSets : y # x => Promised(y)' = Promised(y)
  BY <1>1 DEF Promised, Typed, TypeOK
<1>7. Promises' = [Promises EXCEPT ![x] = Abstract!Open([d \in members |-> revision[d]], write.mutates)]
  BY <1>5, <1>6 DEF Promises, Abstract!Open
<1> QED
  BY <1>1, <1>2, <1>3, <1>7 DEF Abstract!Declare, Abstract!Undeclared, Promises

LEMMA CommitApplies ==
  ASSUME Typed, NEW w \in Workers, Commit(w)
  PROVE  Abstract!Apply(work[w].of)
<1> DEFINE x == work[w].of
           row == RowOf(work[w])
<1>1. x \in ChangeSets /\ row = changeSet[x] /\ row.status = "approved"
  BY Commits, JobFields
<1>2. row # Absent
  BY <1>1 DEF Absent
<1>3. Promised(x) = [state |-> "open", pins |-> row.pins, mutates |-> row.mutates]
  BY <1>1, <1>2 DEF Promised
<1>4. \A d \in DOMAIN row.pins : revision[d] = row.pins[d]
  BY Commits
<1>5. Promises' = [Promises EXCEPT ![x].state = "applied"]
  BY <1>1, MovedPromise DEF Commit, Typed
<1>6. revision' = [d \in Docs |-> IF d \in row.mutates THEN revision[d] + 1 ELSE revision[d]]
  <2>1. ASSUME NEW d \in row.mutates PROVE Result(row, d) = revision[d] + 1
    BY <2>1, Commits DEF Result
  <2>2. revision' = [d \in Docs |-> IF d \in row.mutates THEN Result(row, d) ELSE revision[d]]
    BY DEF Commit
  <2> QED
    BY <2>1, <2>2
<1> QED
  BY <1>1, <1>3, <1>4, <1>5, <1>6 DEF Abstract!Apply, Abstract!AtPins, Promises

LEMMA StepImplements == Typed /\ [Next]_vars => [Abstract!Next]_(Abstract!vars)
<1> SUFFICES ASSUME Typed, [Next]_vars PROVE [Abstract!Next]_(Abstract!vars)
  OBVIOUS
<1>1. ASSUME UNCHANGED <<revision, changeSet>> PROVE UNCHANGED Abstract!vars
  BY <1>1 DEF Abstract!vars, Promised
<1>2. ASSUME revision' = revision, Promises' = Promises PROVE UNCHANGED Abstract!vars
  BY <1>2 DEF Abstract!vars, Promises
<1>3. CASE Environment
  <2>1. ASSUME NEW d \in Docs, NEW kept \in BOOLEAN, EditDocument(d, kept) PROVE Abstract!Edit(d)
    BY <2>1 DEF EditDocument, Abstract!Edit, governance, Promised
  <2>2. ASSUME NEW d \in Docs, RemoveMember(d) \/ AddMember(d) PROVE UNCHANGED <<revision, changeSet>>
    BY <2>2 DEF RemoveMember, AddMember, governance
  <2>3. ASSUME NEW l \in Links, CreateLink(l) \/ RepinLink(l) \/ DeleteLink(l)
        PROVE  UNCHANGED <<revision, changeSet>>
    BY <2>3 DEF CreateLink, RepinLink, DeleteLink, PinLink, governance
  <2> QED
    BY <1>1, <1>3, <2>1, <2>2, <2>3 DEF Environment, Rest, Abstract!Next
<1>4. ASSUME NEW x \in ChangeSets, NEW write \in Writes, StageChangeSet(x, write) PROVE Abstract!Next
  BY <1>4, StageDeclares DEF Abstract!Next
<1>5. ASSUME NEW w \in Workers, Reading(w) PROVE UNCHANGED <<revision, changeSet>>
  BY <1>5 DEF Reading, RequestApproval, ApplyLocally, ApplyOnApproval, MarkLost, CheckPins,
     ReadLinks, Recompute, GiveUp, ExecutionFails, ReadPending, ReadOwnPending,
     OwnAlreadyResolved, Execute, CommitRefused, project, governance
<1>6. ASSUME NEW w \in Workers, Writing(w) PROVE [Abstract!Next]_(Abstract!vars)
  <2>1. CASE MarkLocally(w) \/ MarkShared(w)
    <3>1. work[w].of \in ChangeSets
      BY <2>1, Jobs, JobFields DEF MarkLocally, MarkShared, Typed
    <3>2. Promises' = Promises
      BY <2>1, <3>1, MarkedPromise DEF MarkLocally, MarkShared, Typed
    <3> QED
      BY <1>2, <2>1, <3>2 DEF MarkLocally, MarkShared, project
  <2>2. CASE Commit(w)
    <3>1. work[w].of \in ChangeSets
      BY <2>2, Commits, JobFields
    <3> QED
      BY <2>2, <3>1, CommitApplies DEF Abstract!Next
  <2>3. CASE CloseOut(w)
    <3>1. work[w].of \in ChangeSets
      BY <2>3, Jobs, JobFields DEF CloseOut, Typed
    <3>2. revision' = revision /\ changeSet' = Moved(work[w].of, "approved", "refused")
      BY <2>3 DEF CloseOut, project
    <3>3. CASE changeSet[work[w].of].status = "approved"
      <4>1. Abstract!Refuse(work[w].of)
        BY <3>1, <3>2, <3>3, MovedPromise DEF Abstract!Refuse, Promises, Typed
      <4> QED
        BY <3>1, <4>1 DEF Abstract!Next
    <3>4. CASE changeSet[work[w].of].status # "approved"
      BY <1>1, <3>2, <3>4 DEF Moved
    <3> QED
      BY <3>3, <3>4
  <2>4. CASE \/ \E s \in Sessions : OpenSession(w, s)
             \/ CreateApproval(w) \/ WriteVerdict(w)
             \/ \E c \in Calls : Authorize(w, c) \/ Deny(w, c)
             \/ AuditDenial(w)
    BY <1>1, <2>4 DEF OpenSession, CreateApproval, WriteVerdict, Authorize, Deny, AuditDenial, project
  <2> QED
    BY <1>6, <2>1, <2>2, <2>3, <2>4 DEF Writing
<1>7. CASE UNCHANGED vars
  BY <1>1, <1>7 DEF vars, project, governance
<1> QED
  BY <1>1, <1>3, <1>4, <1>5, <1>6, <1>7, RequestSorted DEF Next

(***************************************************************************)
(* Requests, their reads and their two closing transactions implement      *)
(* ProjectChange: all documents of a change set move together, once, from  *)
(* the pins it was declared at, or none ever does.                         *)
(***************************************************************************)
THEOREM Atomicity == Spec => AllOrNothing
BY InitImplements, StepImplements, TypedAlways, PTL DEF Spec, AllOrNothing, Abstract!Spec

-------------------------------------------------------------------------------
(* The story of a call: who holds it, and what the chain says of it.       *)

Outcome(kind) == CASE kind = "applied" -> "completed"
                   [] kind = "failed"  -> "failed"
                   [] kind = "refused" -> "rejected"

\* A request and the call it holds agree, and the chain knows nothing of it yet.
Carries(job) ==
  \A c \in job.call :
    /\ call[c].of = job.of /\ call[c].impact = job.impact /\ call[c].session \in job.session
    /\ call[c].status = (IF job.step = "refuse" THEN "rejected" ELSE "running")
    /\ \A e \in chain : e.call # c

CallStory ==
  /\ \A w \in Workers : work[w] \in Job => Carries(work[w])
  /\ \A v, w \in Workers : v # w /\ work[v] \in Job /\ work[w] \in Job =>
       work[v].call \cap work[w].call = {}
  /\ \A e \in chain : call[e.call].status = Outcome(e.kind)
  /\ \A e, f \in chain : e.call = f.call => e = f

\* Nobody moves but w.
Others(w) == \A v \in Workers : v # w => work'[v] = work[v]

LEMMA GotoOthers ==
  ASSUME TypeOK, NEW w \in Workers, NEW job, Goto(w, job)
  PROVE  Others(w) /\ work'[w] = job
BY DEF TypeOK, Goto, Others

\* w holds no call, or goes on with the one it holds.
GoesOn(w) ==
  work'[w] \in Job =>
    \/ work'[w].call = {}
    \/ /\ work[w] \in Job
       /\ work'[w].call = work[w].call /\ work'[w].of = work[w].of
       /\ work'[w].impact = work[w].impact /\ work'[w].session = work[w].session
       /\ work'[w].phase = work[w].phase
       /\ work'[w].step # "refuse" /\ work[w].step # "refuse"

LEMMA ReadingGoesOn ==
  ASSUME Typed, NEW w \in Workers, Reading(w)
  PROVE  /\ UNCHANGED <<project, governance, deployment, granted, others>>
         /\ Others(w) /\ GoesOn(w)
<1>1. Sound(work[w]) /\ TypeOK
  BY DEF Typed
<1>2. ASSUME NEW step, step \notin {"mark", "refuse"}, work[w] \in Job, work[w].step # "refuse",
             Proceed(w, step)
      PROVE  Others(w) /\ GoesOn(w)
  BY <1>1, <1>2, GotoOthers DEF Proceed, GoesOn, Job
<1>3. ASSUME Goto(w, Idle) PROVE Others(w) /\ GoesOn(w)
  BY <1>1, <1>3, GotoOthers, JobFields DEF GoesOn
<1>4. ASSUME NEW x \in ChangeSets, RequestApproval(w, x) \/ ApplyLocally(w, x)
      PROVE  Others(w) /\ GoesOn(w)
  BY <1>1, <1>4, GotoOthers DEF RequestApproval, ApplyLocally, GoesOn, NewJob
<1>5. ASSUME NEW x \in ChangeSets, NEW s \in Sessions, ApplyOnApproval(w, x, s)
      PROVE  Others(w) /\ GoesOn(w)
  BY <1>1, <1>5, GotoOthers DEF ApplyOnApproval, GoesOn, NewJob
<1>6. CASE ReadLinks(w)
  <2>1. work[w] \in Job /\ work[w].step = "read" /\ work[w].phase = "authorize"
    BY <1>1, <1>6, Jobs DEF ReadLinks
  <2>2. work[w].call = {}
    BY <1>1, <2>1 DEF Sound, Staged
  <2> DEFINE job == [work[w] EXCEPT !.step = "judge", !.impact = Impact(RowOf(work[w]))]
  <2>3. job.call = {}
    BY <2>1, <2>2 DEF Job
  <2>4. Goto(w, job)
    BY <1>6 DEF ReadLinks
  <2>5. Others(w) /\ work'[w] = job
    BY <1>1, <2>4, GotoOthers
  <2> QED
    BY <1>6, <2>3, <2>5 DEF GoesOn, ReadLinks
<1>7. ASSUME NEW s \in Sessions, NEW verdict \in {"approved", "rejected"}, ReadPending(w, s, verdict)
      PROVE  Others(w) /\ GoesOn(w)
  <2> DEFINE job == [flow |-> "resolve", step |-> "verdict", session |-> {s}, verdict |-> verdict]
  <2>1. job \in Resolving
    BY DEF Resolving, Optional
  <2> QED
    BY <1>1, <1>7, <2>1, GotoOthers, JobFields DEF ReadPending, GoesOn
<1>8. CASE MarkLost(w) \/ GiveUp(w) \/ OwnAlreadyResolved(w)
  BY <1>3, <1>8 DEF MarkLost, GiveUp, OwnAlreadyResolved
<1>9. CASE CheckPins(w) \/ Recompute(w) \/ ReadOwnPending(w) \/ Execute(w) \/ CommitRefused(w)
  BY <1>1, <1>2, <1>9, Jobs DEF CheckPins, Recompute, ReadOwnPending, Execute, CommitRefused
<1>10. CASE ExecutionFails(w)
  BY <1>2, <1>10 DEF ExecutionFails, AnalysisFails
<1>11. UNCHANGED <<project, governance, deployment, granted, others>>
  BY DEF Reading, RequestApproval, ApplyLocally, ApplyOnApproval, MarkLost, CheckPins,
     ReadLinks, Recompute, GiveUp, ExecutionFails, ReadPending, ReadOwnPending,
     OwnAlreadyResolved, Execute, CommitRefused
<1> QED
  BY <1>4, <1>5, <1>6, <1>7, <1>8, <1>9, <1>10, <1>11 DEF Reading

\* The writing steps before there is a call, and the mark after it.
Preparing(w) ==
  \/ MarkLocally(w) \/ MarkShared(w)
  \/ \E s \in Sessions : OpenSession(w, s)
  \/ CreateApproval(w) \/ WriteVerdict(w)

LEMMA PreparingGoesOn ==
  ASSUME Typed, NEW w \in Workers, Preparing(w)
  PROVE  UNCHANGED <<call, chain>> /\ Others(w) /\ GoesOn(w)
<1>1. Sound(work[w]) /\ TypeOK
  BY DEF Typed
<1>2. CASE MarkLocally(w) \/ MarkShared(w)
  <2>1. work[w] \in Job /\ work[w].step = "mark"
    BY <1>1, <1>2, Jobs DEF MarkLocally, MarkShared
  <2> QED
    BY <1>1, <1>2, <2>1, GotoOthers DEF MarkLocally, MarkShared, Proceed, GoesOn, Job
<1>3. ASSUME NEW s \in Sessions, OpenSession(w, s)
      PROVE  UNCHANGED <<call, chain>> /\ Others(w) /\ GoesOn(w)
  <2> DEFINE job == [work[w] EXCEPT !.step = "check", !.session = {s}]
  <2>1. work[w] \in Job /\ work[w].call = {}
    BY <1>1, <1>3, Jobs DEF OpenSession, Sound, Staged
  <2>2. job.call = {}
    BY <2>1 DEF Job
  <2>3. Goto(w, job)
    BY <1>3 DEF OpenSession
  <2>4. Others(w) /\ work'[w] = job
    BY <1>1, <2>3, GotoOthers
  <2> QED
    BY <1>3, <2>2, <2>4 DEF OpenSession, GoesOn
<1>4. CASE CreateApproval(w)
  <2>1. work[w] \in Job /\ work[w].call = {} /\ work[w].step = "read"
    BY <1>1, <1>4, Jobs DEF CreateApproval, Sound, Staged
  <2>2. CASE work[w].flow = "apply"
    BY <1>1, <1>4, <2>1, <2>2, GotoOthers DEF CreateApproval, Proceed, GoesOn, Job
  <2>3. CASE work[w].flow # "apply"
    BY <1>1, <1>4, <2>3, GotoOthers, JobFields DEF CreateApproval, GoesOn
  <2> QED
    BY <2>2, <2>3
<1>5. CASE WriteVerdict(w)
  <2>1. CASE work[w].flow = "resolve"
    BY <1>1, <1>5, <2>1, GotoOthers, JobFields DEF WriteVerdict, GoesOn
  <2>2. CASE work[w].flow # "resolve"
    <3>1. work[w] \in Job /\ work[w].call = {}
      BY <1>1, <1>5, <2>2, Jobs DEF WriteVerdict, Resolving, Sound, Staged
    <3> DEFINE job == [work[w] EXCEPT !.phase = "authorize", !.step = "check"]
    <3>2. job.call = {}
      BY <3>1 DEF Job
    <3>3. Goto(w, job)
      BY <1>5, <2>2 DEF WriteVerdict
    <3>4. Others(w) /\ work'[w] = job
      BY <1>1, <3>3, GotoOthers
    <3> QED
      BY <1>5, <3>2, <3>4 DEF WriteVerdict, GoesOn
  <2> QED
    BY <2>1, <2>2
<1> QED
  BY <1>2, <1>3, <1>4, <1>5 DEF Preparing

\* A step by which nothing happens to calls.
LEMMA CallsAlone ==
  ASSUME Typed, CallStory, NEW w \in Workers, Others(w), GoesOn(w), UNCHANGED <<call, chain>>
  PROVE  CallStory'
<1>1. ASSUME NEW v \in Workers, work'[v] \in Job PROVE Carries(work[v])'
  <2>1. CASE v # w
    BY <1>1, <2>1 DEF CallStory, Others, Carries
  <2>2. CASE v = w
    BY <1>1, <2>2 DEF CallStory, GoesOn, Carries
  <2> QED
    BY <2>1, <2>2
<1>2. ASSUME NEW u \in Workers, NEW v \in Workers, u # v, work'[u] \in Job, work'[v] \in Job
      PROVE  work'[u].call \cap work'[v].call = {}
  BY <1>2 DEF CallStory, Others, GoesOn
<1> QED
  BY <1>1, <1>2 DEF CallStory

\* The end of a request: its call, held until now, is given an outcome, or it
\* is a denied one, and the chain tells.
Ending(w, kind) ==
  /\ work[w] \in Job
  /\ Others(w)
  /\ work'[w] = Idle
  /\ chain' = Told(work[w], kind)
  /\ \A c \in Calls : c \notin work[w].call => call'[c] = call[c]
  /\ \A c \in work[w].call : call'[c] = [call[c] EXCEPT !.status = Outcome(kind)]

LEMMA EndingStory ==
  ASSUME Typed, CallStory, NEW w \in Workers, NEW kind \in {"applied", "failed", "refused"},
         Ending(w, kind)
  PROVE  CallStory'
<1>1. work[w] \in Job /\ TypeOK /\ Carries(work[w]) /\ \A c \in work[w].call : call[c] \in CallRow
  BY Rows, JobFields DEF Ending, Typed, CallStory, Sound
<1>2. \A v \in Workers : work'[v] \in Job => v # w /\ work'[v] = work[v]
  BY JobFields DEF Ending, Others
<1>3. \A e \in chain : e.call \in Calls /\ e.call \notin work[w].call
  BY <1>1 DEF TypeOK, Event, Carries
<1>4. \A e \in chain' : e \in chain \/ (e.kind = kind /\ e.call \in work[w].call)
  BY DEF Ending, Told
<1>5. ASSUME NEW v \in Workers, work'[v] \in Job PROVE Carries(work[v])'
  <2>1. v # w /\ work'[v] = work[v] /\ work[v].call \subseteq Calls
    BY <1>2, <1>5, JobFields
  <2>2. Carries(work[v]) /\ work[v].call \cap work[w].call = {}
    BY <1>1, <1>5, <2>1 DEF CallStory
  <2>3. \A c \in work[v].call : call'[c] = call[c] /\ \A e \in chain' : e.call # c
    BY <1>4, <2>1, <2>2 DEF Ending, Carries
  <2> QED
    BY <2>1, <2>2, <2>3 DEF Carries
<1>6. ASSUME NEW e \in chain' PROVE call'[e.call].status = Outcome(e.kind)
  <2>1. CASE e \in chain
    BY <1>3, <2>1 DEF CallStory, Ending
  <2>2. CASE e.kind = kind /\ e.call \in work[w].call
    <3>1. call[e.call] \in CallRow /\ call'[e.call] = [call[e.call] EXCEPT !.status = Outcome(kind)]
      BY <1>1, <2>2 DEF Ending
    <3> QED
      BY <2>2, <3>1 DEF CallRow
  <2> QED
    BY <1>4, <1>6, <2>1, <2>2
<1>7. ASSUME NEW e \in chain', NEW f \in chain', e.call = f.call PROVE e = f
  <2>1. CASE e \in chain /\ f \in chain
    BY <1>7, <2>1 DEF CallStory
  <2>2. CASE e \notin chain \/ f \notin chain
    <3>1. e.call \in work[w].call
      BY <1>4, <1>7, <2>2
    <3>2. e \notin chain /\ f \notin chain
      BY <1>3, <1>7, <3>1
    <3> QED
      BY <1>7, <3>2 DEF Ending, Told
  <2> QED
    BY <2>1, <2>2
<1> QED
  BY <1>2, <1>5, <1>6, <1>7 DEF CallStory

LEMMA EndingSteps ==
  ASSUME Typed, CallStory, NEW w \in Workers
  PROVE  /\ AuditDenial(w) => Ending(w, "refused")
         /\ CloseOut(w) => Ending(w, "failed")
         /\ Commit(w) => Ending(w, "applied")
<1>1. TypeOK /\ Sound(work[w])
  BY DEF Typed
<1>2. ASSUME AuditDenial(w) PROVE Ending(w, "refused")
  <2>1. work[w] \in Job /\ work[w].step = "refuse"
    BY <1>1, <1>2, Jobs DEF AuditDenial
  <2>2. \A c \in work[w].call : call[c] \in CallRow /\ call[c].status = "rejected"
    BY <1>1, <2>1, Rows, JobFields DEF CallStory, Carries, Sound
  <2>3. \A c \in work[w].call : call[c] = [call[c] EXCEPT !.status = Outcome("refused")]
    BY <2>2 DEF CallRow, Outcome
  <2> QED
    BY <1>1, <1>2, <2>1, <2>3, GotoOthers DEF AuditDenial, Ending
<1>3. ASSUME CloseOut(w) PROVE Ending(w, "failed")
  <2>1. work[w] \in Job
    BY <1>1, <1>3, Jobs DEF CloseOut
  <2> QED
    BY <1>1, <1>3, <2>1, GotoOthers, JobFields DEF CloseOut, Ending, Closed, Outcome
<1>4. ASSUME Commit(w) PROVE Ending(w, "applied")
  <2>1. work[w] \in Job
    BY <1>1, <1>4, Jobs DEF Commit
  <2> QED
    BY <1>1, <1>4, <2>1, GotoOthers, JobFields DEF Commit, Ending, Closed, Outcome
<1> QED
  BY <1>2, <1>3, <1>4

\* A call is made, running or rejected, and w holds it.
LEMMA JudgeMakes ==
  ASSUME Typed, NEW w \in Workers, NEW c \in Calls, Authorize(w, c) \/ Deny(w, c)
  PROVE  /\ work[w] \in Job /\ Others(w) /\ work'[w] \in Job
         /\ call[c] = Absent /\ \A d \in Calls : d # c => call'[d] = call[d]
         /\ call'[c] = CallOf(IF Authorize(w, c) THEN "running" ELSE "rejected", work[w])
         /\ work[w].session = {SessionOf(work[w])} /\ SessionOf(work[w]) \in Sessions
         /\ work'[w].call = {c} /\ work'[w].of = work[w].of /\ work'[w].impact = work[w].impact
         /\ work'[w].session = work[w].session
         /\ work'[w].step = "refuse" <=> ~Authorize(w, c)
         /\ chain' = chain /\ changeSet' = changeSet
<1>1. /\ work[w] \in Job /\ Sound(work[w]) /\ TypeOK /\ work[w].step = "judge"
      /\ work[w].session # {} /\ call[c] = Absent
  BY Jobs DEF Typed, Authorize, Deny, Sound, Staged, NewCall
<1>2. SessionOf(work[w]) \in Sessions /\ work[w].session = {SessionOf(work[w])}
  BY <1>1, OneSession
<1>3. Authorize(w, c) => ~Deny(w, c)
  BY DEF Authorize, Deny
<1>4. CASE Authorize(w, c)
  <2>1. work'[w] = [work[w] EXCEPT !.phase = "execute", !.call = {c},
                      !.step = IF deployment = "shared" THEN "mark" ELSE "execute"] /\ Others(w)
    BY <1>1, <1>4, GotoOthers DEF Authorize
  <2>2. call' = [call EXCEPT ![c] = CallOf("running", work[w])]
    BY <1>1, <1>4, NewCallTyped DEF Authorize
  <2>3. work'[w] \in Job
    BY <1>1, <2>1 DEF Job, Optional
  <2> QED
    BY <1>1, <1>2, <1>4, <2>1, <2>2, <2>3 DEF Authorize, TypeOK, Job
<1>5. CASE Deny(w, c)
  <2>1. work'[w] = [work[w] EXCEPT !.call = {c}, !.step = "refuse"] /\ Others(w)
    BY <1>1, <1>5, GotoOthers DEF Deny
  <2>2. call' = [call EXCEPT ![c] = CallOf("rejected", work[w])]
    BY <1>1, <1>5, NewCallTyped DEF Deny
  <2>3. work'[w] \in Job
    BY <1>1, <2>1 DEF Job, Optional
  <2> QED
    BY <1>1, <1>2, <1>3, <1>5, <2>1, <2>2, <2>3 DEF Deny, TypeOK, Job
<1> QED
  BY <1>4, <1>5

\* A call that the chain tells of, or that a request holds, is there.
LEMMA ToldIsThere ==
  ASSUME Typed, CallStory
  PROVE  /\ \A e \in chain : e.call \in Calls /\ call[e.call] # Absent
         /\ \A w \in Workers : work[w] \in Job =>
              \A c \in work[w].call : c \in Calls /\ call[c] # Absent
<1>1. \A e \in chain : e.kind \in {"applied", "failed", "refused"} /\ e.call \in Calls
  BY DEF Typed, TypeOK, Event
<1>2. \A e \in chain : call[e.call].status \in {"completed", "failed", "rejected"}
  BY <1>1 DEF CallStory, Outcome
<1> QED
  BY <1>1, <1>2, JobFields, NeverAbsent DEF Typed, Sound

LEMMA JudgeStory ==
  ASSUME Typed, CallStory, NEW w \in Workers, NEW c \in Calls, Authorize(w, c) \/ Deny(w, c)
  PROVE  CallStory'
<1>1. ASSUME NEW v \in Workers, v # w, work'[v] \in Job
      PROVE  /\ work[v] \in Job /\ work'[v] = work[v] /\ c \notin work[v].call
             /\ Carries(work[v])'
  <2>1. work[v] \in Job /\ work'[v] = work[v] /\ Carries(work[v])
    BY <1>1, JudgeMakes DEF Others, CallStory
  <2>2. c \notin work[v].call /\ \A d \in work[v].call : call'[d] = call[d]
    BY <2>1, JudgeMakes, ToldIsThere
  <2> QED
    BY <2>1, <2>2, JudgeMakes DEF Carries
<1>2. \A e \in chain : e.call # c /\ call'[e.call] = call[e.call]
  BY JudgeMakes, ToldIsThere
<1>3. Carries(work[w])'
  <2> DEFINE made == IF Authorize(w, c) THEN "running" ELSE "rejected"
  <2>1. /\ call'[c] = CallOf(made, work[w]) /\ work'[w].call = {c} /\ work'[w].of = work[w].of
        /\ work'[w].impact = work[w].impact /\ work'[w].session = {SessionOf(work[w])}
        /\ made = (IF work'[w].step = "refuse" THEN "rejected" ELSE "running")
        /\ chain' = chain
    BY JudgeMakes
  <2>2. /\ call'[c].of = work[w].of /\ call'[c].impact = work[w].impact
        /\ call'[c].session = SessionOf(work[w]) /\ call'[c].status = made
    BY <2>1 DEF CallOf
  <2> HIDE DEF made
  <2> QED
    BY <1>2, <2>1, <2>2 DEF Carries
<1>4. \A v \in Workers : work'[v] \in Job => Carries(work[v])'
  BY <1>1, <1>3
<1>5. ASSUME NEW u \in Workers, NEW v \in Workers, u # v, work'[u] \in Job, work'[v] \in Job
      PROVE  work'[u].call \cap work'[v].call = {}
  <2>1. CASE u # w /\ v # w
    BY <1>1, <1>5, <2>1 DEF CallStory
  <2>2. CASE u = w
    BY <1>1, <1>5, <2>2, JudgeMakes
  <2>3. CASE v = w
    BY <1>1, <1>5, <2>3, JudgeMakes
  <2> QED
    BY <2>1, <2>2, <2>3
<1>6. chain' = chain
  BY JudgeMakes
<1> QED
  BY <1>2, <1>4, <1>5, <1>6 DEF CallStory

\* Steps of nobody's request touch neither calls nor the chain.
Outside ==
  \/ Environment
  \/ \E x \in ChangeSets : \E write \in Writes : StageChangeSet(x, write)
  \/ UNCHANGED vars

LEMMA OutsideAlone ==
  ASSUME Outside
  PROVE  UNCHANGED <<session, approval, call, chain, deployment, work, granted>>
BY DEF Outside, Environment, Rest, EditDocument, RemoveMember, AddMember, CreateLink, RepinLink,
   DeleteLink, PinLink, StageChangeSet, vars, governance

LEMMA NextSorted ==
  ASSUME [Next]_vars
  PROVE  Outside \/ \E w \in Workers : Reading(w) \/ Writing(w)
BY RequestSorted DEF Next, Outside

LEMMA WritingSorted ==
  ASSUME NEW w \in Workers, Writing(w)
  PROVE  \/ Preparing(w)
         \/ \E c \in Calls : Authorize(w, c) \/ Deny(w, c)
         \/ AuditDenial(w) \/ CloseOut(w) \/ Commit(w)
BY DEF Writing, Preparing

LEMMA CallStoryStep == Typed /\ CallStory /\ [Next]_vars => CallStory'
<1> SUFFICES ASSUME Typed, CallStory, [Next]_vars PROVE CallStory'
  OBVIOUS
<1>1. CASE Outside
  BY <1>1, OutsideAlone DEF CallStory, Carries
<1>2. ASSUME NEW w \in Workers, Reading(w) PROVE CallStory'
  BY <1>2, ReadingGoesOn, CallsAlone DEF governance
<1>3. ASSUME NEW w \in Workers, Preparing(w) PROVE CallStory'
  BY <1>3, PreparingGoesOn, CallsAlone
<1>4. ASSUME NEW w \in Workers, NEW c \in Calls, Authorize(w, c) \/ Deny(w, c) PROVE CallStory'
  BY <1>4, JudgeStory
<1>5. ASSUME NEW w \in Workers, AuditDenial(w) \/ CloseOut(w) \/ Commit(w) PROVE CallStory'
  BY <1>5, EndingSteps, EndingStory
<1> QED
  BY <1>1, <1>2, <1>3, <1>4, <1>5, NextSorted, WritingSorted

LEMMA InitStory == Init => CallStory
BY JobFields DEF Init, CallStory

-------------------------------------------------------------------------------
(* The rows of the change sets and the chain.                              *)

RowStory ==
  /\ \A e, f \in Applied : call[e.call].of = call[f.call].of => e = f
  /\ \A x \in ChangeSets :
       /\ changeSet[x].status = "applied" <=> \E e \in Applied : call[e.call].of = x
       /\ changeSet[x].status = "refused" => \E c \in CallsOn(x) : call[c].status = "failed"

\* A step that applies and refuses nothing.
LEMMA RowsAlone ==
  ASSUME Typed, CallStory, RowStory,
         \A x \in ChangeSets :
           /\ changeSet'[x].status = "applied" <=> changeSet[x].status = "applied"
           /\ changeSet'[x].status = "refused" => changeSet[x].status = "refused",
         Applied' = Applied,
         \A c \in Calls : call[c] # Absent =>
           /\ call'[c] # Absent /\ call'[c].of = call[c].of
           /\ call[c].status = "failed" => call'[c].status = "failed"
  PROVE  RowStory'
<1>1. \A e \in Applied : call'[e.call].of = call[e.call].of
  BY ToldIsThere DEF Applied
<1>2. \A x \in ChangeSets : \A c \in CallsOn(x) : call[c].status = "failed" =>
        c \in CallsOn(x)' /\ call'[c].status = "failed"
  BY DEF CallsOn
<1> QED
  BY <1>1, <1>2 DEF RowStory

\* What the transition of a row does to the statuses.
LEMMA MovedStatus ==
  ASSUME TypeOK, NEW x \in ChangeSets, NEW from, from # "absent", NEW to,
         changeSet' = Moved(x, from, to)
  PROVE  /\ \A y \in ChangeSets : y # x => changeSet'[y] = changeSet[y]
         /\ changeSet[x].status # from => changeSet'[x] = changeSet[x]
         /\ changeSet[x].status = from => changeSet'[x].status = to
<1>1. CASE changeSet[x].status # from
  BY <1>1 DEF Moved
<1>2. CASE changeSet[x].status = from
  <2>1. changeSet[x] \in RowOver(DOMAIN changeSet[x].pins)
    BY <1>2, RowFields
  <2>2. changeSet' = [changeSet EXCEPT ![x] = [changeSet[x] EXCEPT !.status = to]]
    BY <1>2 DEF Moved
  <2>3. [changeSet[x] EXCEPT !.status = to].status = to
    BY <2>1 DEF RowOver
  <2> QED
    BY <1>2, <2>2, <2>3 DEF TypeOK
<1> QED
  BY <1>1, <1>2

LEMMA OutsideRows ==
  ASSUME Typed, CallStory, RowStory, Outside
  PROVE  RowStory'
<1>1. ASSUME NEW x \in ChangeSets, NEW write \in Writes, StageChangeSet(x, write)
      PROVE  \A y \in ChangeSets :
               /\ changeSet'[y].status = "applied" <=> changeSet[y].status = "applied"
               /\ changeSet'[y].status = "refused" => changeSet[y].status = "refused"
  <2>1. PICK row : row.status = "staged" /\ changeSet' = [changeSet EXCEPT ![x] = row]
    BY <1>1 DEF StageChangeSet
  <2>2. changeSet[x].status = "absent"
    BY <1>1 DEF StageChangeSet, Absent
  <2> QED
    BY <2>1, <2>2 DEF Typed, TypeOK
<1>2. CASE Environment \/ UNCHANGED vars
  <2>1. changeSet' = changeSet
    BY <1>2 DEF Environment, Rest, EditDocument, RemoveMember, AddMember, CreateLink, RepinLink,
       DeleteLink, PinLink, vars, governance
  <2> QED
    BY <2>1, OutsideAlone, RowsAlone DEF Applied
<1>3. CASE \E x \in ChangeSets : \E write \in Writes : StageChangeSet(x, write)
  BY <1>1, <1>3, OutsideAlone, RowsAlone DEF Applied
<1> QED
  BY <1>2, <1>3 DEF Outside

LEMMA PreparingRows ==
  ASSUME Typed, CallStory, RowStory, NEW w \in Workers, Preparing(w)
  PROVE  RowStory'
<1>1. UNCHANGED <<call, chain>>
  BY PreparingGoesOn
<1>2. CASE MarkLocally(w) \/ MarkShared(w)
  <2>1. work[w].of \in ChangeSets /\ changeSet' = Moved(work[w].of, "staged", "approved")
    BY <1>2, Jobs, JobFields DEF MarkLocally, MarkShared, Typed
  <2>2. \A y \in ChangeSets :
          /\ changeSet'[y].status = "applied" <=> changeSet[y].status = "applied"
          /\ changeSet'[y].status = "refused" => changeSet[y].status = "refused"
    BY <2>1, MovedStatus DEF Typed
  <2> QED
    BY <1>1, <2>2, RowsAlone DEF Applied
<1>3. CASE ~(MarkLocally(w) \/ MarkShared(w))
  <2>1. changeSet' = changeSet
    BY <1>3 DEF Preparing, OpenSession, CreateApproval, WriteVerdict
  <2> QED
    BY <1>1, <2>1, RowsAlone DEF Applied
<1> QED
  BY <1>2, <1>3

\* How the outcome of a request shows in the calls and in the applied events.
LEMMA Endings ==
  ASSUME Typed, CallStory, NEW w \in Workers, NEW kind \in {"applied", "failed", "refused"},
         Ending(w, kind), work[w].call # {}
  PROVE  \E c \in Calls :
           /\ work[w].call = {c} /\ call[c] # Absent /\ call[c].of = work[w].of
           /\ call[c].status \in {"running", "rejected"}
           /\ chain' = chain \cup {[kind |-> kind, call |-> c]}
           /\ \A d \in Calls : d # c => call'[d] = call[d]
           /\ call'[c] # Absent /\ call'[c].of = call[c].of /\ call'[c].impact = call[c].impact
           /\ call'[c].session = call[c].session /\ call'[c].status = Outcome(kind)
           /\ \A e \in chain : e.call # c
<1>1. PICK c \in Calls : work[w].call = {c}
  BY OneCall DEF Ending
<1>2. call[c] \in CallRow /\ Carries(work[w])
  BY <1>1, Rows DEF Ending, Typed, Sound, CallStory
<1>3. call'[c] = [call[c] EXCEPT !.status = Outcome(kind)]
  BY <1>1 DEF Ending
<1>4. /\ call'[c].of = call[c].of /\ call'[c].impact = call[c].impact
      /\ call'[c].session = call[c].session /\ call'[c].status = Outcome(kind)
  BY <1>2, <1>3 DEF CallRow
<1>5. call'[c] # Absent
  BY <1>4, NeverAbsent DEF Outcome, Absent
<1>6. chain' = chain \cup {[kind |-> kind, call |-> c]}
  BY <1>1 DEF Ending, Told
<1> QED
  BY <1>1, <1>2, <1>4, <1>5, <1>6, NeverAbsent DEF Carries, Ending

\* The two closing transactions and the denial end a request that holds a call.
LEMMA EndersHold ==
  ASSUME Typed, NEW w \in Workers, AuditDenial(w) \/ CloseOut(w) \/ Commit(w)
  PROVE  work[w] \in Job /\ work[w].of \in ChangeSets /\ work[w].call # {}
BY Jobs, JobFields DEF Typed, Sound, Staged, AuditDenial, CloseOut, Commit

LEMMA DenialRows ==
  ASSUME Typed, CallStory, RowStory, NEW w \in Workers, AuditDenial(w)
  PROVE  RowStory'
<1>1. Applied' = Applied
  BY DEF AuditDenial, Told, Applied
<1>2. call' = call /\ changeSet' = changeSet
  BY DEF AuditDenial
<1> QED
  BY <1>1, <1>2, RowsAlone

LEMMA CloseOutRows ==
  ASSUME Typed, CallStory, RowStory, NEW w \in Workers, CloseOut(w)
  PROVE  RowStory'
<1>0. PICK x \in ChangeSets : x = work[w].of
  BY EndersHold
<1>1. changeSet' = Moved(x, "approved", "refused")
  BY <1>0 DEF CloseOut
<1>2. PICK c \in Calls :
        /\ call[c] # Absent /\ call[c].of = x /\ call[c].status \in {"running", "rejected"}
        /\ \A d \in Calls : d # c => call'[d] = call[d]
        /\ call'[c] # Absent /\ call'[c].of = x /\ call'[c].status = "failed"
  BY <1>0, EndersHold, EndingSteps, Endings DEF Outcome
<1>3. Applied' = Applied
  BY DEF CloseOut, Told, Applied
<1>4. \A y \in ChangeSets :
        /\ changeSet'[y].status = "applied" <=> changeSet[y].status = "applied"
        /\ changeSet'[y].status = "refused" => changeSet[y].status = "refused" \/ y = x
  BY <1>1, MovedStatus DEF Typed
<1>5. \A e \in Applied : call'[e.call].of = call[e.call].of
  BY <1>2, ToldIsThere DEF Applied
<1>6. \A y \in ChangeSets : \A d \in CallsOn(y) : call[d].status = "failed" =>
        d \in CallsOn(y)' /\ call'[d].status = "failed"
  BY <1>2 DEF CallsOn
<1>7. c \in CallsOn(x)' /\ call'[c].status = "failed"
  BY <1>2 DEF CallsOn
<1> QED
  BY <1>3, <1>4, <1>5, <1>6, <1>7 DEF RowStory

LEMMA CommitRows ==
  ASSUME Typed, CallStory, RowStory, NEW w \in Workers, Commit(w)
  PROVE  RowStory'
<1>0. PICK x \in ChangeSets : x = work[w].of
  BY EndersHold
<1>1. changeSet' = Moved(x, "approved", "applied") /\ changeSet[x].status = "approved"
  BY <1>0, Commits DEF Commit
<1>2. PICK c \in Calls :
        /\ call[c] # Absent /\ call[c].of = x /\ call[c].status \in {"running", "rejected"}
        /\ \A d \in Calls : d # c => call'[d] = call[d]
        /\ call'[c] # Absent /\ call'[c].of = x
        /\ chain' = chain \cup {[kind |-> "applied", call |-> c]}
        /\ \A e \in chain : e.call # c
  BY <1>0, EndersHold, EndingSteps, Endings
<1>3. Applied' = Applied \cup {[kind |-> "applied", call |-> c]}
  BY <1>2 DEF Applied
<1>4. \A y \in ChangeSets : y # x => changeSet'[y] = changeSet[y]
  BY <1>1, MovedStatus DEF Typed
<1>5. changeSet'[x].status = "applied"
  BY <1>1, MovedStatus DEF Typed
<1>6. \A e \in Applied : e.call # c /\ call'[e.call].of = call[e.call].of /\ call[e.call].of # x
  BY <1>1, <1>2, ToldIsThere DEF Applied, RowStory
<1>7. ASSUME NEW e \in Applied', NEW f \in Applied', call'[e.call].of = call'[f.call].of
      PROVE  e = f
  <2>1. CASE e \in Applied /\ f \in Applied
    BY <1>6, <1>7, <2>1 DEF RowStory
  <2>2. CASE e \notin Applied \/ f \notin Applied
    BY <1>2, <1>3, <1>6, <1>7, <2>2
  <2> QED
    BY <2>1, <2>2
<1>8. ASSUME NEW y \in ChangeSets
      PROVE  changeSet'[y].status = "applied" <=> \E e \in Applied' : call'[e.call].of = y
  <2>1. CASE y = x
    <3>1. [kind |-> "applied", call |-> c] \in Applied'
      BY <1>3
    <3>2. call'[[kind |-> "applied", call |-> c].call].of = y
      BY <1>2, <2>1
    <3> QED
      BY <1>5, <2>1, <3>1, <3>2
  <2>2. CASE y # x
    BY <1>2, <1>3, <1>4, <1>6, <2>2 DEF RowStory
  <2> QED
    BY <2>1, <2>2
<1>9. ASSUME NEW y \in ChangeSets, changeSet'[y].status = "refused"
      PROVE  (\E d \in CallsOn(y) : call[d].status = "failed")'
  <2>1. y # x /\ changeSet[y].status = "refused"
    BY <1>4, <1>5, <1>9
  <2>2. PICK d \in CallsOn(y) : call[d].status = "failed"
    BY <2>1 DEF RowStory
  <2>3. d # c /\ d \in Calls
    BY <1>2, <2>2 DEF CallsOn
  <2>4. d \in CallsOn(y)' /\ call'[d].status = "failed"
    BY <1>2, <2>2, <2>3 DEF CallsOn
  <2> QED
    BY <2>4
<1> QED
  BY <1>7, <1>8, <1>9 DEF RowStory

LEMMA RowStoryStep == Typed /\ CallStory /\ RowStory /\ [Next]_vars => RowStory'
<1> SUFFICES ASSUME Typed, CallStory, RowStory, [Next]_vars PROVE RowStory'
  OBVIOUS
<1>1. CASE Outside
  BY <1>1, OutsideRows
<1>2. ASSUME NEW w \in Workers, Reading(w) PROVE RowStory'
  BY <1>2, ReadingGoesOn, RowsAlone DEF governance, Applied
<1>3. ASSUME NEW w \in Workers, Preparing(w) PROVE RowStory'
  BY <1>3, PreparingRows
<1>4. ASSUME NEW w \in Workers, NEW c \in Calls, Authorize(w, c) \/ Deny(w, c) PROVE RowStory'
  BY <1>4, JudgeMakes, RowsAlone DEF Applied
<1>5. ASSUME NEW w \in Workers, AuditDenial(w) \/ CloseOut(w) \/ Commit(w) PROVE RowStory'
  BY <1>5, DenialRows, CloseOutRows, CommitRows
<1> QED
  BY <1>1, <1>2, <1>3, <1>4, <1>5, NextSorted, WritingSorted

LEMMA InitRows == Init => RowStory
BY NeverAbsent DEF Init, RowStory, Applied, Absent

LEMMA StoryAlways == Spec => [](Typed /\ CallStory /\ RowStory)
BY InitTyped, InitStory, InitRows, StepTyped, CallStoryStep, RowStoryStep, PTL DEF Spec

(***************************************************************************)
(* One story: rows, calls and chain agree on every outcome, and a change   *)
(* set is applied by exactly one call or by none.                          *)
(***************************************************************************)
THEOREM OneStory == Spec => []RowsAgreeWithChain
<1>1. Typed /\ CallStory /\ RowStory => RowsAgreeWithChain
  BY DEF CallStory, RowStory, RowsAgreeWithChain, Outcome
<1> QED
  BY <1>1, StoryAlways, PTL

\* The action that ApprovedLinksFollow always claims.
LinksFollow ==
  \A c \in Calls : call'[c].status = "completed" /\ call[c].status # "completed" =>
    \A p \in call[c].impact :
      /\ link'[p.link] = [status |-> "active", source |-> revision'[Source[p.link]],
                          target |-> revision'[Target[p.link]]]
      /\ Ends(p.link) \subseteq sound'

LEMMA CommitFollows ==
  ASSUME Typed, CallStory, NEW w \in Workers, Commit(w)
  PROVE  LinksFollow
<1> SUFFICES ASSUME NEW c \in Calls, call'[c].status = "completed", call[c].status # "completed",
                    NEW p \in call[c].impact
             PROVE  /\ link'[p.link] = [status |-> "active", source |-> revision'[Source[p.link]],
                                        target |-> revision'[Target[p.link]]]
                    /\ Ends(p.link) \subseteq sound'
  BY DEF LinksFollow
<1> DEFINE row == RowOf(work[w])
<1>1. Ending(w, "applied") /\ work[w] \in Job /\ TypeOK
  BY EndingSteps DEF Ending, Typed
<1>2. c \in work[w].call
  BY <1>1 DEF Ending
<1>3. p \in work[w].impact /\ p.link \in Links
  BY <1>1, <1>2, JobFields DEF CallStory, Carries, Pinned
<1>4. Ends(p.link) \subseteq members \cap (sound \ row.removes) /\ members \subseteq Docs
  BY <1>1, <1>3, Commits DEF TypeOK
<1>5. \A d \in members : revision'[d] = Result(row, d)
  <2>1. revision' = [d \in Docs |-> IF d \in row.mutates THEN Result(row, d) ELSE revision[d]]
    BY DEF Commit
  <2>2. \A d \in members : d \notin row.mutates => Result(row, d) = revision[d]
    BY Commits DEF Result
  <2> QED
    BY <1>4, <2>1, <2>2
<1>6. link'[p.link] = Repinned(row, p)
  <2>1. PICK q \in work[w].impact : q.link = p.link /\ link'[p.link] = Repinned(row, q)
    <3>1. \E q \in work[w].impact : q.link = p.link
      BY <1>3
    <3>2. link'[p.link] = Repinned(row, CHOOSE q \in work[w].impact : q.link = p.link)
      BY <1>3, <3>1 DEF Commit
    <3> QED
      BY <3>1, <3>2
  <2> QED
    BY <2>1 DEF Repinned
<1>7. Source[p.link] \in members /\ Target[p.link] \in members
  BY <1>4 DEF Ends
<1>8. sound' = sound \ row.removes
  BY DEF Commit
<1> QED
  BY <1>4, <1>5, <1>6, <1>7, <1>8 DEF Repinned

\* No other step completes a call.
LEMMA NobodyElseCompletes ==
  ASSUME Typed, CallStory, [Next]_vars, ~\E w \in Workers : Commit(w),
         NEW c \in Calls, call[c].status # "completed"
  PROVE  call'[c].status # "completed"
<1>1. CASE Outside
  BY <1>1, OutsideAlone
<1>2. ASSUME NEW w \in Workers, Reading(w) \/ Preparing(w) PROVE call'[c].status # "completed"
  BY <1>2, ReadingGoesOn, PreparingGoesOn DEF governance
<1>3. ASSUME NEW w \in Workers, NEW d \in Calls, Authorize(w, d) \/ Deny(w, d)
      PROVE  call'[c].status # "completed"
  <2>1. \A status : CallOf(status, work[w]).status = status
    BY DEF CallOf
  <2> QED
    BY <1>3, <2>1, JudgeMakes
<1>4. ASSUME NEW w \in Workers, AuditDenial(w) PROVE call'[c].status # "completed"
  BY <1>4 DEF AuditDenial
<1>5. ASSUME NEW w \in Workers, CloseOut(w) PROVE call'[c].status # "completed"
  BY <1>5, EndersHold, EndingSteps, Endings DEF Outcome
<1> QED
  BY <1>1, <1>2, <1>3, <1>4, <1>5, NextSorted, WritingSorted

LEMMA StepFollows == Typed /\ CallStory /\ [Next]_vars => LinksFollow
<1> SUFFICES ASSUME Typed, CallStory, [Next]_vars PROVE LinksFollow
  OBVIOUS
<1>1. CASE \E w \in Workers : Commit(w)
  BY <1>1, CommitFollows
<1>2. CASE ~\E w \in Workers : Commit(w)
  BY <1>2, NobodyElseCompletes DEF LinksFollow
<1> QED
  BY <1>1, <1>2

(***************************************************************************)
(* The links a change set was approved for come out of its application     *)
(* whole: active, on objects that are there, and pinned to the revisions   *)
(* that the commit leaves behind.                                          *)
(***************************************************************************)
THEOREM LinksStayWhole == Spec => ApprovedLinksFollow
<1>1. Typed /\ CallStory /\ [Next]_vars => [LinksFollow]_vars
  BY StepFollows
<1>2. ApprovedLinksFollow <=> [][LinksFollow]_vars
  BY DEF ApprovedLinksFollow, LinksFollow
<1> QED
  BY <1>1, <1>2, StoryAlways, PTL DEF Spec

-------------------------------------------------------------------------------
(* Who holds what: running calls and approved rows.                        *)

\* A request past the mark, and a call whose request is at it.
Executing(w) == work[w] \in Job /\ work[w].phase = "execute" /\ work[w].step # "mark"

Marking(c) == \E w \in Workers : work[w] \in Job /\ work[w].call = {c} /\ work[w].step = "mark"

Taken(x) == changeSet[x].status \notin {"absent", "staged"}

HeldStory ==
  /\ \A w \in Workers : work[w] \in Job => changeSet[work[w].of].status # "absent"
  /\ RunningCallsAreHeld
  /\ deployment = "shared" => \A x \in ChangeSets :
       /\ changeSet[x].status = "approved" => \E w \in Workers : Executing(w) /\ work[w].of = x
       /\ Taken(x) => \E c \in CallsOn(x) : call[c].status # "rejected" /\ ~Marking(c)

\* A request that holds a call goes on with it, past the mark.
Keeps(w) ==
  work[w] \in Job /\ work[w].call # {} =>
    /\ work'[w] \in Job /\ work'[w].step # "mark" /\ work'[w].call = work[w].call
    /\ work'[w].of = work[w].of /\ work'[w].phase = work[w].phase

\* A request works on a row that is there.
OnARow(w) ==
  work'[w] \in Job =>
    \/ work[w] \in Job /\ work'[w].of = work[w].of
    \/ changeSet[work'[w].of].status = "staged"

\* The next step of a request that goes on in its phase.
LEMMA Proceeding ==
  ASSUME TypeOK, NEW w \in Workers, work[w] \in Job,
         NEW step \in {"read", "verdict", "check", "commit", "close", "session", "execute",
                       "resolve"}, Proceed(w, step)
  PROVE  /\ Others(w) /\ work'[w] \in Job /\ work'[w].step = step
         /\ work'[w].of = work[w].of /\ work'[w].phase = work[w].phase
         /\ work'[w].call = work[w].call /\ work'[w].session = work[w].session
         /\ work'[w].impact = work[w].impact
BY GotoOthers DEF Proceed, Job

\* The phase of a request that holds a call.
LEMMA Holding ==
  ASSUME Typed, NEW w \in Workers, work[w] \in Job, work[w].call # {}
  PROVE  \/ work[w].phase = "execute" /\ work[w].step \notin {"session", "resolve", "verdict", "judge"}
         \/ work[w].phase = "authorize" /\ work[w].step = "refuse"
BY DEF Typed, Sound, Staged

LEMMA ReadingKeeps ==
  ASSUME Typed, NEW w \in Workers, Reading(w)
  PROVE  OnARow(w) /\ (MarkLost(w) \/ Keeps(w))
<1>1. TypeOK
  BY DEF Typed
<1>2. CASE CheckPins(w) \/ Recompute(w) \/ Execute(w) \/ CommitRefused(w) \/ ReadOwnPending(w)
  <2>1. work[w] \in Job
    BY <1>1, <1>2, Jobs DEF CheckPins, Recompute, Execute, CommitRefused, ReadOwnPending
  <2>2. PICK step \in {"read", "commit", "check", "close", "verdict"} : Proceed(w, step)
    BY <1>2 DEF CheckPins, Recompute, Execute, CommitRefused, ReadOwnPending
  <2> QED
    BY <1>1, <2>1, <2>2, Proceeding DEF OnARow, Keeps
<1>3. CASE ExecutionFails(w)
  BY <1>1, <1>3, Proceeding DEF ExecutionFails, OnARow, Keeps
<1>4. CASE ReadLinks(w)
  <2>1. work[w] \in Job /\ work[w].step = "read" /\ work[w].phase = "authorize"
    BY <1>1, <1>4, Jobs DEF ReadLinks
  <2>2. work[w].call = {}
    BY <2>1, Holding
  <2>3. work'[w] = [work[w] EXCEPT !.step = "judge", !.impact = Impact(RowOf(work[w]))]
    BY <1>1, <1>4, GotoOthers DEF ReadLinks
  <2>4. work'[w].of = work[w].of
    BY <2>1, <2>3 DEF Job
  <2> QED
    BY <2>1, <2>2, <2>4 DEF OnARow, Keeps
<1>5. CASE GiveUp(w) \/ OwnAlreadyResolved(w)
  <2>1. work[w] \in Job /\ Goto(w, Idle)
    BY <1>1, <1>5, Jobs DEF GiveUp, OwnAlreadyResolved
  <2>2. work[w].call = {}
    BY <1>5, <2>1, Holding DEF GiveUp, OwnAlreadyResolved, AnalysisFails
  <2> QED
    BY <1>1, <2>1, <2>2, GotoOthers, JobFields DEF OnARow, Keeps
<1>6. CASE MarkLost(w)
  BY <1>1, <1>6, GotoOthers, JobFields DEF MarkLost, OnARow
<1>7. ASSUME NEW x \in ChangeSets, RequestApproval(w, x) \/ ApplyLocally(w, x)
      PROVE  OnARow(w) /\ Keeps(w)
  BY <1>1, <1>7, GotoOthers, JobFields
  DEF RequestApproval, ApplyLocally, NewJob, OnARow, Keeps
<1>8. ASSUME NEW x \in ChangeSets, NEW s \in Sessions, ApplyOnApproval(w, x, s)
      PROVE  OnARow(w) /\ Keeps(w)
  BY <1>1, <1>8, GotoOthers, JobFields DEF ApplyOnApproval, NewJob, OnARow, Keeps
<1>9. ASSUME NEW s \in Sessions, NEW verdict \in {"approved", "rejected"}, ReadPending(w, s, verdict)
      PROVE  OnARow(w) /\ Keeps(w)
  <2> DEFINE job == [flow |-> "resolve", step |-> "verdict", session |-> {s}, verdict |-> verdict]
  <2>1. job \in Resolving
    BY DEF Resolving, Optional
  <2> QED
    BY <1>1, <1>9, <2>1, GotoOthers, JobFields DEF ReadPending, OnARow, Keeps
<1> QED
  BY <1>2, <1>3, <1>4, <1>5, <1>6, <1>7, <1>8, <1>9 DEF Reading

LEMMA PreparingKeeps ==
  ASSUME Typed, NEW w \in Workers, Preparing(w)
  PROVE  OnARow(w) /\ (MarkShared(w) \/ Keeps(w))
<1>1. TypeOK
  BY DEF Typed
<1>2. CASE MarkShared(w) \/ MarkLocally(w)
  <2>1. work[w] \in Job /\ work[w].step = "mark"
    BY <1>1, <1>2, Jobs DEF MarkShared, MarkLocally
  <2>2. PICK step \in {"session", "execute"} : Proceed(w, step)
    BY <1>2 DEF MarkShared, MarkLocally
  <2> QED
    BY <1>1, <2>1, <2>2, Proceeding DEF OnARow, Keeps
<1>3. ASSUME NEW s \in Sessions, OpenSession(w, s) PROVE OnARow(w) /\ Keeps(w)
  <2>1. work[w] \in Job /\ work[w].step = "session"
    BY <1>1, <1>3, Jobs DEF OpenSession
  <2>2. work'[w] = [work[w] EXCEPT !.step = "check", !.session = {s}]
    BY <1>1, <1>3, GotoOthers DEF OpenSession
  <2>3. work[w].call = {} /\ work'[w].of = work[w].of
    BY <2>1, <2>2, Holding DEF Job
  <2> QED
    BY <2>1, <2>3 DEF OnARow, Keeps
<1>4. CASE CreateApproval(w)
  <2>1. work[w] \in Job /\ work[w].call = {}
    BY <1>1, <1>4, Jobs, Holding DEF CreateApproval
  <2>2. CASE work[w].flow = "apply"
    BY <1>1, <1>4, <2>1, <2>2, Proceeding DEF CreateApproval, OnARow, Keeps
  <2>3. CASE work[w].flow # "apply"
    BY <1>1, <1>4, <2>1, <2>3, GotoOthers, JobFields DEF CreateApproval, OnARow, Keeps
  <2> QED
    BY <2>2, <2>3
<1>5. CASE WriteVerdict(w)
  <2>1. work[w].flow = "resolve" => work'[w] \notin Job /\ work[w] \notin Job
    <3>1. ASSUME work[w].flow = "resolve" PROVE work'[w] = Idle /\ work[w] \notin Job
      BY <1>1, <1>5, <3>1, GotoOthers DEF WriteVerdict, Job
    <3> QED
      BY <3>1, JobFields
  <2>2. CASE work[w].flow # "resolve"
    <3>1. work[w] \in Job /\ work[w].step = "verdict"
      BY <1>1, <1>5, <2>2, Jobs DEF WriteVerdict, Resolving
    <3>2. work'[w] = [work[w] EXCEPT !.phase = "authorize", !.step = "check"]
      BY <1>1, <1>5, <2>2, GotoOthers DEF WriteVerdict
    <3>3. work[w].call = {} /\ work'[w].of = work[w].of
      BY <3>1, <3>2, Holding DEF Job
    <3> QED
      BY <3>1, <3>3 DEF OnARow, Keeps
  <2> QED
    BY <2>1, <2>2 DEF OnARow, Keeps
<1> QED
  BY <1>2, <1>3, <1>4, <1>5 DEF Preparing

\* A step that takes no row and lets go of no call.
LEMMA HeldOn ==
  ASSUME Typed, CallStory, HeldStory, NEW w \in Workers, Others(w), GoesOn(w), Keeps(w), OnARow(w),
         UNCHANGED <<call, deployment>>,
         \A x \in ChangeSets : changeSet[x].status # "absent" => changeSet'[x].status # "absent",
         deployment = "shared" => changeSet' = changeSet
  PROVE  HeldStory'
<1>1. ASSUME NEW v \in Workers, work'[v] \in Job
      PROVE  changeSet'[work'[v].of].status # "absent" \/ work'[v].of \notin ChangeSets
  BY <1>1 DEF HeldStory, Others, OnARow
<1>2. \A v \in Workers : work'[v] \in Job => work'[v].of \in ChangeSets
  BY JobFields
<1>3. \A c \in Calls : Held(c) => Held(c)'
  <2> SUFFICES ASSUME NEW c \in Calls, NEW v \in Workers, work[v] \in Job, work[v].call = {c}
               PROVE  work'[v] \in Job /\ work'[v].call = {c}
    BY DEF Held
  <2> QED
    BY DEF Others, Keeps
<1>4. RunningCallsAreHeld'
  BY <1>3 DEF HeldStory, RunningCallsAreHeld, CallsOn
<1>5. \A c \in Calls : Marking(c)' => Marking(c)
  <2> SUFFICES ASSUME NEW c \in Calls, NEW v \in Workers, work'[v] \in Job,
                      work'[v].call = {c}, work'[v].step = "mark"
               PROVE  v # w
    BY DEF Marking, Others
  <2> QED
    BY DEF GoesOn, Keeps
<1>6. \A v \in Workers : Executing(v) => Executing(v)' /\ work'[v].of = work[v].of
  <2> SUFFICES ASSUME NEW v \in Workers, Executing(v)
               PROVE  Executing(v)' /\ work'[v].of = work[v].of
    OBVIOUS
  <2>1. work[v].call # {}
    BY DEF Executing, Typed, Sound, Staged
  <2> QED
    BY <2>1 DEF Executing, Others, Keeps
<1>7. ASSUME deployment' = "shared", NEW x \in ChangeSets
      PROVE  /\ changeSet'[x].status = "approved" =>
                  \E v \in Workers : Executing(v)' /\ work'[v].of = x
             /\ Taken(x)' => \E c \in CallsOn(x)' : call'[c].status # "rejected" /\ ~Marking(c)'
  <2>1. deployment = "shared" /\ changeSet' = changeSet /\ call' = call
    BY <1>7
  <2>2. changeSet[x].status = "approved" => \E v \in Workers : Executing(v) /\ work[v].of = x
    BY <2>1 DEF HeldStory
  <2>3. Taken(x) => \E c \in CallsOn(x) : call[c].status # "rejected" /\ ~Marking(c)
    BY <2>1 DEF HeldStory
  <2>4. CallsOn(x)' = CallsOn(x) /\ CallsOn(x) \subseteq Calls
    BY <2>1 DEF CallsOn
  <2> QED
    BY <1>5, <1>6, <2>1, <2>2, <2>3, <2>4 DEF Taken
<1> QED
  BY <1>1, <1>2, <1>4, <1>7 DEF HeldStory

\* A marked request of a shared deployment holds its call and works on a row.
LEMMA AtTheMark ==
  ASSUME Typed, CallStory, HeldStory, NEW w \in Workers, MarkShared(w) \/ MarkLost(w)
  PROVE  /\ work[w] \in Job /\ work[w].phase = "execute" /\ deployment = "shared"
         /\ work[w].of \in ChangeSets /\ changeSet[work[w].of].status # "absent"
         /\ \E c \in Calls :
              /\ work[w].call = {c} /\ Marking(c) /\ c \in CallsOn(work[w].of)
              /\ call[c].status = "running"
<1>1. work[w] \in Job /\ work[w].step = "mark" /\ deployment = "shared" /\ Sound(work[w])
  BY Jobs DEF Typed, MarkShared, MarkLost
<1>2. work[w].phase = "execute" /\ work[w].call # {}
  BY <1>1 DEF Sound, Staged
<1>3. PICK c \in Calls : work[w].call = {c}
  BY <1>1, <1>2, OneCall
<1>4. call[c] # Absent /\ call[c].of = work[w].of /\ call[c].status = "running"
  BY <1>1, <1>3 DEF CallStory, Carries, Sound
<1>5. c \in CallsOn(work[w].of) /\ Marking(c)
  BY <1>1, <1>3, <1>4 DEF CallsOn, Marking
<1> QED
  BY <1>1, <1>2, <1>3, <1>4, <1>5, JobFields DEF HeldStory

\* Nobody else holds a call of w.
LEMMA HeldByOne ==
  ASSUME CallStory, NEW v \in Workers, NEW w \in Workers, work[v] \in Job, work[w] \in Job,
         NEW c \in work[v].call, c \in work[w].call
  PROVE  v = w
BY DEF CallStory

LEMMA MarkSharedHeld ==
  ASSUME Typed, CallStory, HeldStory, NEW w \in Workers, MarkShared(w)
  PROVE  HeldStory'
<1>1. PICK x \in ChangeSets : x = work[w].of
  BY AtTheMark
<1>2. PICK c \in Calls : /\ work[w].call = {c} /\ Marking(c) /\ c \in CallsOn(x)
                         /\ call[c].status = "running"
  BY <1>1, AtTheMark
<1>3. /\ Others(w) /\ work'[w] \in Job /\ work'[w].step = "execute" /\ work'[w].of = x
      /\ work'[w].phase = "execute" /\ work'[w].call = {c}
  BY <1>1, <1>2, AtTheMark, Proceeding DEF MarkShared, Typed
<1>4. call' = call /\ deployment' = deployment /\ changeSet' = Moved(x, "staged", "approved")
  BY <1>1 DEF MarkShared
<1>5. /\ \A y \in ChangeSets : y # x => changeSet'[y] = changeSet[y]
      /\ changeSet[x].status = "staged" /\ changeSet'[x].status = "approved"
  BY <1>1, <1>4, MovedStatus DEF MarkShared, Typed, RowOf
<1>6. ASSUME NEW v \in Workers, work'[v] \in Job PROVE changeSet'[work'[v].of].status # "absent"
  <2>1. work'[v].of \in ChangeSets
    BY <1>6, JobFields
  <2>2. v # w => changeSet[work'[v].of].status # "absent"
    BY <1>3, <1>6 DEF HeldStory, Others
  <2> QED
    BY <1>3, <1>5, <2>1, <2>2
<1>7. RunningCallsAreHeld'
  <2>1. \A d \in Calls : Held(d) => Held(d)'
    BY <1>2, <1>3 DEF Held, Others
  <2> QED
    BY <1>4, <2>1 DEF HeldStory, RunningCallsAreHeld, CallsOn
<1>8. \A d \in Calls : Marking(d)' => Marking(d) /\ d # c
  <2> SUFFICES ASSUME NEW d \in Calls, NEW v \in Workers, work'[v] \in Job,
                      work'[v].call = {d}, work'[v].step = "mark"
               PROVE  work[v] = work'[v] /\ d # c
    BY DEF Marking
  <2>1. v # w /\ work[v] = work'[v]
    BY <1>3 DEF Others
  <2>2. d # c
    BY <1>2, <2>1, AtTheMark, HeldByOne
  <2> QED
    BY <2>1, <2>2
<1>9. ASSUME NEW y \in ChangeSets, changeSet'[y].status = "approved"
      PROVE  \E v \in Workers : Executing(v)' /\ work'[v].of = y
  <2>1. CASE y = x
    BY <1>3, <2>1 DEF Executing
  <2>2. CASE y # x
    <3>1. PICK v \in Workers : Executing(v) /\ work[v].of = y
      BY <1>5, <1>9, <2>2, AtTheMark DEF HeldStory
    <3> QED
      BY <1>1, <1>3, <2>2, <3>1 DEF Executing, Others
  <2> QED
    BY <2>1, <2>2
<1>10. ASSUME NEW y \in ChangeSets, Taken(y)'
       PROVE  \E d \in CallsOn(y)' : call'[d].status # "rejected" /\ ~Marking(d)'
  <2>1. \A z \in ChangeSets : CallsOn(z)' = CallsOn(z) /\ CallsOn(z) \subseteq Calls
    BY <1>4 DEF CallsOn
  <2>2. CASE y = x
    BY <1>2, <1>4, <1>8, <2>1, <2>2
  <2>3. CASE y # x
    <3>1. PICK d \in CallsOn(y) : call[d].status # "rejected" /\ ~Marking(d)
      BY <1>5, <1>10, <2>3, AtTheMark DEF HeldStory, Taken
    <3> QED
      BY <1>4, <1>8, <2>1, <3>1
  <2> QED
    BY <2>2, <2>3
<1> QED
  BY <1>6, <1>7, <1>9, <1>10 DEF HeldStory

LEMMA MarkLostHeld ==
  ASSUME Typed, CallStory, HeldStory, NEW w \in Workers, MarkLost(w)
  PROVE  HeldStory'
<1>1. PICK x \in ChangeSets : x = work[w].of
  BY AtTheMark
<1>2. PICK c \in Calls : /\ work[w].call = {c} /\ Marking(c) /\ c \in CallsOn(x)
                         /\ call[c].status = "running"
  BY <1>1, AtTheMark
<1>3. Others(w) /\ work'[w] \notin Job
  BY GotoOthers, JobFields DEF MarkLost, Typed
<1>4. call' = call /\ deployment' = deployment /\ changeSet' = changeSet
  BY DEF MarkLost, governance
<1>5. \A v \in Workers : work'[v] \in Job => v # w /\ work'[v] = work[v]
  BY <1>3 DEF Others
<1>6. \A d \in Calls : Marking(d)' => Marking(d)
  BY <1>5 DEF Marking
<1>7. PICK won \in CallsOn(x) : call[won].status # "rejected" /\ ~Marking(won)
  BY <1>1, AtTheMark DEF MarkLost, HeldStory, Taken
<1>8. RunningCallsAreHeld'
  <2> SUFFICES ASSUME NEW d \in Calls, call'[d].status = "running"
               PROVE  \/ Held(d)'
                      \/ /\ deployment' = "shared"
                         /\ \E e \in CallsOn(call[d].of)' \ {d} : call'[e].status # "rejected"
    BY DEF RunningCallsAreHeld
  <2>1. CASE d = c
    <3>1. won # c /\ call[c].of = x
      BY <1>2, <1>7 DEF CallsOn
    <3>2. CallsOn(x)' = CallsOn(x)
      BY <1>4 DEF CallsOn
    <3> QED
      BY <1>4, <1>7, <2>1, <3>1, <3>2, AtTheMark
  <2>2. CASE d # c
    <3>1. Held(d) => Held(d)'
      <4> SUFFICES ASSUME NEW v \in Workers, work[v] \in Job, work[v].call = {d}
                   PROVE  work'[v] \in Job /\ work'[v].call = {d}
        BY DEF Held
      <4>1. v # w
        BY <1>2, <2>2
      <4> QED
        BY <1>3, <4>1 DEF Others
    <3> QED
      BY <1>4, <3>1 DEF HeldStory, RunningCallsAreHeld, CallsOn
  <2> QED
    BY <2>1, <2>2
<1>9. ASSUME NEW y \in ChangeSets, changeSet'[y].status = "approved"
      PROVE  \E v \in Workers : Executing(v)' /\ work'[v].of = y
  <2>1. PICK v \in Workers : Executing(v) /\ work[v].of = y
    BY <1>4, <1>9, AtTheMark DEF HeldStory
  <2>2. v # w
    BY <2>1 DEF Executing, MarkLost
  <2> QED
    BY <1>3, <2>1, <2>2 DEF Executing, Others
<1>10. ASSUME NEW y \in ChangeSets, Taken(y)'
       PROVE  \E d \in CallsOn(y)' : call'[d].status # "rejected" /\ ~Marking(d)'
  <2>1. CallsOn(y)' = CallsOn(y) /\ CallsOn(y) \subseteq Calls
    BY <1>4 DEF CallsOn
  <2>2. PICK d \in CallsOn(y) : call[d].status # "rejected" /\ ~Marking(d)
    BY <1>4, <1>10, AtTheMark DEF HeldStory, Taken
  <2> QED
    BY <1>4, <1>6, <2>1, <2>2
<1> QED
  BY <1>4, <1>5, <1>8, <1>9, <1>10 DEF HeldStory

LEMMA JudgeHeld ==
  ASSUME Typed, CallStory, HeldStory, NEW w \in Workers, NEW c \in Calls,
         Authorize(w, c) \/ Deny(w, c)
  PROVE  HeldStory'
<1>1. /\ work[w] \in Job /\ Others(w) /\ work'[w] \in Job /\ work'[w].call = {c}
      /\ work'[w].of = work[w].of /\ changeSet' = changeSet
      /\ call[c].status = "absent" /\ \A d \in Calls : d # c => call'[d] = call[d]
  BY JudgeMakes, NeverAbsent
<1>2. deployment' = deployment
  BY DEF Authorize, Deny
<1>3. work[w].call = {} /\ work[w].phase = "authorize"
  BY <1>1 DEF Authorize, Deny, Typed, Sound, Staged
<1>4. call[c] = Absent
  BY JudgeMakes
<1>5. \A v \in Workers : work'[v] \in Job => work[v] \in Job /\ work'[v].of = work[v].of
  BY <1>1 DEF Others
<1>6. \A x \in ChangeSets : CallsOn(x) \subseteq CallsOn(x)' /\ c \notin CallsOn(x)
                             /\ CallsOn(x) \subseteq Calls
  BY <1>1, <1>4 DEF CallsOn
<1>7. ASSUME NEW d \in Calls, d # c PROVE (Held(d) => Held(d)') /\ (Marking(d)' => Marking(d))
  <2>1. ASSUME Held(d) PROVE Held(d)'
    <3>1. PICK v \in Workers : work[v] \in Job /\ work[v].call = {d}
      BY <2>1 DEF Held
    <3>2. v # w
      BY <1>3, <3>1
    <3> QED
      BY <1>1, <3>1, <3>2 DEF Held, Others
  <2>2. ASSUME Marking(d)' PROVE Marking(d)
    <3>1. PICK v \in Workers : work'[v] \in Job /\ work'[v].call = {d} /\ work'[v].step = "mark"
      BY <2>2 DEF Marking
    <3>2. v # w
      BY <1>1, <1>7, <3>1
    <3> QED
      BY <1>1, <3>1, <3>2 DEF Marking, Others
  <2> QED
    BY <2>1, <2>2
<1>8. Held(c)'
  BY <1>1 DEF Held
<1>9. RunningCallsAreHeld'
  <2> SUFFICES ASSUME NEW d \in Calls, d # c, call'[d].status = "running", ~Held(d)'
               PROVE  /\ deployment' = "shared"
                      /\ \E e \in CallsOn(call[d].of)' \ {d} : call'[e].status # "rejected"
    BY <1>1, <1>8 DEF RunningCallsAreHeld
  <2>1. deployment = "shared" /\ call[d].status = "running" /\ ~Held(d)
    BY <1>1, <1>7 DEF HeldStory, RunningCallsAreHeld
  <2>2. PICK e \in CallsOn(call[d].of) \ {d} : call[e].status # "rejected"
    BY <2>1 DEF HeldStory, RunningCallsAreHeld
  <2>3. call[d].of \in ChangeSets
    BY <2>1, Rows, NeverAbsent DEF Typed, CallRow
  <2> QED
    BY <1>1, <1>2, <1>6, <2>1, <2>2, <2>3
<1>10. ASSUME deployment' = "shared", NEW x \in ChangeSets
       PROVE  /\ changeSet'[x].status = "approved" =>
                   \E v \in Workers : Executing(v)' /\ work'[v].of = x
              /\ Taken(x)' => \E d \in CallsOn(x)' : call'[d].status # "rejected" /\ ~Marking(d)'
  <2>1. changeSet[x].status = "approved" => \E v \in Workers : Executing(v) /\ work[v].of = x
    BY <1>2, <1>10 DEF HeldStory
  <2>2. \A v \in Workers : Executing(v) => Executing(v)' /\ work'[v].of = work[v].of
    BY <1>1, <1>3 DEF Executing, Others
  <2>3. Taken(x) => \E d \in CallsOn(x) : call[d].status # "rejected" /\ ~Marking(d)
    BY <1>2, <1>10 DEF HeldStory
  <2> QED
    BY <1>1, <1>6, <1>7, <2>1, <2>2, <2>3 DEF Taken
<1> QED
  BY <1>1, <1>5, <1>9, <1>10 DEF HeldStory

\* The end of a request lets go of its call, which has an outcome by then, and
\* of its row, which is closed.
LEMMA EndHeld ==
  ASSUME Typed, CallStory, HeldStory, NEW w \in Workers,
         AuditDenial(w) \/ CloseOut(w) \/ Commit(w)
  PROVE  HeldStory'
<1>1. /\ work[w] \in Job /\ work[w].call # {} /\ work[w].of \in ChangeSets
      /\ deployment' = deployment
  BY EndersHold DEF AuditDenial, CloseOut, Commit
<1>2. PICK x \in ChangeSets : x = work[w].of
  BY <1>1
<1>3. PICK kind \in {"applied", "failed", "refused"} :
        /\ Ending(w, kind) /\ (kind = "refused" => work[w].step = "refuse")
        /\ kind = "refused" <=> AuditDenial(w)
  BY EndingSteps DEF AuditDenial, CloseOut, Commit
<1>4. PICK c \in Calls : /\ work[w].call = {c} /\ call[c] # Absent
                         /\ \A d \in Calls : d # c => call'[d] = call[d]
                         /\ call'[c] # Absent /\ call'[c].of = call[c].of
                         /\ call'[c].status = Outcome(kind)
  BY <1>1, <1>3, Endings
<1>5. call[c].status # "rejected" => call'[c].status # "rejected"
  BY <1>1, <1>3, <1>4 DEF CallStory, Carries, Outcome
<1>6. call'[c].status # "running"
  BY <1>4 DEF Outcome
<1>7. \A y \in ChangeSets : CallsOn(y)' = CallsOn(y) /\ CallsOn(y) \subseteq Calls
  BY <1>4 DEF CallsOn
<1>8. \A v \in Workers : work'[v] \in Job => v # w /\ work'[v] = work[v]
  BY <1>3, JobFields DEF Ending, Others
<1>9. ASSUME NEW y \in ChangeSets
      PROVE  /\ changeSet[y].status # "absent" => changeSet'[y].status # "absent"
             /\ Taken(y)' => Taken(y)
             /\ changeSet'[y].status = "approved" =>
                  changeSet[y].status = "approved" /\ (y = x => AuditDenial(w))
  <2>1. CASE AuditDenial(w)
    BY <2>1 DEF AuditDenial, Taken
  <2>2. CASE CloseOut(w) \/ Commit(w)
    <3>1. PICK to \in {"applied", "refused"} : changeSet' = Moved(x, "approved", to)
      BY <1>2, <2>2 DEF CloseOut, Commit
    <3> QED
      BY <3>1, MovedStatus DEF Taken, Typed
  <2> QED
    BY <2>1, <2>2
<1>10. \A v \in Workers : work'[v] \in Job => changeSet'[work'[v].of].status # "absent"
  BY <1>8, <1>9, JobFields DEF HeldStory
<1>11. \A d \in Calls : call[d].status # "rejected" => call'[d].status # "rejected"
  BY <1>4, <1>5
<1>12. RunningCallsAreHeld'
  <2> SUFFICES ASSUME NEW d \in Calls, d # c, call'[d].status = "running", ~Held(d)'
               PROVE  /\ deployment' = "shared"
                      /\ \E e \in CallsOn(call[d].of)' \ {d} : call'[e].status # "rejected"
    BY <1>4, <1>6 DEF RunningCallsAreHeld
  <2>1. ASSUME Held(d) PROVE Held(d)'
    <3>1. PICK v \in Workers : work[v] \in Job /\ work[v].call = {d}
      BY <2>1 DEF Held
    <3>2. v # w
      BY <1>4, <3>1
    <3> QED
      BY <1>3, <3>1, <3>2 DEF Held, Ending, Others
  <2>2. deployment = "shared" /\ call[d].status = "running"
    BY <1>4, <2>1 DEF HeldStory, RunningCallsAreHeld
  <2>3. PICK e \in CallsOn(call[d].of) \ {d} : call[e].status # "rejected"
    BY <2>1, <2>2 DEF HeldStory, RunningCallsAreHeld
  <2>4. call[d].of \in ChangeSets
    BY <2>2, Rows, NeverAbsent DEF Typed, CallRow
  <2> QED
    BY <1>1, <1>4, <1>7, <1>11, <2>2, <2>3, <2>4
<1>13. ASSUME deployment' = "shared", NEW y \in ChangeSets, changeSet'[y].status = "approved"
       PROVE  \E v \in Workers : Executing(v)' /\ work'[v].of = y
  <2>1. PICK v \in Workers : Executing(v) /\ work[v].of = y
    BY <1>1, <1>9, <1>13 DEF HeldStory
  <2>2. v # w
    <3>1. CASE y # x
      BY <1>2, <2>1, <3>1
    <3>2. CASE AuditDenial(w)
      BY <2>1, <3>2 DEF Executing, AuditDenial, Typed, Sound, Staged
    <3> QED
      BY <1>9, <1>13, <3>1, <3>2
  <2> QED
    BY <1>3, <2>1, <2>2 DEF Executing, Ending, Others
<1>14. ASSUME deployment' = "shared", NEW y \in ChangeSets, Taken(y)'
       PROVE  \E d \in CallsOn(y)' : call'[d].status # "rejected" /\ ~Marking(d)'
  <2>1. PICK d \in CallsOn(y) : call[d].status # "rejected" /\ ~Marking(d)
    BY <1>1, <1>9, <1>14 DEF HeldStory
  <2>2. ~Marking(d)'
    BY <1>8, <2>1 DEF Marking
  <2> QED
    BY <1>7, <1>11, <2>1, <2>2
<1> QED
  BY <1>10, <1>12, <1>13, <1>14 DEF HeldStory

LEMMA OutsideHeld ==
  ASSUME Typed, HeldStory, Outside
  PROVE  HeldStory'
<1>1. ASSUME NEW x \in ChangeSets
      PROVE  /\ changeSet[x].status # "absent" => changeSet'[x].status # "absent"
             /\ changeSet'[x].status = "approved" => changeSet[x].status = "approved"
             /\ Taken(x)' => Taken(x)
  <2>1. CASE Environment \/ UNCHANGED vars
    <3>1. changeSet' = changeSet
      BY <2>1 DEF Environment, Rest, EditDocument, RemoveMember, AddMember, CreateLink, RepinLink,
         DeleteLink, PinLink, vars, governance
    <3> QED
      BY <3>1 DEF Taken
  <2>2. ASSUME NEW y \in ChangeSets, NEW write \in Writes, StageChangeSet(y, write)
        PROVE  changeSet'[x] = changeSet[x] \/ changeSet'[x].status = "staged"
    BY <2>2 DEF StageChangeSet, Typed, TypeOK
  <2> QED
    BY <2>1, <2>2 DEF Outside, Taken
<1>2. UNCHANGED <<call, deployment, work>>
  BY OutsideAlone
<1>3. \A v \in Workers : work[v] \in Job => work[v].of \in ChangeSets
  BY JobFields
<1>4. RunningCallsAreHeld'
  BY <1>2 DEF HeldStory, RunningCallsAreHeld, Held, CallsOn
<1>5. \A x \in ChangeSets : CallsOn(x)' = CallsOn(x) /\ CallsOn(x) \subseteq Calls
  BY <1>2 DEF CallsOn
<1>6. /\ \A v \in Workers : Executing(v)' <=> Executing(v)
      /\ \A c \in Calls : Marking(c)' <=> Marking(c)
  BY <1>2 DEF Executing, Marking
<1>7. ASSUME deployment' = "shared", NEW x \in ChangeSets
      PROVE  /\ changeSet'[x].status = "approved" =>
                  \E v \in Workers : Executing(v)' /\ work'[v].of = x
             /\ Taken(x)' => \E d \in CallsOn(x)' : call'[d].status # "rejected" /\ ~Marking(d)'
  <2>1. changeSet[x].status = "approved" => \E v \in Workers : Executing(v) /\ work[v].of = x
    BY <1>2, <1>7 DEF HeldStory
  <2>2. Taken(x) => \E d \in CallsOn(x) : call[d].status # "rejected" /\ ~Marking(d)
    BY <1>2, <1>7 DEF HeldStory
  <2> QED
    BY <1>1, <1>2, <1>5, <1>6, <2>1, <2>2
<1> QED
  BY <1>1, <1>2, <1>3, <1>4, <1>7 DEF HeldStory

LEMMA HeldStoryStep == Typed /\ CallStory /\ HeldStory /\ [Next]_vars => HeldStory'
<1> SUFFICES ASSUME Typed, CallStory, HeldStory, [Next]_vars PROVE HeldStory'
  OBVIOUS
<1>1. CASE Outside
  BY <1>1, OutsideHeld
<1>2. ASSUME NEW w \in Workers, Reading(w), ~MarkLost(w) PROVE HeldStory'
  BY <1>2, ReadingGoesOn, ReadingKeeps, HeldOn DEF governance
<1>3. ASSUME NEW w \in Workers, MarkLocally(w) PROVE HeldStory'
  <2>1. ~MarkShared(w)
    BY <1>3 DEF MarkLocally, MarkShared
  <2>2. Preparing(w) /\ deployment = "local" /\ deployment' = deployment
    BY <1>3 DEF Preparing, MarkLocally
  <2>3. work[w].of \in ChangeSets /\ changeSet' = Moved(work[w].of, "staged", "approved")
    BY <1>3, Jobs, JobFields DEF MarkLocally, Typed
  <2>4. \A x \in ChangeSets : changeSet[x].status # "absent" => changeSet'[x].status # "absent"
    BY <2>3, MovedStatus DEF Typed
  <2> QED
    BY <2>1, <2>2, <2>4, PreparingGoesOn, PreparingKeeps, HeldOn
<1>4. ASSUME NEW w \in Workers, Preparing(w), ~MarkShared(w), ~MarkLocally(w) PROVE HeldStory'
  <2>1. changeSet' = changeSet /\ deployment' = deployment
    BY <1>4 DEF Preparing, OpenSession, CreateApproval, WriteVerdict
  <2> QED
    BY <1>4, <2>1, PreparingGoesOn, PreparingKeeps, HeldOn
<1>5. ASSUME NEW w \in Workers, MarkShared(w) \/ MarkLost(w) PROVE HeldStory'
  BY <1>5, MarkSharedHeld, MarkLostHeld
<1>6. ASSUME NEW w \in Workers, NEW c \in Calls, Authorize(w, c) \/ Deny(w, c) PROVE HeldStory'
  BY <1>6, JudgeHeld
<1>7. ASSUME NEW w \in Workers, AuditDenial(w) \/ CloseOut(w) \/ Commit(w) PROVE HeldStory'
  BY <1>7, EndHeld
<1> QED
  BY <1>1, <1>2, <1>3, <1>4, <1>5, <1>6, <1>7, NextSorted, WritingSorted

LEMMA InitHeld == Init => HeldStory
BY NeverAbsent, JobFields DEF Init, HeldStory, RunningCallsAreHeld, Taken, Absent

LEMMA HeldAlways == Spec => [](Typed /\ CallStory /\ HeldStory)
BY InitTyped, InitStory, InitHeld, StepTyped, CallStoryStep, HeldStoryStep, PTL DEF Spec

(***************************************************************************)
(* A call is left running only by a request of a shared deployment that    *)
(* lost the race for the row to another call: every other end of a request *)
(* closes the call it authorized.                                          *)
(***************************************************************************)
THEOREM NoStrayCalls == Spec => []RunningCallsAreHeld
BY HeldAlways, PTL DEF HeldStory

(***************************************************************************)
(* In a shared deployment an approved row is in the hands of a request     *)
(* that holds a running call on it, and will apply or refuse it.           *)
(***************************************************************************)
THEOREM NoStrayRows == Spec => []SharedRowsAreHeld
<1>1. Typed /\ CallStory /\ HeldStory => SharedRowsAreHeld
  <2> SUFFICES ASSUME Typed, CallStory, HeldStory, deployment = "shared",
                      NEW x \in ChangeSets, changeSet[x].status = "approved"
               PROVE  \E c \in CallsOn(x) : call[c].status = "running" /\ Held(c)
    BY DEF SharedRowsAreHeld
  <2>1. PICK w \in Workers : Executing(w) /\ work[w].of = x
    BY DEF HeldStory
  <2>2. work[w] \in Job /\ work[w].call # {} /\ work[w].step # "refuse"
    BY <2>1 DEF Executing, Typed, Sound, Staged
  <2>3. PICK c \in Calls : work[w].call = {c}
    BY <2>2, OneCall
  <2>4. call[c] # Absent /\ call[c].of = x /\ call[c].status = "running"
    BY <2>1, <2>2, <2>3 DEF CallStory, Carries, Typed, Sound
  <2> QED
    BY <2>2, <2>3, <2>4 DEF CallsOn, Held
<1> QED
  BY <1>1, HeldAlways, PTL

-------------------------------------------------------------------------------
(* The approval behind a call.                                             *)

\* A request that has a session and is about to make its approval.
Asking(w) == work[w] \in Job /\ work[w].phase = "ask" /\ work[w].step \in {"check", "read"}

\* A resolver once approved what the call does.
Backed(c) ==
  /\ call[c].session \in granted
  /\ approval[call[c].session] # Absent
  /\ approval[call[c].session].of = call[c].of
  /\ approval[call[c].session].impact = call[c].impact

GrantStory ==
  /\ \A s \in Sessions : approval[s].status \in {"approved", "consumed"} => s \in granted
  /\ \A s \in Sessions : approval[s] # Absent => session[s] # "absent"
  /\ \A w \in Workers : Asking(w) =>
       \A s \in work[w].session : approval[s] = Absent /\ session[s] # "absent"
  /\ \A v, w \in Workers : v # w /\ Asking(v) /\ Asking(w) =>
       work[v].session \cap work[w].session = {}
  /\ \A c \in Calls : call[c].status \notin {"absent", "rejected"} => Backed(c)

\* No approval is made or changed but for its status, and nobody begins to ask.
ApprovalsStay ==
  /\ granted \subseteq granted'
  /\ \A s \in Sessions :
       /\ approval'[s].status \in {"approved", "consumed"} => s \in granted'
       /\ approval'[s] = Absent <=> approval[s] = Absent
       /\ approval[s] # Absent =>
            approval'[s].of = approval[s].of /\ approval'[s].impact = approval[s].impact
       /\ session[s] # "absent" => session'[s] # "absent"

AsksNoMore(w) == Asking(w)' => Asking(w) /\ work'[w].session = work[w].session

CallStays(c) ==
  call'[c].status \notin {"absent", "rejected"} =>
    /\ call[c].status \notin {"absent", "rejected"} /\ call'[c].session = call[c].session
    /\ call'[c].of = call[c].of /\ call'[c].impact = call[c].impact

LEMMA GrantOn ==
  ASSUME Typed, GrantStory, ApprovalsStay, NEW w \in Workers, Others(w), AsksNoMore(w),
         \A c \in Calls : CallStays(c) \/ Backed(c)'
  PROVE  GrantStory'
<1>1. ASSUME NEW v \in Workers, Asking(v)' PROVE Asking(v) /\ work'[v].session = work[v].session
  BY <1>1 DEF Others, AsksNoMore, Asking
<1>2. \A v \in Workers : Asking(v) => work[v].session \subseteq Sessions
  BY JobFields DEF Asking
<1>3. ASSUME NEW v \in Workers, Asking(v)', NEW s \in work'[v].session
      PROVE  approval'[s] = Absent /\ session'[s] # "absent"
  BY <1>1, <1>2, <1>3 DEF GrantStory, ApprovalsStay
<1>4. ASSUME NEW u \in Workers, NEW v \in Workers, u # v, Asking(u)', Asking(v)'
      PROVE  work'[u].session \cap work'[v].session = {}
  BY <1>1, <1>4 DEF GrantStory
<1>5. ASSUME NEW c \in Calls, call'[c].status \notin {"absent", "rejected"} PROVE Backed(c)'
  <2>1. CASE CallStays(c)
    <3>1. Backed(c) /\ call'[c].session = call[c].session /\ call'[c].of = call[c].of
          /\ call'[c].impact = call[c].impact /\ call[c].status # "absent"
      BY <1>5, <2>1 DEF CallStays, GrantStory
    <3>2. call[c].session \in Sessions
      BY <3>1, Rows, NeverAbsent DEF Typed, CallRow
    <3> QED
      BY <3>1, <3>2 DEF Backed, ApprovalsStay
  <2> QED
    BY <2>1
<1> QED
  BY <1>3, <1>4, <1>5 DEF GrantStory, ApprovalsStay

\* What a status of an approval's own leaves of it.
LEMMA Judged ==
  ASSUME Typed, NEW s \in Sessions, approval[s] # Absent,
         NEW status \in {"approved", "rejected", "consumed"}
  PROVE  /\ [approval[s] EXCEPT !.status = status].status = status
         /\ [approval[s] EXCEPT !.status = status] # Absent
         /\ [approval[s] EXCEPT !.status = status].of = approval[s].of
         /\ [approval[s] EXCEPT !.status = status].impact = approval[s].impact
<1>1. approval[s] \in ApprovalRow
  BY Rows DEF Typed
<1>2. [approval[s] EXCEPT !.status = status] \in ApprovalRow
  BY <1>1 DEF ApprovalRow
<1> QED
  BY <1>1, <1>2, NeverAbsent DEF ApprovalRow

LEMMA ReadingAsks ==
  ASSUME Typed, NEW w \in Workers, Reading(w)
  PROVE  AsksNoMore(w)
<1>1. TypeOK
  BY DEF Typed
<1>2. CASE CheckPins(w) \/ Recompute(w) \/ Execute(w) \/ CommitRefused(w) \/ ReadOwnPending(w)
  <2>1. work[w] \in Job
    BY <1>1, <1>2, Jobs DEF CheckPins, Recompute, Execute, CommitRefused, ReadOwnPending
  <2>2. work[w].phase = "ask" => CheckPins(w) \/ ReadOwnPending(w)
    BY <1>2, <2>1 DEF Recompute, Execute, CommitRefused, Typed, Sound, Staged
  <2>3. PICK step \in {"read", "commit", "check", "close", "verdict"} :
          /\ Proceed(w, step)
          /\ step = "read" => CheckPins(w)
          /\ ReadOwnPending(w) => step = "verdict"
    BY <1>2 DEF CheckPins, Recompute, Execute, CommitRefused, ReadOwnPending
  <2>4. CheckPins(w) => work[w].step = "check"
    BY DEF CheckPins
  <2> QED
    BY <1>1, <2>1, <2>2, <2>3, <2>4, Proceeding DEF AsksNoMore, Asking
<1>3. CASE ExecutionFails(w)
  BY <1>1, <1>3, Proceeding DEF ExecutionFails, AsksNoMore, Asking
<1>4. CASE ReadLinks(w)
  <2>1. work[w] \in Job
    BY <1>1, <1>4, Jobs DEF ReadLinks
  <2>2. work'[w] = [work[w] EXCEPT !.step = "judge", !.impact = Impact(RowOf(work[w]))]
    BY <1>1, <1>4, GotoOthers DEF ReadLinks
  <2>3. work'[w].step = "judge"
    BY <2>1, <2>2 DEF Job
  <2> QED
    BY <2>3 DEF AsksNoMore, Asking
<1>5. CASE GiveUp(w) \/ OwnAlreadyResolved(w) \/ MarkLost(w)
  BY <1>1, <1>5, GotoOthers, JobFields DEF GiveUp, OwnAlreadyResolved, MarkLost, AsksNoMore, Asking
<1>6. ASSUME NEW x \in ChangeSets, RequestApproval(w, x) \/ ApplyLocally(w, x)
      PROVE  AsksNoMore(w)
  BY <1>1, <1>6, GotoOthers DEF RequestApproval, ApplyLocally, NewJob, AsksNoMore, Asking
<1>7. ASSUME NEW x \in ChangeSets, NEW s \in Sessions, ApplyOnApproval(w, x, s)
      PROVE  AsksNoMore(w)
  BY <1>1, <1>7, GotoOthers DEF ApplyOnApproval, NewJob, AsksNoMore, Asking
<1>8. ASSUME NEW s \in Sessions, NEW verdict \in {"approved", "rejected"}, ReadPending(w, s, verdict)
      PROVE  AsksNoMore(w)
  BY <1>1, <1>8, GotoOthers DEF ReadPending, AsksNoMore, Asking
<1> QED
  BY <1>2, <1>3, <1>4, <1>5, <1>6, <1>7, <1>8 DEF Reading

LEMMA VerdictGrants ==
  ASSUME Typed, GrantStory, NEW w \in Workers, WriteVerdict(w)
  PROVE  GrantStory'
<1>1. /\ TypeOK /\ Sound(work[w]) /\ work[w].step = "verdict"
      /\ work[w] \in Job \cup Resolving
  BY Jobs DEF Typed, WriteVerdict
<1>2. \A s \in work[w].session : approval[s] # Absent
  BY <1>1 DEF Sound
<1>3. PICK verdict \in {"approved", "rejected"} : verdict = VerdictOf(work[w])
  BY <1>1 DEF VerdictOf, Job, Resolving
<1>4. /\ approval' = [s \in Sessions |-> IF s \in work[w].session
                        THEN [approval[s] EXCEPT !.status = verdict] ELSE approval[s]]
      /\ granted' = (IF verdict = "approved" THEN granted \cup work[w].session ELSE granted)
      /\ session' = session /\ call' = call
  BY <1>3 DEF WriteVerdict
<1>5. ASSUME NEW s \in Sessions
      PROVE  /\ approval'[s].status \in {"approved", "consumed"} => s \in granted'
             /\ approval'[s] = Absent <=> approval[s] = Absent
             /\ approval[s] # Absent =>
                  approval'[s].of = approval[s].of /\ approval'[s].impact = approval[s].impact
  BY <1>2, <1>4, Judged DEF GrantStory
<1>6. ApprovalsStay
  BY <1>4, <1>5 DEF ApprovalsStay
<1>7. Others(w) /\ ~Asking(w)'
  <2>1. CASE work[w].flow = "resolve"
    BY <1>1, <2>1, GotoOthers, JobFields DEF WriteVerdict, Asking
  <2>2. CASE work[w].flow # "resolve"
    <3>1. work[w] \in Job
      BY <1>1, <2>2 DEF Resolving
    <3>2. Others(w) /\ work'[w] = [work[w] EXCEPT !.phase = "authorize", !.step = "check"]
      BY <1>1, <2>2, GotoOthers DEF WriteVerdict
    <3>3. work'[w].phase = "authorize"
      BY <3>1, <3>2 DEF Job
    <3> QED
      BY <3>2, <3>3 DEF Asking
  <2> QED
    BY <2>1, <2>2
<1>8. \A c \in Calls : CallStays(c)
  BY <1>4 DEF CallStays
<1> QED
  BY <1>6, <1>7, <1>8, GrantOn DEF AsksNoMore

LEMMA SessionGrants ==
  ASSUME Typed, GrantStory, NEW w \in Workers, NEW s \in Sessions, OpenSession(w, s)
  PROVE  GrantStory'
<1>1. TypeOK /\ work[w] \in Job /\ session[s] = "absent" /\ session' = [session EXCEPT ![s] = "active"]
  BY Jobs DEF OpenSession, Typed
<1>2. approval' = approval /\ granted' = granted /\ call' = call
  BY DEF OpenSession
<1>3. Others(w) /\ work'[w] = [work[w] EXCEPT !.step = "check", !.session = {s}]
  BY <1>1, GotoOthers DEF OpenSession
<1>4. work'[w].session = {s}
  BY <1>1, <1>3 DEF Job
<1>5. \A r \in Sessions : session[r] # "absent" => session'[r] # "absent" /\ r # s
  BY <1>1 DEF TypeOK
<1>6. approval[s] = Absent /\ session'[s] # "absent"
  BY <1>1 DEF GrantStory, TypeOK
<1>7. ASSUME NEW v \in Workers, v # w, Asking(v)'
      PROVE  /\ Asking(v) /\ work'[v] = work[v] /\ work[v].session \subseteq Sessions
             /\ s \notin work[v].session
  BY <1>1, <1>3, <1>7, JobFields DEF Others, Asking, GrantStory
<1>8. ASSUME NEW v \in Workers, Asking(v)', NEW r \in work'[v].session
      PROVE  approval'[r] = Absent /\ session'[r] # "absent"
  BY <1>2, <1>4, <1>5, <1>6, <1>7, <1>8 DEF GrantStory
<1>9. ASSUME NEW u \in Workers, NEW v \in Workers, u # v, Asking(u)', Asking(v)'
      PROVE  work'[u].session \cap work'[v].session = {}
  BY <1>4, <1>7, <1>9 DEF GrantStory
<1>10. \A c \in Calls : Backed(c) => Backed(c)'
  BY <1>2 DEF Backed
<1> QED
  BY <1>2, <1>5, <1>8, <1>9, <1>10 DEF GrantStory

LEMMA AskingGrants ==
  ASSUME Typed, GrantStory, NEW w \in Workers, CreateApproval(w)
  PROVE  GrantStory'
<1>1. TypeOK /\ work[w] \in Job /\ Asking(w)
  BY Jobs DEF CreateApproval, Typed, Asking
<1>2. work[w].session \subseteq Sessions
  BY <1>1, JobFields
<1> DEFINE new == [status |-> "pending", of |-> work[w].of, impact |-> Impact(RowOf(work[w]))]
<1>3. /\ approval' = [s \in Sessions |-> IF s \in work[w].session THEN new ELSE approval[s]]
      /\ session' = session /\ granted' = granted /\ call' = call
  BY DEF CreateApproval
<1>4. \A s \in work[w].session : approval[s] = Absent /\ session[s] # "absent"
  BY <1>1 DEF GrantStory
<1>5. ASSUME NEW s \in Sessions
      PROVE  /\ approval'[s].status \in {"approved", "consumed"} => s \in granted'
             /\ approval'[s] # Absent => session'[s] # "absent"
             /\ s \notin work[w].session => approval'[s] = approval[s]
  BY <1>3, <1>4 DEF GrantStory
<1>6. Others(w) /\ ~Asking(w)'
  <2>1. CASE work[w].flow = "apply"
    BY <1>1, <2>1, Proceeding DEF CreateApproval, Asking
  <2>2. CASE work[w].flow # "apply"
    BY <1>1, <2>2, GotoOthers, JobFields DEF CreateApproval, Asking
  <2> QED
    BY <2>1, <2>2
<1>7. ASSUME NEW v \in Workers, Asking(v)'
      PROVE  /\ v # w /\ Asking(v) /\ work'[v] = work[v] /\ work[v].session \subseteq Sessions
             /\ work[v].session \cap work[w].session = {}
  BY <1>1, <1>6, <1>7, JobFields DEF Others, Asking, GrantStory
<1>8. ASSUME NEW v \in Workers, Asking(v)', NEW s \in work'[v].session
      PROVE  approval'[s] = Absent /\ session'[s] # "absent"
  BY <1>3, <1>5, <1>7, <1>8 DEF GrantStory
<1>9. ASSUME NEW u \in Workers, NEW v \in Workers, u # v, Asking(u)', Asking(v)'
      PROVE  work'[u].session \cap work'[v].session = {}
  BY <1>7, <1>9 DEF GrantStory
<1>10. ASSUME NEW c \in Calls, call'[c].status \notin {"absent", "rejected"} PROVE Backed(c)'
  <2>1. Backed(c) /\ call[c].session \in Sessions
    BY <1>3, <1>10, Rows, NeverAbsent DEF GrantStory, Typed, CallRow
  <2>2. approval'[call[c].session] = approval[call[c].session]
    BY <1>4, <1>5, <2>1 DEF Backed
  <2> QED
    BY <1>3, <2>1, <2>2 DEF Backed
<1> QED
  BY <1>5, <1>8, <1>9, <1>10 DEF GrantStory

LEMMA JudgeGrants ==
  ASSUME Typed, GrantStory, NEW w \in Workers, NEW c \in Calls, Authorize(w, c) \/ Deny(w, c)
  PROVE  GrantStory'
<1>1. UNCHANGED <<session, approval, granted>>
  BY DEF Authorize, Deny
<1>2. ApprovalsStay
  BY <1>1 DEF ApprovalsStay, GrantStory
<1>3. Others(w) /\ ~Asking(w)'
  <2>1. Others(w) /\ work'[w] \in Job /\ work'[w].call = {c}
    BY JudgeMakes
  <2>2. Typed'
    BY JudgeTyped
  <2>3. work'[w].phase # "ask"
    BY <2>1, <2>2 DEF Typed, Sound, Staged
  <2> QED
    BY <2>1, <2>3 DEF Asking
<1>4. \A d \in Calls : d # c => CallStays(d)
  BY JudgeMakes DEF CallStays
<1>5. CASE Deny(w, c)
  <2>1. ~Authorize(w, c)
    BY <1>5 DEF Authorize, Deny
  <2>2. call'[c] = CallOf("rejected", work[w])
    BY <2>1, JudgeMakes
  <2>3. call'[c].status = "rejected"
    BY <2>2 DEF CallOf
  <2> QED
    BY <1>2, <1>3, <1>4, <2>3, GrantOn DEF CallStays, AsksNoMore
<1>6. CASE Authorize(w, c)
  <2>1. PICK s \in Sessions : s = SessionOf(work[w]) /\ work[w].session = {s}
    BY JudgeMakes
  <2>2. approval[s].status = "approved" /\ approval[s].of = work[w].of
        /\ approval[s].impact = work[w].impact
    BY <1>6, <2>1 DEF Authorize, Covered, Covers
  <2>3. s \in granted /\ approval[s] # Absent
    BY <2>2 DEF GrantStory, Absent
  <2>4. call'[c] = CallOf("running", work[w])
    BY <1>6, JudgeMakes
  <2>5. call'[c].session = s /\ call'[c].of = work[w].of /\ call'[c].impact = work[w].impact
    BY <2>1, <2>4 DEF CallOf
  <2>6. Backed(c)'
    BY <1>1, <2>2, <2>3, <2>5 DEF Backed
  <2> QED
    BY <1>2, <1>3, <1>4, <2>6, GrantOn DEF AsksNoMore
<1> QED
  BY <1>5, <1>6

LEMMA EndGrants ==
  ASSUME Typed, CallStory, GrantStory, NEW w \in Workers,
         AuditDenial(w) \/ CloseOut(w) \/ Commit(w)
  PROVE  GrantStory'
<1>1. PICK kind \in {"applied", "failed", "refused"} :
        Ending(w, kind) /\ (kind = "refused" <=> AuditDenial(w))
  BY EndingSteps DEF AuditDenial, CloseOut, Commit
<1>2. Others(w) /\ ~Asking(w)'
  BY <1>1, JobFields DEF Ending, Asking
<1>3. PICK c \in Calls :
        /\ work[w].call = {c} /\ \A d \in Calls : d # c => call'[d] = call[d]
        /\ call'[c].of = call[c].of /\ call'[c].impact = call[c].impact
        /\ call'[c].session = call[c].session /\ call'[c].status = Outcome(kind)
  BY <1>1, EndersHold, Endings
<1>4. call[c].status = (IF AuditDenial(w) THEN "rejected" ELSE "running")
  <2>1. work[w] \in Job /\ Carries(work[w])
    BY EndersHold DEF CallStory
  <2>2. work[w].step = "refuse" <=> AuditDenial(w)
    BY DEF AuditDenial, CloseOut, Commit
  <2> QED
    BY <1>3, <2>1, <2>2 DEF Carries
<1>5. \A d \in Calls : CallStays(d)
  BY <1>1, <1>3, <1>4 DEF CallStays, Outcome
<1>6. ApprovalsStay
  <2>1. CASE AuditDenial(w)
    BY <2>1 DEF AuditDenial, ApprovalsStay, GrantStory
  <2>2. CASE CloseOut(w)
    BY <2>2 DEF CloseOut, ApprovalsStay, GrantStory
  <2>3. CASE Commit(w)
    <3>1. /\ approval' = [s \in Sessions |-> IF s \in work[w].session
                            THEN [approval[s] EXCEPT !.status = "consumed"] ELSE approval[s]]
          /\ session' = [s \in Sessions |-> IF s \in work[w].session THEN "completed" ELSE session[s]]
          /\ granted' = granted
          /\ \A s \in work[w].session : approval[s].status = "approved"
      BY <2>3 DEF Commit, Committable
    <3>2. \A s \in work[w].session : approval[s] # Absent
      BY <3>1 DEF Absent
    <3> QED
      BY <3>1, <3>2, Judged DEF ApprovalsStay, GrantStory
  <2> QED
    BY <2>1, <2>2, <2>3
<1> QED
  BY <1>2, <1>5, <1>6, GrantOn DEF AsksNoMore

LEMMA GrantStoryStep == Typed /\ CallStory /\ GrantStory /\ [Next]_vars => GrantStory'
<1> SUFFICES ASSUME Typed, CallStory, GrantStory, [Next]_vars PROVE GrantStory'
  OBVIOUS
<1>1. CASE Outside
  BY <1>1, OutsideAlone DEF GrantStory, Asking, Backed
<1>2. ASSUME NEW w \in Workers, UNCHANGED <<session, approval, call, granted>>, Others(w), AsksNoMore(w)
      PROVE  GrantStory'
  BY <1>2, GrantOn DEF ApprovalsStay, CallStays, GrantStory
<1>3. ASSUME NEW w \in Workers, Reading(w) PROVE GrantStory'
  BY <1>2, <1>3, ReadingGoesOn, ReadingAsks DEF governance
<1>4. ASSUME NEW w \in Workers, MarkLocally(w) \/ MarkShared(w) PROVE GrantStory'
  <2>1. work[w] \in Job /\ UNCHANGED <<session, approval, call, granted>>
    BY <1>4, Jobs DEF MarkLocally, MarkShared, Typed
  <2>2. PICK step \in {"session", "execute"} : Proceed(w, step)
    BY <1>4 DEF MarkLocally, MarkShared
  <2> QED
    BY <1>2, <2>1, <2>2, Proceeding DEF Typed, AsksNoMore, Asking
<1>5. ASSUME NEW w \in Workers, NEW c \in Calls, Authorize(w, c) \/ Deny(w, c) PROVE GrantStory'
  BY <1>5, JudgeGrants
<1>6. ASSUME NEW w \in Workers, AuditDenial(w) \/ CloseOut(w) \/ Commit(w) PROVE GrantStory'
  BY <1>6, EndGrants
<1> QED
  BY <1>1, <1>3, <1>4, <1>5, <1>6, SessionGrants, AskingGrants, VerdictGrants,
     NextSorted, WritingSorted DEF Preparing

LEMMA InitGrants == Init => GrantStory
BY JobFields DEF Init, GrantStory, Asking, Absent

(***************************************************************************)
(* What was applied was applied by a call whose approval a resolver once   *)
(* approved, for this change set and for these links at these pins: marks  *)
(* on the row, verdicts that come late and requests that share the row     *)
(* make no difference.                                                     *)
(***************************************************************************)
THEOREM NothingUnapproved == Spec => []AppliedAsApproved
<1>1. Typed /\ CallStory /\ GrantStory => AppliedAsApproved
  <2> SUFFICES ASSUME Typed, CallStory, GrantStory, NEW e \in Applied
               PROVE  Backed(e.call)
    BY DEF AppliedAsApproved, Backed
  <2>1. e \in chain /\ e.kind = "applied" /\ e.call \in Calls
    BY DEF Applied, Typed, TypeOK, Event
  <2>2. call[e.call].status = "completed"
    BY <2>1 DEF CallStory, Outcome
  <2> QED
    BY <2>1, <2>2 DEF GrantStory
<1>2. Spec => [](Typed /\ CallStory /\ GrantStory)
  BY InitTyped, InitStory, InitGrants, StepTyped, CallStoryStep, GrantStoryStep, PTL DEF Spec
<1> QED
  BY <1>1, <1>2, PTL

===============================================================================
