------------------------- MODULE ReviewReleaseProofs -------------------------
(***************************************************************************)
(* Proofs about ReviewRelease, for any number of threads, requests,        *)
(* revisions and mutations.                                                *)
(***************************************************************************)
EXTENDS ReviewRelease, TLAPS

-------------------------------------------------------------------------------
(* Types.  A comment count never passes the sequence number it was written *)
(* under, which bounds it.                                                 *)

Counted(g) == g.comments <= g.seq

Typed ==
  /\ TypeOK
  /\ Counted(gov)
  /\ \A w \in Requests : job[w] # Idle => Counted(job[w].snap) /\ job[w].snap.seq < MaxSeq

LEMMA OptionalOf == \A S : \A x \in S : {x} \in Optional(S) /\ {} \in Optional(S)
  BY DEF Optional

LEMMA OptionalIn == \A S : \A o \in Optional(S) : o \subseteq S
  BY DEF Optional

\* A held job is a job.
LEMMA JobTyped ==
  ASSUME Typed, NEW w \in Requests, job[w] # Idle
  PROVE  job[w] \in Job /\ Counted(job[w].snap) /\ job[w].snap.seq < MaxSeq
  BY DEF Typed, TypeOK

LEMMA StepMeansJob ==
  ASSUME NEW j, j.step # "idle"
  PROVE  j # Idle
  BY DEF Idle

\* What a job makes of its snapshot is a governance row again.
LEMMA ThreadsTyped ==
  ASSUME NEW j \in Job
  PROVE  ThreadsAfter(j) \in [Threads -> Thread]
<1>1. SUFFICES ASSUME NEW t \in Threads
               PROVE  ThreadsAfter(j)[t] \in Thread
  BY DEF ThreadsAfter
<1>2. j.snap.threads[t] \in Thread /\ j.seen \in Optional(Revisions)
  BY DEF Job, Governance
<1>3. {} \in Optional(Revisions)
  BY DEF Optional
<1> QED
  BY <1>2, <1>3 DEF ThreadsAfter, Thread, NoThread

LEMMA DigestTyped ==
  ASSUME NEW g \in Governance
  PROVE  Digest(g) \in Digests
  BY DEF Digest, Digests, Governance

LEMMA ApprovalsTyped ==
  ASSUME NEW j \in Job, j.snap.seq < MaxSeq
  PROVE  ApprovalsAfter(j) \subseteq Approval
<1>1. j.snap.approvals \subseteq Approval /\ j.snap \in Governance
  BY DEF Job, Governance
<1>2. NewId(j) \in Seqs
  BY BoundsAssumption DEF NewId, Seqs, Job, Governance
<1>3. ASSUME NEW a \in Approval PROVE Superseding(j, a) \in Approval
  BY <1>3 DEF Superseding, Approval
<1>4. ASSUME NEW a \in Approval PROVE Decided(j, a) \in Approval
  <2>1. j.judged \in Optional(Revisions)
    BY DEF Job
  <2> QED
    BY <1>4, <2>1 DEF Decided, Approval
<1>5. Requested(j) \subseteq Approval
  <2>1. Digest(j.snap) \in Digests
    BY <1>1, DigestTyped
  <2>2. j.seen \subseteq Revisions /\ {} \in Optional(Revisions)
    BY OptionalIn DEF Job, Optional
  <2> QED
    BY <1>2, <2>1, <2>2 DEF Requested, Approval
<1> QED
  BY <1>1, <1>3, <1>4, <1>5 DEF ApprovalsAfter

LEMMA ReleasesTyped ==
  ASSUME NEW j \in Job, j.snap.seq < MaxSeq
  PROVE  ReleasesAfter(j) \subseteq Release
<1>1. j.snap.releases \subseteq Release /\ j.snap \in Governance
  BY DEF Job, Governance
<1>2. NewId(j) \in Seqs
  BY BoundsAssumption DEF NewId, Seqs, Job, Governance
<1>3. Digest(j.snap) \in Digests
  BY <1>1, DigestTyped
<1>4. j.seen \subseteq Revisions /\ j.approval \subseteq Seqs
  BY OptionalIn DEF Job
<1>5. Released(j) \subseteq Release
  BY <1>2, <1>3, <1>4 DEF Released, Release
<1> QED
  BY <1>1, <1>5 DEF ReleasesAfter

LEMMA RowTyped ==
  ASSUME NEW j \in Job, j.snap.seq < MaxSeq, Counted(j.snap)
  PROVE  Reconciled(j) \in Governance /\ Counted(Reconciled(j))
<1>1. NewId(j) \in Seqs
  BY BoundsAssumption DEF NewId, Seqs, Job, Governance
<1>2. CommentsAfter(j) \in Seqs /\ CommentsAfter(j) <= NewId(j)
  BY BoundsAssumption DEF CommentsAfter, NewId, Seqs, Job, Governance, Counted
<1>3. ApprovalsReconciled(j) \subseteq Approval
  <2>1. ASSUME NEW a \in Approval PROVE [a EXCEPT !.status = "stale"] \in Approval
    BY <2>1 DEF Approval
  <2> QED
    BY <2>1, ApprovalsTyped DEF ApprovalsReconciled
<1>4. ReleasesReconciled(j) \subseteq Release
  <2>1. ASSUME NEW r \in Release PROVE [r EXCEPT !.state = "superseded"] \in Release
    BY <2>1 DEF Release
  <2> QED
    BY <2>1, ReleasesTyped DEF ReleasesReconciled
<1>5. ThreadsAfter(j) \in [Threads -> Thread]
  BY ThreadsTyped
<1> QED
  BY <1>1, <1>2, <1>3, <1>4, <1>5 DEF Reconciled, Governance, Counted

LEMMA FactsTyped ==
  ASSUME NEW j \in Job, j.snap.seq < MaxSeq
  PROVE  Facts(j) \subseteq Fact
<1>1. NewId(j) \in Seqs
  BY BoundsAssumption DEF NewId, Seqs, Job, Governance
<1>2. \A a \in ApprovalsAfter(j) : a.id \in Seqs
  BY ApprovalsTyped DEF Approval
<1>3. \A r \in ReleasesAfter(j) : r.id \in Seqs
  BY ReleasesTyped DEF Release
<1>4. ASSUME NEW S \in SUBSET Seqs
      PROVE  /\ About("approval.invalidated", S, j) \subseteq Fact
             /\ About("release.superseded", S, j) \subseteq Fact
             /\ About("release.released", S, j) \subseteq Fact
  BY <1>1, <1>4 DEF About, Fact
<1> DEFINE A == {a.id : a \in Invalidated(j)}
           B == {r.id : r \in {q \in ReleasesAfter(j) : Outdated(j, q)}}
           C == {r.id : r \in ReleasesAfter(j) \ j.snap.releases}
<1>5. A \in SUBSET Seqs /\ B \in SUBSET Seqs /\ C \in SUBSET Seqs
  BY <1>2, <1>3 DEF Invalidated
<1>6. Facts(j) = About("approval.invalidated", A, j) \cup About("release.superseded", B, j)
                   \cup About("release.released", C, j)
  BY DEF Facts
<1> HIDE DEF A, B, C
<1> QED
  BY <1>4, <1>5, <1>6

LEMMA InitTyped == Init => Typed
<1> SUFFICES ASSUME Init PROVE Typed
  OBVIOUS
<1>1. NoThread \in Thread
  BY DEF NoThread, Thread, Optional
<1>2. gov \in Governance /\ Counted(gov)
  BY <1>1, BoundsAssumption DEF Init, Governance, Seqs, Counted
<1>3. \A w \in Requests : job[w] = Idle
  BY DEF Init
<1>4. TypeOK
  BY <1>2, BoundsAssumption DEF Init, TypeOK, Revisions
<1> QED
  BY <1>2, <1>3, <1>4 DEF Typed

\* A step that keeps the tables and hands a request a job, or nothing.
LEMMA HoldTyped ==
  ASSUME Typed, NEW w \in Requests, NEW j, Hold(w, j), chain' \subseteq Fact,
         j = Idle \/ (j \in Job /\ Counted(j.snap) /\ j.snap.seq < MaxSeq)
  PROVE  Typed'
<1>1. job' = [job EXCEPT ![w] = j] /\ UNCHANGED <<revision, fit, gov, package>>
  BY DEF Hold
<1>2. job' \in [Requests -> Job \cup {Idle}]
  BY <1>1 DEF Typed, TypeOK
<1>3. \A v \in Requests : job'[v] = job[v] \/ job'[v] = j
  BY <1>1 DEF Typed, TypeOK
<1>4. TypeOK'
  BY <1>1, <1>2 DEF Typed, TypeOK
<1>5. Counted(gov)'
  BY <1>1 DEF Typed, Counted
<1>6. \A v \in Requests : job'[v] # Idle => Counted(job'[v].snap) /\ job'[v].snap.seq < MaxSeq
  BY <1>3 DEF Typed
<1> QED
  BY <1>4, <1>5, <1>6 DEF Typed, Counted

LEMMA RefuseTyped ==
  ASSUME Typed, NEW w \in Requests, Refuse(w)
  PROVE  Typed'
  BY HoldTyped DEF Refuse, Typed, TypeOK

\* The denial of a release is a fact.
LEMMA DeniedTyped ==
  ASSUME Typed, Denied
  PROVE  chain' \subseteq Fact
<1>1. [event |-> "release.denied", about |-> 0, seq |-> 0] \in Fact
  BY BoundsAssumption DEF Fact, Seqs
<1> QED
  BY <1>1 DEF Denied, Typed, TypeOK

LEMMA BeginTyped ==
  ASSUME Typed, NEW w \in Requests, NEW kind \in Kinds, NEW on \in Optional(Threads),
         NEW approval \in Optional(Seqs), Begin(w, kind, on, approval)
  PROVE  Typed'
<1> DEFINE j == [step |-> FirstRead(kind), kind |-> kind, on |-> on, approval |-> approval,
                 snap |-> gov, live |-> {}, seen |-> {}, judged |-> {}, now |-> {}]
<1>1. {} \in Optional(Revisions)
  BY DEF Optional
<1>2. FirstRead(kind) \in {"live", "document", "reconcile"}
  BY DEF FirstRead
<1>3. gov \in Governance /\ Counted(gov) /\ gov.seq < MaxSeq
  BY DEF Typed, TypeOK, Begin
<1>4. j \in Job
  BY <1>1, <1>2, <1>3 DEF Job
<1>5. Counted(j.snap) /\ j.snap.seq < MaxSeq
  BY <1>3
<1>6. Hold(w, j) /\ chain' \subseteq Fact
  BY DEF Begin, Typed, TypeOK
<1> HIDE DEF j
<1> QED
  BY <1>4, <1>5, <1>6, HoldTyped

\* A read of the drawing, at whatever step it is made.
LEMMA ReadTyped ==
  ASSUME Typed, NEW w \in Requests, job[w] # Idle, NEW k, Hold(w, k), UNCHANGED chain,
         NEW step \in {"document", "readiness", "reconcile", "commit"},
         NEW approval \in Optional(Seqs),
         \/ k = [job[w] EXCEPT !.step = step, !.live = {revision}]
         \/ k = [job[w] EXCEPT !.step = step, !.seen = {revision}]
         \/ k = [job[w] EXCEPT !.step = step, !.seen = {revision}, !.approval = approval]
         \/ k = [job[w] EXCEPT !.step = step, !.judged = {revision}]
         \/ k = [job[w] EXCEPT !.step = step, !.now = {revision}]
  PROVE  Typed'
<1>1. {revision} \in Optional(Revisions)
  BY OptionalOf DEF Typed, TypeOK
<1>2. job[w] \in Job /\ Counted(job[w].snap) /\ job[w].snap.seq < MaxSeq
  BY JobTyped
<1>3. k \in Job /\ k.snap = job[w].snap
  BY <1>1, <1>2 DEF Job
<1>4. chain' \subseteq Fact
  BY DEF Typed, TypeOK
<1> QED
  BY <1>2, <1>3, <1>4, HoldTyped

\* The write: a row, facts and a package of the right shapes.
LEMMA CommitTyped ==
  ASSUME Typed, NEW w \in Requests, Commit(w)
  PROVE  Typed'
<1> DEFINE j == job[w]
<1>1. j \in Job /\ Counted(j.snap) /\ j.snap.seq < MaxSeq
  BY JobTyped, StepMeansJob DEF Commit
<1>2. gov' = Reconciled(j) /\ chain' = chain \cup Facts(j)
      /\ job' = [job EXCEPT ![w] = Idle] /\ UNCHANGED <<revision, fit>>
  BY DEF Commit
<1>3. package' = package \cup {[id |-> r.id, rev |-> r.rev] : r \in ReleasesAfter(j) \ j.snap.releases}
  BY DEF Commit
<1> HIDE DEF j
<1>4. gov' \in Governance /\ Counted(gov')
  BY <1>1, <1>2, RowTyped
<1>5. chain' \subseteq Fact
  BY <1>1, <1>2, FactsTyped DEF Typed, TypeOK
<1>6. package' \subseteq [id: Seqs, rev: Revisions]
  <2>1. \A r \in ReleasesAfter(j) : r.id \in Seqs /\ r.rev \in Revisions
    BY <1>1, ReleasesTyped DEF Release
  <2> QED
    BY <1>3, <2>1 DEF Typed, TypeOK
<1>7. job' \in [Requests -> Job \cup {Idle}]
  BY <1>2 DEF Typed, TypeOK
<1>8. \A v \in Requests : job'[v] # Idle => job'[v] = job[v]
  BY <1>2 DEF Typed, TypeOK
<1>9. TypeOK'
  BY <1>2, <1>4, <1>5, <1>6, <1>7 DEF Typed, TypeOK
<1> QED
  BY <1>4, <1>8, <1>9 DEF Typed, Counted

LEMMA RequestTyped ==
  ASSUME Typed, NEW w \in Requests, Request(w)
  PROVE  Typed'
<1>1. ASSUME NEW t \in Threads,
             CreateThread(w, t) \/ AddComment(w, t) \/ ResolveThread(w, t) \/ ReopenThread(w, t)
      PROVE  Typed'
  <2>1. {t} \in Optional(Threads) /\ {} \in Optional(Seqs)
    BY DEF Optional
  <2>2. \E kind \in {"thread", "comment", "resolve", "reopen"} : Begin(w, kind, {t}, {})
    BY <1>1 DEF CreateThread, AddComment, ResolveThread, ReopenThread
  <2> QED
    BY <2>1, <2>2, BeginTyped DEF Kinds
<1>2. CASE RequestApproval(w) \/ ReleaseDocument(w)
  <2>1. {} \in Optional(Threads) /\ {} \in Optional(Seqs)
    BY DEF Optional
  <2>2. \E kind \in {"request", "release"} : Begin(w, kind, {}, {})
    BY <1>2 DEF RequestApproval, ReleaseDocument
  <2> QED
    BY <2>1, <2>2, BeginTyped DEF Kinds
<1>3. ASSUME NEW a \in gov.approvals, NEW decision \in {"approve", "reject"},
             DecideApproval(w, a, decision)
      PROVE  Typed'
  <2>1. a.id \in Seqs
    BY DEF Typed, TypeOK, Governance, Approval
  <2>2. {} \in Optional(Threads) /\ {a.id} \in Optional(Seqs)
    BY <2>1 DEF Optional
  <2> QED
    BY <1>3, <2>2, BeginTyped DEF Kinds, DecideApproval
<1>4. CASE DenyOpenThreads(w)
  BY <1>4, DeniedTyped DEF DenyOpenThreads, Typed, TypeOK, Counted
<1>5. CASE ReadLive(w)
  <2>1. job[w] # Idle
    BY <1>5, StepMeansJob DEF ReadLive
  <2>2. CASE Refuse(w)
    BY <2>2, RefuseTyped
  <2>3. CASE Hold(w, [job[w] EXCEPT !.step = "document", !.live = {revision}]) /\ UNCHANGED chain
    <3>1. {} \in Optional(Seqs)
      BY DEF Optional
    <3> QED
      BY <2>1, <2>3, <3>1, ReadTyped
  <2> QED
    BY <1>5, <2>2, <2>3 DEF ReadLive
<1>6. CASE ReadDocument(w)
  <2>1. job[w] # Idle /\ {} \in Optional(Seqs)
    BY <1>6, StepMeansJob DEF ReadDocument, Optional
  <2> QED
    BY <1>6, <2>1, ReadTyped DEF ReadDocument
<1>7. CASE ReadForDecision(w)
  <2>1. job[w] # Idle /\ {} \in Optional(Seqs)
    BY <1>7, StepMeansJob DEF ReadForDecision, Optional
  <2> QED
    BY <1>7, <2>1, ReadTyped, RefuseTyped DEF ReadForDecision
<1>8. CASE AssessReadiness(w)
  <2>1. job[w] # Idle /\ {} \in Optional(Seqs)
    BY <1>8, StepMeansJob DEF AssessReadiness, Optional
  <2> QED
    BY <1>8, <2>1, ReadTyped, RefuseTyped DEF AssessReadiness
<1>9. CASE PinRelease(w)
  <2>1. job[w] # Idle
    BY <1>9, StepMeansJob DEF PinRelease
  <2>2. PICK a \in Bound(job[w].snap) :
          Hold(w, [job[w] EXCEPT !.step = "reconcile", !.seen = {revision}, !.approval = {a.id}])
    BY <1>9 DEF PinRelease
  <2>3. {a.id} \in Optional(Seqs)
    BY <2>1, JobTyped DEF Bound, Job, Governance, Approval, Optional
  <2> QED
    BY <1>9, <2>1, <2>2, <2>3, ReadTyped DEF PinRelease
<1>10. CASE DenyRelease(w)
  BY <1>10, DeniedTyped, HoldTyped DEF DenyRelease
<1>11. CASE RefuseSecondRelease(w) \/ CommitConflict(w)
  BY <1>11, RefuseTyped DEF RefuseSecondRelease, CommitConflict
<1>12. CASE ReadForReconcile(w)
  <2>1. job[w] # Idle /\ {} \in Optional(Seqs)
    BY <1>12, StepMeansJob DEF ReadForReconcile, Optional
  <2> QED
    BY <1>12, <2>1, ReadTyped DEF ReadForReconcile
<1>13. CASE Commit(w)
  BY <1>13, CommitTyped
<1> QED
  BY <1>1, <1>2, <1>3, <1>4, <1>5, <1>6, <1>7, <1>8, <1>9, <1>10, <1>11, <1>12, <1>13 DEF Request

LEMMA StepTyped == Typed /\ [Next]_vars => Typed'
<1> SUFFICES ASSUME Typed, [Next]_vars PROVE Typed'
  OBVIOUS
<1>1. ASSUME NEW ready \in BOOLEAN, EditDrawing(ready) PROVE Typed'
  <2>1. revision' \in Revisions /\ fit' \subseteq Revisions
    BY <1>1, BoundsAssumption DEF EditDrawing, Typed, TypeOK, Revisions
  <2> QED
    BY <1>1, <2>1 DEF EditDrawing, Typed, TypeOK, Counted
<1>2. CASE WaiverExpires
  BY <1>2 DEF WaiverExpires, Typed, TypeOK, Counted
<1>3. CASE UNCHANGED vars
  BY <1>3 DEF vars, Typed, TypeOK, Counted
<1> QED
  BY <1>1, <1>2, <1>3, RequestTyped DEF Next

\* Every table and every held request keeps its shape.
THEOREM Typing == Spec => []TypeOK
<1>1. Typed => TypeOK
  BY DEF Typed
<1> QED
  BY <1>1, InitTyped, StepTyped, PTL DEF Spec

-------------------------------------------------------------------------------
(* What a governance row never violates, whoever holds a copy of it.       *)

Identified(g) ==
  /\ \A a \in g.approvals : a.id <= g.seq
  /\ \A a, b \in g.approvals : a.id = b.id => a = b
  /\ \A r \in g.releases : r.id <= g.seq
  /\ \A r, q \in g.releases : r.id = q.id => r = q

Closed(g) ==
  \A a \in g.approvals : a.status = "approved" => a.digest = Digest(g) /\ AllClosed(g)

Judged(g) == \A a \in g.approvals : a.status = "approved" => a.readiness = {a.rev}

Sole(g) ==
  /\ \A a, b \in g.approvals : Live(a) /\ Live(b) => a = b
  /\ \A r, q \in g.releases : r.state = "released" /\ q.state = "released" => r = q

Row(g) == Identified(g) /\ Closed(g) /\ Judged(g) /\ Sole(g)

(* What a request knows when it writes.  Reads of the drawing never go     *)
(* back, for its revision does not.                                        *)

Behind(S, T) == \A x \in S, y \in T : x <= y

Revs(g) == {a.rev : a \in g.approvals}

Ordered(j) ==
  /\ Behind(Revs(j.snap), j.live)
  /\ Behind(j.live, j.seen)
  /\ Behind(j.seen, j.judged) /\ Behind(j.seen, j.now)
  /\ Behind(j.judged, j.now)

UpTo(j, rev) ==
  /\ Behind(Revs(j.snap), {rev})
  /\ Behind(j.live, {rev}) /\ Behind(j.seen, {rev})
  /\ Behind(j.judged, {rev}) /\ Behind(j.now, {rev})

\* Reads that are still to come have left nothing.
Pending(j) ==
  /\ j.step = "live" => j.kind = "request" /\ j.live = {}
  /\ j.step \in {"live", "document"} => j.seen = {}
  /\ j.step \in {"live", "document", "readiness"} => j.judged = {}
  /\ j.step = "readiness" => j.kind \in {"approve", "reject"}
  /\ j.step # "commit" => j.now = {}

(* The guards a request passed on its way, by kind.                        *)

Past(j) == j.step \in {"reconcile", "commit"}

CheckedResolve(j) ==
  j.kind = "resolve" => \E t \in Threads : t \in j.on /\ IsOpen(j.snap.threads[t])

CheckedRequest(j) ==
  j.kind = "request" =>
    /\ Past(j) => j.seen # {}
    /\ j.step # "live" => j.live # {}
    /\ \A a \in j.snap.approvals : ~(a.status = "approved" /\ a.rev \in j.live)

CheckedDecision(j) ==
  j.kind \in {"approve", "reject"} =>
    /\ \E a \in j.snap.approvals : j.approval = {a.id} /\ a.status = "requested"
    /\ Past(j) => j.judged # {}
    /\ Past(j) \/ j.step = "readiness" =>
         /\ \A a \in j.snap.approvals : a.id \in j.approval =>
              a.rev \in j.seen /\ a.digest = Digest(j.snap)
         /\ j.kind = "approve" => AllClosed(j.snap)

CheckedRelease(j) ==
  j.kind = "release" /\ Past(j) =>
    /\ AllClosed(j.snap)
    /\ ~\E r \in j.snap.releases :
         r.state = "released" /\ r.rev \in j.seen /\ r.digest = Digest(j.snap)
    /\ \E a \in j.snap.approvals :
         /\ j.approval = {a.id} /\ j.seen = {a.rev}
         /\ Holds(a, a.rev, Digest(j.snap))

Checked(j) ==
  /\ CheckedResolve(j) /\ CheckedRequest(j) /\ CheckedDecision(j) /\ CheckedRelease(j)
  /\ j.step = "commit" => j.now # {}

LEMMA Singles == \A S : \A o \in Optional(S) : o = {} \/ \E x \in S : o = {x}
  BY DEF Optional

\* Only threads and comments move the review.
LEMMA SurfaceKept ==
  ASSUME NEW j \in Job, j.kind \in {"request", "approve", "reject", "release"}
  PROVE  DigestAfter(j) = Digest(j.snap) /\ ThreadsAfter(j) = j.snap.threads
<1>1. j.snap.threads \in [Threads -> Thread]
  BY DEF Job, Governance
<1>2. \A t \in Threads : ThreadsAfter(j)[t] = j.snap.threads[t]
  BY DEF ThreadsAfter
<1>3. ThreadsAfter(j) = j.snap.threads
  BY <1>1, <1>2 DEF ThreadsAfter
<1>4. CommentsAfter(j) = j.snap.comments
  BY DEF CommentsAfter
<1> QED
  BY <1>3, <1>4 DEF DigestAfter, Digest

\* A live approval of the written row is one the mutation left, at the
\* revision the reconcile read.
LEMMA LiveSurvives ==
  ASSUME NEW j, NEW b \in ApprovalsReconciled(j), Live(b),
         ApprovalsAfter(j) \subseteq Approval
  PROVE  b \in ApprovalsAfter(j) /\ b.rev \in j.now /\ ~Invalidates(j.kind)
<1>1. PICK a \in ApprovalsAfter(j) : b = IF Stale(j, a) THEN [a EXCEPT !.status = "stale"] ELSE a
  BY DEF ApprovalsReconciled
<1>2. ~Stale(j, a)
  <2>1. SUFFICES ASSUME Stale(j, a) PROVE FALSE
    OBVIOUS
  <2>2. b.status = "stale"
    BY <1>1, <2>1 DEF Approval
  <2> QED
    BY <2>2 DEF Live
<1> QED
  BY <1>1, <1>2 DEF Stale

LEMMA ReleasedSurvives ==
  ASSUME NEW j, NEW q \in ReleasesReconciled(j), q.state = "released",
         ReleasesAfter(j) \subseteq Release
  PROVE  q \in ReleasesAfter(j) /\ q.rev \in j.now /\ q.digest = DigestAfter(j)
<1>1. PICK r \in ReleasesAfter(j) : q = IF Outdated(j, r) THEN [r EXCEPT !.state = "superseded"] ELSE r
  BY DEF ReleasesReconciled
<1>2. ~Outdated(j, r)
  <2>1. SUFFICES ASSUME Outdated(j, r) PROVE FALSE
    OBVIOUS
  <2>2. q.state = "superseded"
    BY <1>1, <2>1 DEF Release
  <2> QED
    BY <2>2
<1> QED
  BY <1>1, <1>2 DEF Outdated

\* Where a live approval of the mutated row comes from.
LEMMA LiveOrigin ==
  ASSUME NEW j \in Job, Identified(j.snap), CheckedDecision(j),
         NEW b \in ApprovalsAfter(j), Live(b)
  PROVE  \/ b \in j.snap.approvals
         \/ j.kind = "request" /\ b \in Requested(j)
         \/ /\ j.kind = "approve"
            /\ \E a \in j.snap.approvals :
                 /\ a.id \in j.approval /\ a.status = "requested"
                 /\ b = [a EXCEPT !.status = "approved", !.readiness = j.judged]
<1>1. j.snap.approvals \subseteq Approval
  BY DEF Job, Governance
<1>2. CASE j.kind = "request"
  <2>1. ASSUME NEW a \in j.snap.approvals, b = Superseding(j, a) PROVE b = a
    BY <1>1, <2>1 DEF Superseding, Live, Approval
  <2> QED
    BY <1>2, <2>1 DEF ApprovalsAfter
<1>3. CASE j.kind \in {"approve", "reject"}
  <2>1. PICK a \in j.snap.approvals : b = Decided(j, a)
    BY <1>3 DEF ApprovalsAfter
  <2>2. PICK c \in j.snap.approvals : j.approval = {c.id} /\ c.status = "requested"
    BY <1>3 DEF CheckedDecision
  <2>3. CASE a.id \notin j.approval
    BY <2>1, <2>3 DEF Decided
  <2>4. CASE a.id \in j.approval
    <3>1. a = c
      BY <2>2, <2>4 DEF Identified
    <3>2. j.kind = "approve"
      BY <1>1, <1>3, <2>1, <2>4 DEF Decided, Live, Approval
    <3> QED
      BY <2>1, <2>2, <2>4, <3>1, <3>2 DEF Decided
  <2> QED
    BY <2>3, <2>4
<1>4. CASE j.kind \notin {"request", "approve", "reject"}
  BY <1>4 DEF ApprovalsAfter
<1> QED
  BY <1>2, <1>3, <1>4

-------------------------------------------------------------------------------
(* The row that is written keeps to all of that.                           *)

LEMMA ClosedKept ==
  ASSUME NEW j \in Job, j.snap.seq < MaxSeq, Row(j.snap), Checked(j), j.step = "commit"
  PROVE  Closed(Reconciled(j))
<1> SUFFICES ASSUME NEW b \in ApprovalsReconciled(j), b.status = "approved"
             PROVE  /\ b.digest = DigestAfter(j)
                    /\ \A t \in Threads : ~IsOpen(ThreadsAfter(j)[t])
  BY DEF Closed, Reconciled, Digest, DigestAfter, AllClosed
<1>1. b \in ApprovalsAfter(j) /\ Live(b) /\ ~Invalidates(j.kind)
  BY LiveSurvives, ApprovalsTyped DEF Live
<1>2. j.snap.approvals \subseteq Approval
  BY DEF Job, Governance
<1>3. ASSUME b \in j.snap.approvals
      PROVE  b.digest = Digest(j.snap) /\ AllClosed(j.snap)
  BY <1>3 DEF Row, Closed
<1>4. CASE j.kind = "resolve"
  <2>1. b \in j.snap.approvals
    BY <1>1, <1>4 DEF ApprovalsAfter
  <2> QED
    BY <1>3, <1>4, <2>1 DEF Checked, CheckedResolve, AllClosed
<1>5. CASE j.kind \in {"request", "approve", "reject", "release"}
  <2>1. DigestAfter(j) = Digest(j.snap) /\ ThreadsAfter(j) = j.snap.threads
    BY <1>5, SurfaceKept
  <2>2. b.digest = Digest(j.snap) /\ AllClosed(j.snap)
    <3>1. CASE j.kind = "request" /\ b \in Requested(j)
      BY <3>1 DEF Requested
    <3>2. CASE /\ j.kind = "approve"
               /\ \E a \in j.snap.approvals :
                    /\ a.id \in j.approval /\ a.status = "requested"
                    /\ b = [a EXCEPT !.status = "approved", !.readiness = j.judged]
      <4>1. PICK a \in j.snap.approvals :
              a.id \in j.approval /\ b = [a EXCEPT !.status = "approved", !.readiness = j.judged]
        BY <3>2
      <4>2. a.digest = Digest(j.snap) /\ AllClosed(j.snap)
        BY <3>2, <4>1 DEF Checked, CheckedDecision, Past
      <4>3. b.digest = a.digest
        BY <1>2, <4>1 DEF Approval
      <4> QED
        BY <4>2, <4>3
    <3> QED
      BY <1>1, <1>3, <3>1, <3>2, LiveOrigin DEF Row, Checked
  <2> QED
    BY <2>1, <2>2 DEF AllClosed
<1> QED
  BY <1>1, <1>4, <1>5 DEF Invalidates, Job, Kinds

LEMMA JudgedKept ==
  ASSUME NEW j \in Job, j.snap.seq < MaxSeq, Row(j.snap), Checked(j), Ordered(j),
         j.step = "commit"
  PROVE  Judged(Reconciled(j))
<1> SUFFICES ASSUME NEW b \in ApprovalsReconciled(j), b.status = "approved"
             PROVE  b.readiness = {b.rev}
  BY DEF Judged, Reconciled
<1>1. b \in ApprovalsAfter(j) /\ Live(b) /\ b.rev \in j.now
  BY LiveSurvives, ApprovalsTyped DEF Live
<1>2. j.snap.approvals \subseteq Approval
  BY DEF Job, Governance
<1>3. CASE b \in j.snap.approvals
  BY <1>3 DEF Row, Judged
<1>4. CASE j.kind = "request" /\ b \in Requested(j)
  BY <1>4 DEF Requested
<1>5. CASE /\ j.kind = "approve"
           /\ \E a \in j.snap.approvals :
                /\ a.id \in j.approval /\ a.status = "requested"
                /\ b = [a EXCEPT !.status = "approved", !.readiness = j.judged]
  <2>1. PICK a \in j.snap.approvals :
          a.id \in j.approval /\ b = [a EXCEPT !.status = "approved", !.readiness = j.judged]
    BY <1>5
  <2>2. b.rev = a.rev /\ b.readiness = j.judged
    BY <1>2, <2>1 DEF Approval
  <2>3. a.rev \in j.seen /\ j.judged # {}
    BY <1>5, <2>1 DEF Checked, CheckedDecision, Past
  <2>4. PICK y \in Revisions : j.judged = {y}
    BY <2>3, Singles DEF Job
  <2>5. a.rev <= y /\ y <= a.rev
    BY <1>1, <2>2, <2>3, <2>4 DEF Ordered, Behind
  <2>6. a.rev \in Nat /\ y \in Nat
    BY <1>2, BoundsAssumption DEF Approval, Revisions
  <2> QED
    BY <2>2, <2>4, <2>5, <2>6
<1> QED
  BY <1>1, <1>3, <1>4, <1>5, LiveOrigin DEF Row, Checked

LEMMA SoleApprovalKept ==
  ASSUME NEW j \in Job, j.snap.seq < MaxSeq, Row(j.snap), Checked(j), Ordered(j),
         j.step = "commit",
         NEW a \in ApprovalsReconciled(j), NEW b \in ApprovalsReconciled(j), Live(a), Live(b)
  PROVE  a = b
<1>1. /\ a \in ApprovalsAfter(j) /\ a.rev \in j.now
      /\ b \in ApprovalsAfter(j) /\ b.rev \in j.now
  BY LiveSurvives, ApprovalsTyped
<1>2. a.rev = b.rev /\ a.rev \in Nat
  <2>1. PICK n \in Revisions : j.now = {n}
    BY <1>1, Singles DEF Job
  <2> QED
    BY <1>1, <2>1, BoundsAssumption DEF Revisions
<1>3. j.snap.approvals \subseteq Approval
  BY DEF Job, Governance
<1>4. CASE j.kind = "request"
  <2>1. PICK l \in Revisions, x \in Revisions : j.live = {l} /\ j.seen = {x}
    BY <1>4, Singles DEF Checked, CheckedRequest, Past, Job
  <2>2. ASSUME NEW c \in j.snap.approvals, NEW d \in Requested(j), c \in ApprovalsAfter(j),
               Live(c), c.rev = d.rev
        PROVE  FALSE
    <3>1. d.rev = x
      BY <2>1 DEF Requested
    <3>2. c.rev <= l /\ l <= x
      BY <2>1 DEF Ordered, Behind, Revs
    <3>3. c.rev = l
      BY <1>3, <2>1, <2>2, <3>1, <3>2, BoundsAssumption DEF Approval, Revisions
    <3>4. c.status = "requested"
      BY <1>4, <2>1, <2>2, <3>3 DEF Live, Checked, CheckedRequest
    <3>5. CASE c \in Requested(j)
      <4>1. c.id = NewId(j)
        BY <3>5 DEF Requested
      <4>2. c.id <= j.snap.seq /\ j.snap.seq \in Nat
        BY DEF Row, Identified, Job, Governance, Seqs
      <4> QED
        BY <4>1, <4>2 DEF NewId
    <3>6. ASSUME NEW e \in j.snap.approvals, c = Superseding(j, e) PROVE FALSE
      <4>1. c.id = e.id
        BY <1>3, <3>6 DEF Superseding, Approval
      <4>2. c = e
        BY <4>1 DEF Row, Identified
      <4>3. Superseding(j, c).status = "superseded"
        BY <1>3, <2>1, <3>3, <3>4 DEF Superseding, Approval
      <4> QED
        BY <3>4, <3>6, <4>2, <4>3
    <3> QED
      BY <1>4, <2>2, <3>5, <3>6 DEF ApprovalsAfter
  <2>3. \A c, d \in Requested(j) : c = d
    BY <2>1 DEF Requested
  <2>4. (a \in j.snap.approvals \/ a \in Requested(j)) /\ (b \in j.snap.approvals \/ b \in Requested(j))
    BY <1>1, <1>4, LiveOrigin DEF Row, Checked
  <2> QED
    BY <1>1, <1>2, <2>2, <2>3, <2>4 DEF Row, Sole
<1>5. CASE j.kind # "request"
  <2>1. ASSUME NEW c \in ApprovalsAfter(j), Live(c)
        PROVE  \E e \in j.snap.approvals :
                 /\ Live(e) /\ e.id = c.id
                 /\ c = e \/ /\ j.kind = "approve" /\ e.id \in j.approval
                             /\ c = [e EXCEPT !.status = "approved", !.readiness = j.judged]
    <3>1. CASE c \in j.snap.approvals
      BY <2>1, <3>1
    <3>2. CASE /\ j.kind = "approve"
               /\ \E e \in j.snap.approvals :
                    /\ e.id \in j.approval /\ e.status = "requested"
                    /\ c = [e EXCEPT !.status = "approved", !.readiness = j.judged]
      BY <1>3, <3>2 DEF Live, Approval
    <3> QED
      BY <1>5, <2>1, <3>1, <3>2, LiveOrigin DEF Row, Checked
  <2>2. PICK e \in j.snap.approvals :
          /\ Live(e)
          /\ a = e \/ /\ j.kind = "approve" /\ e.id \in j.approval
                      /\ a = [e EXCEPT !.status = "approved", !.readiness = j.judged]
    BY <1>1, <2>1
  <2>3. PICK f \in j.snap.approvals :
          /\ Live(f)
          /\ b = f \/ /\ j.kind = "approve" /\ f.id \in j.approval
                      /\ b = [f EXCEPT !.status = "approved", !.readiness = j.judged]
    BY <1>1, <2>1
  <2>4. e = f
    BY <2>2, <2>3 DEF Row, Sole
  <2>5. CASE j.kind # "approve"
    BY <2>2, <2>3, <2>4, <2>5
  <2>6. CASE j.kind = "approve"
    <3>1. ASSUME NEW c \in ApprovalsAfter(j), Live(c), c.id = e.id
          PROVE  c = Decided(j, e)
      <4>1. PICK h \in j.snap.approvals : c = Decided(j, h)
        BY <2>6, <3>1 DEF ApprovalsAfter
      <4>2. c.id = h.id
        BY <1>3, <4>1 DEF Decided, Approval
      <4>3. h = e
        BY <3>1, <4>2 DEF Row, Identified
      <4> QED
        BY <4>1, <4>3
    <3>2. a.id = e.id /\ b.id = e.id
      BY <1>3, <2>2, <2>3, <2>4 DEF Approval
    <3> QED
      BY <1>1, <3>1, <3>2
  <2> QED
    BY <2>5, <2>6
<1> QED
  BY <1>4, <1>5

\* Phase B's recheck makes the revision of the reconcile the pinned one.
LEMMA ReleasePinned ==
  ASSUME Typed, NEW j \in Job, Checked(j), Ordered(j), UpTo(j, revision), Recheck(j),
         j.step = "commit", j.kind = "release"
  PROVE  j.now = {revision} /\ j.seen = {revision}
<1>1. j.seen = {revision}
  BY DEF Recheck
<1>2. PICK n \in Revisions : j.now = {n}
  BY Singles DEF Checked, Job
<1>3. revision <= n /\ n <= revision
  BY <1>1, <1>2 DEF Ordered, UpTo, Behind
<1>4. n \in Nat /\ revision \in Nat
  BY BoundsAssumption DEF Revisions, Typed, TypeOK
<1> QED
  BY <1>1, <1>2, <1>3, <1>4

LEMMA SoleReleaseKept ==
  ASSUME Typed, NEW j \in Job, j.snap.seq < MaxSeq, Row(j.snap), Checked(j), Ordered(j),
         UpTo(j, revision), Recheck(j), j.step = "commit",
         NEW r \in ReleasesReconciled(j), NEW q \in ReleasesReconciled(j),
         r.state = "released", q.state = "released"
  PROVE  r = q
<1>1. /\ r \in ReleasesAfter(j) /\ r.rev \in j.now /\ r.digest = DigestAfter(j)
      /\ q \in ReleasesAfter(j) /\ q.rev \in j.now /\ q.digest = DigestAfter(j)
  BY ReleasedSurvives, ReleasesTyped
<1>2. CASE j.kind # "release"
  BY <1>1, <1>2 DEF ReleasesAfter, Row, Sole
<1>3. CASE j.kind = "release"
  <2>1. j.now = {revision} /\ j.seen = {revision}
    BY <1>3, ReleasePinned
  <2>2. DigestAfter(j) = Digest(j.snap)
    BY <1>3, SurfaceKept
  <2>3. r \notin j.snap.releases /\ q \notin j.snap.releases
    BY <1>1, <1>3, <2>1, <2>2 DEF Checked, CheckedRelease, Past
  <2>4. r \in Released(j) /\ q \in Released(j)
    BY <1>1, <1>3, <2>3 DEF ReleasesAfter
  <2>5. PICK a \in j.snap.approvals : j.approval = {a.id}
    BY <1>3 DEF Checked, CheckedRelease, Past
  <2> QED
    BY <2>1, <2>4, <2>5 DEF Released
<1> QED
  BY <1>2, <1>3

\* Where any approval and any release of the written row comes from.
LEMMA ApprovalOrigin ==
  ASSUME NEW j \in Job, j.snap.seq < MaxSeq, NEW b \in ApprovalsReconciled(j)
  PROVE  \/ \E a \in j.snap.approvals :
              LET c == CASE j.kind = "request" -> Superseding(j, a)
                         [] j.kind \in {"approve", "reject"} -> Decided(j, a)
                         [] OTHER -> a IN
              b.id = a.id /\ b = IF Stale(j, c) THEN [c EXCEPT !.status = "stale"] ELSE c
         \/ /\ j.kind = "request" /\ b.id = NewId(j)
            /\ \E c \in Requested(j) : b = IF Stale(j, c) THEN [c EXCEPT !.status = "stale"] ELSE c
<1>1. PICK c \in ApprovalsAfter(j) : b = IF Stale(j, c) THEN [c EXCEPT !.status = "stale"] ELSE c
  BY DEF ApprovalsReconciled
<1>2. c \in Approval /\ b.id = c.id
  BY <1>1, ApprovalsTyped DEF Approval
<1>3. j.snap.approvals \subseteq Approval
  BY DEF Job, Governance
<1>4. CASE j.kind = "request"
  <2>1. c \in Requested(j) => c.id = NewId(j)
    BY DEF Requested
  <2>2. \A a \in j.snap.approvals : Superseding(j, a).id = a.id
    BY <1>3 DEF Superseding, Approval
  <2>3. CASE c \in Requested(j)
    BY <1>1, <1>2, <1>4, <2>1, <2>3
  <2>4. CASE \E a \in j.snap.approvals : c = Superseding(j, a)
    BY <1>1, <1>2, <1>4, <2>2, <2>4
  <2> QED
    BY <1>4, <2>3, <2>4 DEF ApprovalsAfter
<1>5. CASE j.kind \in {"approve", "reject"}
  <2>1. PICK a \in j.snap.approvals : c = Decided(j, a)
    BY <1>5 DEF ApprovalsAfter
  <2>2. c.id = a.id
    BY <1>3, <2>1 DEF Decided, Approval
  <2> QED
    BY <1>1, <1>2, <1>5, <2>1, <2>2
<1>6. CASE j.kind \notin {"request", "approve", "reject"}
  BY <1>1, <1>2, <1>6 DEF ApprovalsAfter
<1> QED
  BY <1>4, <1>5, <1>6

LEMMA ReleaseOrigin ==
  ASSUME NEW j \in Job, j.snap.seq < MaxSeq, NEW q \in ReleasesReconciled(j)
  PROVE  \E r \in ReleasesAfter(j) :
           /\ q.id = r.id /\ q = IF Outdated(j, r) THEN [r EXCEPT !.state = "superseded"] ELSE r
           /\ r \in j.snap.releases \/ (j.kind = "release" /\ r \in Released(j) /\ r.id = NewId(j))
<1>1. PICK r \in ReleasesAfter(j) : q = IF Outdated(j, r) THEN [r EXCEPT !.state = "superseded"] ELSE r
  BY DEF ReleasesReconciled
<1>2. q.id = r.id
  BY <1>1, ReleasesTyped DEF Release
<1>3. r \in j.snap.releases \/ (j.kind = "release" /\ r \in Released(j) /\ r.id = NewId(j))
  BY DEF ReleasesAfter, Released
<1> QED
  BY <1>1, <1>2, <1>3

LEMMA IdentifiedKept ==
  ASSUME NEW j \in Job, j.snap.seq < MaxSeq, Identified(j.snap), CheckedRelease(j),
         j.step = "commit"
  PROVE  Identified(Reconciled(j))
<1>1. /\ j.snap.seq \in Nat /\ NewId(j) = j.snap.seq + 1
      /\ \A a \in j.snap.approvals : a.id \in Nat /\ a.id <= j.snap.seq
      /\ \A r \in j.snap.releases : r.id \in Nat /\ r.id <= j.snap.seq
  BY DEF Job, Governance, Approval, Release, Seqs, NewId, Identified
<1>2. \A b \in ApprovalsReconciled(j) : b.id <= NewId(j)
  BY <1>1, ApprovalOrigin
<1>3. \A q \in ReleasesReconciled(j) : q.id <= NewId(j)
  BY <1>1, ReleaseOrigin
<1>4. ASSUME NEW b \in ApprovalsReconciled(j), NEW d \in ApprovalsReconciled(j), b.id = d.id
      PROVE  b = d
  <2>1. CASE b.id = NewId(j)
    <3>1. \A a \in j.snap.approvals : a.id # b.id
      BY <1>1, <2>1
    <3>2. PICK c \in Requested(j) : b = IF Stale(j, c) THEN [c EXCEPT !.status = "stale"] ELSE c
      BY <3>1, ApprovalOrigin
    <3>3. PICK e \in Requested(j) : d = IF Stale(j, e) THEN [e EXCEPT !.status = "stale"] ELSE e
      BY <1>4, <3>1, ApprovalOrigin
    <3>4. c = e
      <4>1. j.seen = {} \/ \E x \in Revisions : j.seen = {x}
        BY Singles DEF Job
      <4> QED
        BY <4>1 DEF Requested
    <3> QED
      BY <3>2, <3>3, <3>4
  <2>2. CASE b.id # NewId(j)
    <3> DEFINE C(a) == CASE j.kind = "request" -> Superseding(j, a)
                         [] j.kind \in {"approve", "reject"} -> Decided(j, a)
                         [] OTHER -> a
               M(c) == IF Stale(j, c) THEN [c EXCEPT !.status = "stale"] ELSE c
    <3>1. PICK a \in j.snap.approvals : b.id = a.id /\ b = M(C(a))
      BY <2>2, ApprovalOrigin
    <3>2. PICK f \in j.snap.approvals : d.id = f.id /\ d = M(C(f))
      BY <1>4, <2>2, ApprovalOrigin
    <3> HIDE DEF C, M
    <3>3. a = f
      BY <1>4, <3>1, <3>2 DEF Identified
    <3> QED
      BY <3>1, <3>2, <3>3
  <2> QED
    BY <2>1, <2>2
<1>5. ASSUME NEW q \in ReleasesReconciled(j), NEW p \in ReleasesReconciled(j), q.id = p.id
      PROVE  q = p
  <2> DEFINE M(r) == IF Outdated(j, r) THEN [r EXCEPT !.state = "superseded"] ELSE r
  <2>1. PICK r \in ReleasesAfter(j) :
          /\ q.id = r.id /\ q = M(r)
          /\ r \in j.snap.releases \/ (j.kind = "release" /\ r \in Released(j) /\ r.id = NewId(j))
    BY ReleaseOrigin
  <2>2. PICK s \in ReleasesAfter(j) :
          /\ p.id = s.id /\ p = M(s)
          /\ s \in j.snap.releases \/ (j.kind = "release" /\ s \in Released(j) /\ s.id = NewId(j))
    BY ReleaseOrigin
  <2> HIDE DEF M
  <2>3. CASE r.id = NewId(j)
    <3>1. /\ j.kind = "release" /\ r \in Released(j) /\ s \in Released(j)
      <4>1. r \notin j.snap.releases /\ s \notin j.snap.releases
        <5>1. \A x \in j.snap.releases : x.id # NewId(j)
          BY <1>1
        <5> QED
          BY <1>5, <2>1, <2>2, <2>3, <5>1
      <4> QED
        BY <2>1, <2>2, <4>1
    <3>2. PICK a \in j.snap.approvals : j.approval = {a.id} /\ j.seen = {a.rev}
      BY <3>1 DEF CheckedRelease, Past
    <3>3. r = s
      BY <3>1, <3>2 DEF Released
    <3> QED
      BY <2>1, <2>2, <3>3
  <2>4. CASE r.id # NewId(j)
    BY <1>5, <2>1, <2>2, <2>4 DEF Identified
  <2> QED
    BY <2>3, <2>4
<1> QED
  BY <1>2, <1>3, <1>4, <1>5 DEF Identified, Reconciled

LEMMA RowKept ==
  ASSUME Typed, NEW j \in Job, j.snap.seq < MaxSeq, Row(j.snap), Checked(j), Ordered(j),
         UpTo(j, revision), Recheck(j), j.step = "commit"
  PROVE  Row(Reconciled(j))
<1>1. Identified(Reconciled(j))
  BY IdentifiedKept DEF Row, Checked
<1>2. Sole(Reconciled(j))
  BY SoleApprovalKept, SoleReleaseKept DEF Sole, Reconciled
<1> QED
  BY <1>1, <1>2, ClosedKept, JudgedKept DEF Row

-------------------------------------------------------------------------------
(* The inductive invariant: the row keeps to Row, and so does every copy a *)
(* request holds; a copy that is not outdated is the row itself.           *)

Fresh(j) == j.snap.seq <= gov.seq /\ (j.snap.seq = gov.seq => j.snap = gov)

Known(j) ==
  /\ Fresh(j) /\ Row(j.snap)
  /\ Ordered(j) /\ UpTo(j, revision)
  /\ Pending(j) /\ Checked(j)

Settled ==
  /\ Row(gov)
  /\ Behind(Revs(gov), {revision})
  /\ \A w \in Requests : job[w] # Idle => Known(job[w])

LEMMA InitSettled == Init => Settled
<1> SUFFICES ASSUME Init PROVE Settled
  OBVIOUS
<1>1. gov.approvals = {} /\ gov.releases = {}
  BY DEF Init
<1>2. Row(gov) /\ Behind(Revs(gov), {revision})
  BY <1>1 DEF Row, Identified, Closed, Judged, Sole, Behind, Revs
<1>3. \A w \in Requests : job[w] = Idle
  BY DEF Init
<1> QED
  BY <1>2, <1>3 DEF Settled

LEMMA HoldSettled ==
  ASSUME Typed, Settled, NEW w \in Requests, NEW j, Hold(w, j), j = Idle \/ Known(j)
  PROVE  Settled'
<1>1. job' = [job EXCEPT ![w] = j] /\ gov' = gov /\ revision' = revision
  BY DEF Hold
<1>2. \A v \in Requests : job'[v] = job[v] \/ job'[v] = j
  BY <1>1 DEF Typed, TypeOK
<1>3. ASSUME NEW v \in Requests, job'[v] # Idle PROVE Known(job'[v])
  BY <1>2, <1>3 DEF Settled
<1>4. \A v \in Requests : job'[v] # Idle => Known(job[v])'
  BY <1>1, <1>3 DEF Known, Fresh
<1> QED
  BY <1>1, <1>4 DEF Settled

LEMMA RefuseSettled ==
  ASSUME Typed, Settled, NEW w \in Requests, Refuse(w)
  PROVE  Settled'
  BY HoldSettled DEF Refuse

\* Numbers: every revision a job or a row holds is one.
LEMMA Numbers ==
  ASSUME Typed
  PROVE  /\ revision \in Nat /\ gov.seq \in Nat
         /\ Revs(gov) \subseteq Nat
         /\ \A w \in Requests : job[w] # Idle =>
              LET j == job[w] IN
              /\ Revs(j.snap) \subseteq Nat /\ j.snap.seq \in Nat
              /\ j.live \subseteq Nat /\ j.seen \subseteq Nat
              /\ j.judged \subseteq Nat /\ j.now \subseteq Nat
<1>1. Revisions \subseteq Nat /\ Seqs \subseteq Nat
  BY BoundsAssumption DEF Revisions, Seqs
<1>2. \A g \in Governance : Revs(g) \subseteq Nat /\ g.seq \in Nat
  BY <1>1 DEF Governance, Approval, Revs
<1>3. ASSUME NEW j \in Job
      PROVE  /\ j.snap \in Governance
             /\ j.live \subseteq Nat /\ j.seen \subseteq Nat
             /\ j.judged \subseteq Nat /\ j.now \subseteq Nat
  BY <1>1, OptionalIn DEF Job
<1> QED
  BY <1>1, <1>2, <1>3, JobTyped DEF Typed, TypeOK

LEMMA BeginSettled ==
  ASSUME Typed, Settled, NEW w \in Requests, NEW kind \in Kinds, NEW on \in Optional(Threads),
         NEW approval \in Optional(Seqs), Begin(w, kind, on, approval),
         kind = "resolve" => \E t \in Threads : t \in on /\ IsOpen(gov.threads[t]),
         kind \in {"approve", "reject"} =>
           \E a \in gov.approvals : approval = {a.id} /\ a.status = "requested"
  PROVE  Settled'
<1> DEFINE j == [step |-> FirstRead(kind), kind |-> kind, on |-> on, approval |-> approval,
                 snap |-> gov, live |-> {}, seen |-> {}, judged |-> {}, now |-> {}]
<1>1. FirstRead(kind) # "commit" /\ FirstRead(kind) # "readiness"
      /\ (kind \notin {"comment", "reopen"} => FirstRead(kind) # "reconcile")
      /\ (kind = "request" <=> FirstRead(kind) = "live")
  BY DEF FirstRead
<1>2. Fresh(j) /\ Row(j.snap)
  BY Numbers DEF Fresh, Settled
<1>3. Ordered(j) /\ UpTo(j, revision)
  BY DEF Ordered, UpTo, Behind, Settled
<1>4. CheckedResolve(j) /\ CheckedRequest(j) /\ CheckedDecision(j) /\ CheckedRelease(j)
  BY <1>1 DEF CheckedResolve, CheckedRequest, CheckedDecision, CheckedRelease, Past
<1>5. Known(j)
  BY <1>1, <1>2, <1>3, <1>4 DEF Known, Checked, Pending
<1>6. Hold(w, j)
  BY DEF Begin
<1> HIDE DEF j
<1> QED
  BY <1>5, <1>6, HoldSettled

(* The reads of the drawing.  Each adds its revision behind all those      *)
(* before it, and what its guard looked at to what is checked.             *)

\* What a request knows while it waits for its next read.
LEMMA JobKnown ==
  ASSUME Typed, Settled, NEW w \in Requests, job[w].step # "idle"
  PROVE  job[w] \in Job /\ Known(job[w])
  BY JobTyped, StepMeansJob DEF Settled

LEMMA ReadSettled ==
  ASSUME Typed, Settled, NEW w \in Requests, job[w].step # "idle", NEW k, Hold(w, k),
         k.snap = job[w].snap, Ordered(k), UpTo(k, revision), Pending(k), Checked(k)
  PROVE  Settled'
<1>1. Known(k)
  BY JobKnown DEF Known, Fresh
<1> QED
  BY <1>1, HoldSettled

LEMMA ReadLiveSettled ==
  ASSUME Typed, Settled, NEW w \in Requests, ReadLive(w)
  PROVE  Settled'
<1> DEFINE j == job[w]
           k == [j EXCEPT !.step = "document", !.live = {revision}]
<1>1. j \in Job /\ Known(j) /\ j.step = "live"
  BY JobKnown DEF ReadLive
<1>2. CASE Refuse(w)
  BY <1>2, RefuseSettled
<1>3. CASE /\ ~\E a \in j.snap.approvals : a.status = "approved" /\ a.rev = revision
           /\ Hold(w, k)
  <2>1. /\ k.step = "document" /\ k.kind = "request" /\ k.live = {revision} /\ k.snap = j.snap
        /\ k.seen = {} /\ k.judged = {} /\ k.now = {} /\ k.on = j.on /\ k.approval = j.approval
    BY <1>1 DEF Job, Known, Pending
  <2>2. Ordered(k) /\ UpTo(k, revision)
    BY <1>1, <2>1, Numbers DEF Known, Ordered, UpTo, Behind
  <2>3. Pending(k) /\ Checked(k)
    BY <1>3, <2>1 DEF Pending, Checked, CheckedResolve, CheckedRequest, CheckedDecision,
                      CheckedRelease, Past
  <2> HIDE DEF k
  <2> QED
    BY <1>1, <1>3, <2>1, <2>2, <2>3, ReadSettled
<1> QED
  BY <1>2, <1>3 DEF ReadLive

LEMMA ReadDocumentSettled ==
  ASSUME Typed, Settled, NEW w \in Requests, ReadDocument(w)
  PROVE  Settled'
<1> DEFINE j == job[w]
           k == [j EXCEPT !.step = "reconcile", !.seen = {revision}]
<1>1. j \in Job /\ Known(j) /\ j.step = "document" /\ j.kind \in {"thread", "resolve", "request"}
  BY JobKnown DEF ReadDocument
<1>2. /\ k.step = "reconcile" /\ k.kind = j.kind /\ k.live = j.live /\ k.snap = j.snap
      /\ k.seen = {revision} /\ k.judged = {} /\ k.now = {} /\ k.on = j.on
  BY <1>1 DEF Job, Known, Pending
<1>3. Ordered(k) /\ UpTo(k, revision)
  BY <1>1, <1>2, Numbers DEF Known, Ordered, UpTo, Behind
<1>4. Pending(k) /\ Checked(k)
  BY <1>1, <1>2 DEF Known, Pending, Checked, CheckedResolve, CheckedRequest, CheckedDecision,
                    CheckedRelease, Past
<1>5. Hold(w, k)
  BY DEF ReadDocument
<1> HIDE DEF k
<1> QED
  BY <1>1, <1>2, <1>3, <1>4, <1>5, ReadSettled

LEMMA ReadForDecisionSettled ==
  ASSUME Typed, Settled, NEW w \in Requests, ReadForDecision(w)
  PROVE  Settled'
<1> DEFINE j == job[w]
           k == [j EXCEPT !.step = "readiness", !.seen = {revision}]
<1>1. j \in Job /\ Known(j) /\ j.step = "document" /\ j.kind \in {"approve", "reject"}
  BY JobKnown DEF ReadForDecision
<1>2. CASE Refuse(w)
  BY <1>2, RefuseSettled
<1>3. CASE Decidable(j) /\ Hold(w, k)
  <2>1. /\ k.step = "readiness" /\ k.kind = j.kind /\ k.live = j.live /\ k.snap = j.snap
        /\ k.seen = {revision} /\ k.judged = {} /\ k.now = {} /\ k.approval = j.approval
    BY <1>1 DEF Job, Known, Pending
  <2>2. Ordered(k) /\ UpTo(k, revision)
    BY <1>1, <2>1, Numbers DEF Known, Ordered, UpTo, Behind
  <2>3. Pending(k)
    BY <1>1, <2>1 DEF Pending
  <2>4. Checked(k)
    BY <1>1, <1>3, <2>1 DEF Known, Decidable, Checked, CheckedResolve, CheckedRequest,
                            CheckedDecision, CheckedRelease, Past
  <2> HIDE DEF k
  <2> QED
    BY <1>1, <1>3, <2>1, <2>2, <2>3, <2>4, ReadSettled
<1> QED
  BY <1>2, <1>3 DEF ReadForDecision

LEMMA AssessReadinessSettled ==
  ASSUME Typed, Settled, NEW w \in Requests, AssessReadiness(w)
  PROVE  Settled'
<1> DEFINE j == job[w]
           k == [j EXCEPT !.step = "reconcile", !.judged = {revision}]
<1>1. j \in Job /\ Known(j) /\ j.step = "readiness"
  BY JobKnown DEF AssessReadiness
<1>2. CASE Refuse(w)
  BY <1>2, RefuseSettled
<1>3. CASE Hold(w, k)
  <2>1. /\ k.step = "reconcile" /\ k.kind = j.kind /\ k.live = j.live /\ k.snap = j.snap
        /\ k.seen = j.seen /\ k.judged = {revision} /\ k.now = {} /\ k.approval = j.approval
        /\ k.kind \in {"approve", "reject"}
    BY <1>1 DEF Job, Known, Pending
  <2>2. Ordered(k) /\ UpTo(k, revision)
    BY <1>1, <2>1, Numbers DEF Known, Ordered, UpTo, Behind
  <2>3. Pending(k)
    BY <1>1, <2>1 DEF Pending
  <2>4. Checked(k)
    BY <1>1, <2>1 DEF Known, Checked, CheckedResolve, CheckedRequest, CheckedDecision,
                      CheckedRelease, Past
  <2> HIDE DEF k
  <2> QED
    BY <1>1, <1>3, <2>1, <2>2, <2>3, <2>4, ReadSettled
<1> QED
  BY <1>2, <1>3 DEF AssessReadiness

LEMMA PinReleaseSettled ==
  ASSUME Typed, Settled, NEW w \in Requests, PinRelease(w)
  PROVE  Settled'
<1> DEFINE j == job[w]
<1>1. j \in Job /\ Known(j) /\ j.step = "document" /\ j.kind = "release" /\ ~Taken(j.snap)
  BY JobKnown DEF PinRelease
<1>2. PICK a \in Bound(j.snap) :
        Hold(w, [j EXCEPT !.step = "reconcile", !.seen = {revision}, !.approval = {a.id}])
  BY DEF PinRelease
<1> DEFINE k == [j EXCEPT !.step = "reconcile", !.seen = {revision}, !.approval = {a.id}]
<1>3. /\ k.step = "reconcile" /\ k.kind = "release" /\ k.live = j.live /\ k.snap = j.snap
      /\ k.seen = {revision} /\ k.judged = {} /\ k.now = {} /\ k.approval = {a.id}
  BY <1>1 DEF Job, Known, Pending
<1>4. Ordered(k) /\ UpTo(k, revision)
  BY <1>1, <1>3, Numbers DEF Known, Ordered, UpTo, Behind
<1>5. Pending(k)
  BY <1>1, <1>3 DEF Pending
<1>6. a \in j.snap.approvals /\ a.rev = revision /\ Holds(a, a.rev, Digest(j.snap))
  BY DEF Bound, Holds
<1>7. AllClosed(j.snap)
  BY <1>1, <1>6 DEF Known, Row, Closed, Holds
<1>8. Checked(k)
  BY <1>1, <1>3, <1>6, <1>7 DEF Taken, Checked, CheckedResolve, CheckedRequest,
                                CheckedDecision, CheckedRelease, Past
<1>9. Hold(w, k)
  BY <1>2
<1> HIDE DEF k
<1> QED
  BY <1>1, <1>3, <1>4, <1>5, <1>8, <1>9, ReadSettled

LEMMA ReadForReconcileSettled ==
  ASSUME Typed, Settled, NEW w \in Requests, ReadForReconcile(w)
  PROVE  Settled'
<1> DEFINE j == job[w]
           k == [j EXCEPT !.step = "commit", !.now = {revision}]
<1>1. j \in Job /\ Known(j) /\ j.step = "reconcile" /\ Hold(w, k)
  BY JobKnown DEF ReadForReconcile
<1>2. /\ k.step = "commit" /\ k.kind = j.kind /\ k.live = j.live /\ k.snap = j.snap
      /\ k.seen = j.seen /\ k.judged = j.judged /\ k.now = {revision} /\ k.on = j.on
      /\ k.approval = j.approval
  BY <1>1 DEF Job
<1>3. Ordered(k) /\ UpTo(k, revision)
  BY <1>1, <1>2, Numbers DEF Known, Ordered, UpTo, Behind
<1>4. Pending(k)
  BY <1>2 DEF Pending
<1>5. Checked(k)
  BY <1>1, <1>2 DEF Known, Checked, CheckedResolve, CheckedRequest, CheckedDecision,
                    CheckedRelease, Past
<1> HIDE DEF k
<1> QED
  BY <1>1, <1>2, <1>3, <1>4, <1>5, ReadSettled

(* The write.  The copy it was computed from is the row, for the sequence  *)
(* numbers agree; every other copy is outdated from then on.               *)

LEMMA CommitSettled ==
  ASSUME Typed, Settled, NEW w \in Requests, Commit(w)
  PROVE  Settled'
<1> DEFINE j == job[w]
<1>1. j \in Job /\ Known(j) /\ j.step = "commit" /\ j.snap.seq < MaxSeq
  BY JobKnown, JobTyped, StepMeansJob DEF Commit
<1>2. /\ Unmoved(j) /\ Recheck(j)
      /\ gov' = Reconciled(j) /\ revision' = revision /\ job' = [job EXCEPT ![w] = Idle]
  BY DEF Commit
<1> HIDE DEF j
<1>3. Row(gov')
  BY <1>1, <1>2, RowKept DEF Known
<1>4. gov.seq \in Nat /\ gov'.seq = gov.seq + 1
  BY <1>2, Numbers DEF Reconciled, NewId, Unmoved
<1>5. ASSUME NEW b \in ApprovalsReconciled(j) PROVE b.rev <= revision
  <2>1. PICK c \in ApprovalsAfter(j) : b = IF Stale(j, c) THEN [c EXCEPT !.status = "stale"] ELSE c
    BY DEF ApprovalsReconciled
  <2>2. b.rev = c.rev
    BY <1>1, <2>1, ApprovalsTyped DEF Approval
  <2>3. \A a \in j.snap.approvals : a.rev <= revision
    BY <1>1 DEF Known, UpTo, Behind, Revs
  <2>4. j.snap.approvals \subseteq Approval
    BY <1>1 DEF Job, Governance
  <2>5. CASE j.kind = "request"
    <3>1. \A a \in j.snap.approvals : Superseding(j, a).rev = a.rev
      BY <2>4 DEF Superseding, Approval
    <3>2. \A d \in Requested(j) : d.rev <= revision
      BY <1>1 DEF Requested, Known, UpTo, Behind
    <3> QED
      BY <2>2, <2>3, <2>5, <3>1, <3>2 DEF ApprovalsAfter
  <2>6. CASE j.kind \in {"approve", "reject"}
    <3>1. \A a \in j.snap.approvals : Decided(j, a).rev = a.rev
      BY <2>4 DEF Decided, Approval
    <3> QED
      BY <2>2, <2>3, <2>6, <3>1 DEF ApprovalsAfter
  <2>7. CASE j.kind \notin {"request", "approve", "reject"}
    BY <2>2, <2>3, <2>7 DEF ApprovalsAfter
  <2> QED
    BY <2>5, <2>6, <2>7
<1>6. Behind(Revs(gov'), {revision})
  BY <1>2, <1>5 DEF Behind, Revs, Reconciled
<1>7. ASSUME NEW v \in Requests, job'[v] # Idle
      PROVE  Known(job[v])' /\ job'[v] = job[v]
  <2>1. job'[v] = job[v] /\ job[v] # Idle
    BY <1>2, <1>7 DEF Typed, TypeOK
  <2>2. Known(job[v]) /\ job[v].snap.seq \in Nat
    BY <2>1, Numbers DEF Settled
  <2>3. job[v].snap.seq <= gov'.seq /\ job[v].snap.seq # gov'.seq
    BY <1>4, <2>2 DEF Known, Fresh
  <2> QED
    BY <1>2, <2>1, <2>2, <2>3 DEF Known, Fresh
<1> QED
  BY <1>2, <1>3, <1>6, <1>7 DEF Settled

\* The drawing moves on: what was read is behind it all the more.
LEMMA EditSettled ==
  ASSUME Typed, Settled, NEW ready \in BOOLEAN, EditDrawing(ready)
  PROVE  Settled'
<1>1. revision' = revision + 1 /\ gov' = gov /\ job' = job
  BY DEF EditDrawing
<1>2. ASSUME NEW S, S \subseteq Nat, Behind(S, {revision}) PROVE Behind(S, {revision'})
  BY <1>1, <1>2, Numbers DEF Behind
<1>3. Behind(Revs(gov), {revision'})
  BY <1>2, Numbers DEF Settled
<1>4. ASSUME NEW w \in Requests, job[w] # Idle PROVE Known(job[w])'
  <2>1. Known(job[w])
    BY <1>4 DEF Settled
  <2>2. UpTo(job[w], revision')
    BY <1>2, <1>4, <2>1, Numbers DEF Known, UpTo
  <2> QED
    BY <1>1, <2>1, <2>2 DEF Known, Fresh
<1> QED
  BY <1>1, <1>3, <1>4 DEF Settled

LEMMA RequestSettled ==
  ASSUME Typed, Settled, NEW w \in Requests, Request(w)
  PROVE  Settled'
<1>1. ASSUME NEW t \in Threads,
             CreateThread(w, t) \/ AddComment(w, t) \/ ResolveThread(w, t) \/ ReopenThread(w, t)
      PROVE  Settled'
  <2>1. {t} \in Optional(Threads) /\ {} \in Optional(Seqs)
    BY DEF Optional
  <2>2. CASE ResolveThread(w, t)
    <3>1. IsOpen(gov.threads[t]) /\ Begin(w, "resolve", {t}, {})
      BY <2>2 DEF ResolveThread
    <3> QED
      BY <2>1, <3>1, BeginSettled DEF Kinds
  <2>3. CASE CreateThread(w, t) \/ AddComment(w, t) \/ ReopenThread(w, t)
    <3>1. \E kind \in {"thread", "comment", "reopen"} : Begin(w, kind, {t}, {})
      BY <2>3 DEF CreateThread, AddComment, ReopenThread
    <3> QED
      BY <2>1, <3>1, BeginSettled DEF Kinds
  <2> QED
    BY <1>1, <2>2, <2>3
<1>2. CASE RequestApproval(w) \/ ReleaseDocument(w)
  <2>1. {} \in Optional(Threads) /\ {} \in Optional(Seqs)
    BY DEF Optional
  <2>2. \E kind \in {"request", "release"} : Begin(w, kind, {}, {})
    BY <1>2 DEF RequestApproval, ReleaseDocument
  <2> QED
    BY <2>1, <2>2, BeginSettled DEF Kinds
<1>3. ASSUME NEW a \in gov.approvals, NEW decision \in {"approve", "reject"},
             DecideApproval(w, a, decision)
      PROVE  Settled'
  <2>1. a.id \in Seqs
    BY DEF Typed, TypeOK, Governance, Approval
  <2>2. {} \in Optional(Threads) /\ {a.id} \in Optional(Seqs)
    BY <2>1 DEF Optional
  <2>3. a.status = "requested" /\ Begin(w, decision, {}, {a.id}) /\ decision \in Kinds
    BY <1>3 DEF DecideApproval, Kinds
  <2> QED
    BY <2>2, <2>3, BeginSettled
<1>4. CASE DenyOpenThreads(w)
  BY <1>4 DEF DenyOpenThreads, Settled, Known, Fresh
<1>5. CASE DenyRelease(w)
  BY <1>5, HoldSettled DEF DenyRelease
<1>6. CASE RefuseSecondRelease(w) \/ CommitConflict(w)
  BY <1>6, RefuseSettled DEF RefuseSecondRelease, CommitConflict
<1> QED
  BY <1>1, <1>2, <1>3, <1>4, <1>5, <1>6, ReadLiveSettled, ReadDocumentSettled,
     ReadForDecisionSettled, AssessReadinessSettled, PinReleaseSettled,
     ReadForReconcileSettled, CommitSettled DEF Request

LEMMA StepSettled == Typed /\ Settled /\ [Next]_vars => Settled'
<1> SUFFICES ASSUME Typed, Settled, [Next]_vars PROVE Settled'
  OBVIOUS
<1>1. CASE WaiverExpires
  BY <1>1 DEF WaiverExpires, Settled, Known, Fresh
<1>2. CASE UNCHANGED vars
  BY <1>2 DEF vars, Settled, Known, Fresh
<1> QED
  BY <1>1, <1>2, EditSettled, RequestSettled DEF Next

LEMMA AlwaysSettled == Spec => [](Typed /\ Settled)
  BY InitTyped, InitSettled, StepTyped, StepSettled, PTL DEF Spec

\* An approval that is approved vouches for the review as it stands.
THEOREM ApprovedReviewsAreClosed == Spec => []ApprovalStandsOnClosedReview
<1>1. Settled => ApprovalStandsOnClosedReview
  BY DEF Settled, Row, Closed, ApprovalStandsOnClosedReview
<1> QED
  BY <1>1, AlwaysSettled, PTL

\* An approval was judged on the very revision it binds.
THEOREM ApprovalsAreJudged == Spec => []ApprovedAsJudged
<1>1. Settled => ApprovedAsJudged
  BY DEF Settled, Row, Judged, ApprovedAsJudged
<1> QED
  BY <1>1, AlwaysSettled, PTL

\* There is never a second live approval, nor a second live release.
THEOREM LiveOnesAreAlone == Spec => []OneLiveApproval
<1>1. Settled => OneLiveApproval
  BY DEF Settled, Row, Sole, OneLiveApproval
<1> QED
  BY <1>1, AlwaysSettled, PTL

-------------------------------------------------------------------------------
(* Steps that move the row.                                                *)

LEMMA OnlyCommitMoves ==
  ASSUME [Next]_vars, <<gov, chain, package>>' # <<gov, chain, package>>
  PROVE  \/ \E w \in Requests : Commit(w)
         \/ gov' = gov /\ package' = package /\ Denied
<1>1. ASSUME NEW ready \in BOOLEAN, EditDrawing(ready) PROVE FALSE
  BY <1>1 DEF EditDrawing
<1>2. CASE WaiverExpires
  BY <1>2 DEF WaiverExpires
<1>3. CASE UNCHANGED vars
  BY <1>3 DEF vars
<1>4. ASSUME NEW w \in Requests, Request(w)
      PROVE  Commit(w) \/ (gov' = gov /\ package' = package /\ Denied)
  <2>1. ASSUME NEW kind, NEW on, NEW approval, Begin(w, kind, on, approval) PROVE FALSE
    BY <2>1 DEF Begin, Hold
  <2>2. CASE DenyOpenThreads(w) \/ DenyRelease(w)
    BY <2>2 DEF DenyOpenThreads, DenyRelease, Hold
  <2>3. CASE ReadLive(w) \/ ReadDocument(w) \/ ReadForDecision(w) \/ AssessReadiness(w)
    BY <2>3 DEF ReadLive, ReadDocument, ReadForDecision, AssessReadiness, Refuse, Hold
  <2>4. CASE PinRelease(w) \/ RefuseSecondRelease(w) \/ ReadForReconcile(w) \/ CommitConflict(w)
    BY <2>4 DEF PinRelease, RefuseSecondRelease, ReadForReconcile, CommitConflict, Refuse, Hold
  <2>5. CASE RequestApproval(w) \/ ReleaseDocument(w)
    BY <2>1, <2>5 DEF RequestApproval, ReleaseDocument
  <2> QED
    BY <1>4, <2>1, <2>2, <2>3, <2>4, <2>5 DEF Request, CreateThread, AddComment,
       ResolveThread, ReopenThread, DecideApproval
<1> QED
  BY <1>1, <1>2, <1>3, <1>4 DEF Next

\* A committing request holds the row as it is.
LEMMA CommitFacts ==
  ASSUME Typed, Settled, NEW w \in Requests, Commit(w)
  PROVE  LET j == job[w] IN
         /\ j \in Job /\ Known(j) /\ j.step = "commit" /\ j.snap.seq < MaxSeq
         /\ j.snap = gov /\ Recheck(j)
         /\ gov' = Reconciled(j) /\ chain' = chain \cup Facts(j)
         /\ package' = package \cup {[id |-> r.id, rev |-> r.rev] :
                                       r \in ReleasesAfter(j) \ gov.releases}
<1> DEFINE j == job[w]
<1>1. j \in Job /\ Known(j) /\ j.step = "commit" /\ j.snap.seq < MaxSeq
  BY JobKnown, JobTyped, StepMeansJob DEF Commit
<1>2. j.snap = gov
  BY <1>1 DEF Commit, Unmoved, Known, Fresh
<1> QED
  BY <1>1, <1>2 DEF Commit

LEMMA ReleaseStep ==
  ASSUME Typed, Settled, NEW w \in Requests, Commit(w), NEW q \in gov'.releases,
         q.id \notin {r.id : r \in gov.releases}
  PROVE  /\ q.rev = revision /\ q.digest = Digest(gov) /\ AllClosed(gov)
         /\ q.state = "released"
         /\ \E a \in gov'.approvals :
              /\ a.id = q.approval
              /\ Holds(a, revision, Digest(gov))
              /\ a.readiness = {revision}
<1> DEFINE j == job[w]
<1>1. /\ j \in Job /\ Known(j) /\ j.step = "commit" /\ j.snap.seq < MaxSeq
      /\ j.snap = gov /\ Recheck(j) /\ gov' = Reconciled(j)
  BY CommitFacts
<1> HIDE DEF j
<1>2. q \in ReleasesReconciled(j)
  BY <1>1 DEF Reconciled
<1>3. PICK r \in ReleasesAfter(j) :
        /\ q.id = r.id /\ q = IF Outdated(j, r) THEN [r EXCEPT !.state = "superseded"] ELSE r
        /\ r \in j.snap.releases \/ (j.kind = "release" /\ r \in Released(j) /\ r.id = NewId(j))
  BY <1>1, <1>2, ReleaseOrigin
<1>4. j.kind = "release" /\ r \in Released(j)
  BY <1>1, <1>3
<1>5. j.now = {revision} /\ j.seen = {revision}
  BY <1>1, <1>4, ReleasePinned DEF Known
<1>6. PICK a \in gov.approvals :
        j.approval = {a.id} /\ j.seen = {a.rev} /\ Holds(a, a.rev, Digest(gov))
  BY <1>1, <1>4 DEF Known, Checked, CheckedRelease, Past
<1>7. a.rev = revision
  BY <1>5, <1>6
<1>8. r.rev = revision /\ r.digest = Digest(gov) /\ r.approval = a.id /\ r.state = "released"
  BY <1>1, <1>4, <1>5, <1>6 DEF Released
<1>9. DigestAfter(j) = Digest(gov)
  BY <1>1, <1>4, SurfaceKept
<1>10. q = r
  BY <1>3, <1>5, <1>8, <1>9 DEF Outdated
<1>11. a \in ApprovalsReconciled(j)
  <2>1. a \in ApprovalsAfter(j)
    BY <1>1, <1>4 DEF ApprovalsAfter
  <2>2. ~Stale(j, a)
    BY <1>4, <1>5, <1>7 DEF Stale, Invalidates
  <2> QED
    BY <2>1, <2>2 DEF ApprovalsReconciled
<1>12. a.readiness = {a.rev}
  BY <1>6 DEF Settled, Row, Judged, Holds
<1>13. AllClosed(gov)
  BY <1>1, <1>4 DEF Known, Checked, CheckedRelease, Past
<1>14. a \in gov'.approvals
  BY <1>1, <1>11 DEF Reconciled
<1> QED
  BY <1>6, <1>7, <1>8, <1>10, <1>12, <1>13, <1>14

\* A release is made on the drawing and the review as they are at that
\* instant, by an approval that holds, and leaves both standing.
THEOREM ReleasesStandOnApprovals == Spec => ReleasedOnStandingApproval
<1> DEFINE A == \A r \in gov'.releases :
       r.id \notin {q.id : q \in gov.releases} =>
         /\ r.rev = revision /\ r.digest = Digest(gov) /\ AllClosed(gov)
         /\ r.state = "released"
         /\ \E a \in gov'.approvals :
              /\ a.id = r.approval
              /\ Holds(a, revision, Digest(gov))
              /\ a.readiness = {revision}
<1>1. ASSUME Typed, Settled, [Next]_vars PROVE A
  <2>1. CASE gov' = gov
    BY <2>1
  <2>2. CASE gov' # gov
    <3>1. PICK w \in Requests : Commit(w)
      BY <1>1, <2>2, OnlyCommitMoves
    <3> QED
      BY <1>1, <3>1, ReleaseStep
  <2> QED
    BY <2>1, <2>2
<1>2. Typed /\ Settled /\ [Next]_vars => [A]_vars
  BY <1>1
<1>3. ReleasedOnStandingApproval <=> [][A]_vars
  BY DEF ReleasedOnStandingApproval
<1> HIDE DEF A
<1>4. Spec => [][A]_vars
  BY <1>2, AlwaysSettled, PTL DEF Spec
<1> QED
  BY <1>3, <1>4

-------------------------------------------------------------------------------
(* What a commit does to each approval and each release there is.          *)

\* An approval of the row: its mutated form has its id, and differs only if
\* it is live; what is stale was stale.
ApprovalMutated(j, a) ==
  CASE j.kind = "request" -> Superseding(j, a)
    [] j.kind \in {"approve", "reject"} -> Decided(j, a)
    [] OTHER -> a

LEMMA MutatedApproval ==
  ASSUME NEW j \in Job, Row(j.snap), Checked(j), NEW a \in j.snap.approvals
  PROVE  /\ ApprovalMutated(j, a) \in ApprovalsAfter(j)
         /\ ApprovalMutated(j, a).id = a.id
         /\ ~Live(a) => ApprovalMutated(j, a) = a
         /\ Live(a) => ApprovalMutated(j, a).status # "stale"
<1>1. j.snap.approvals \subseteq Approval
  BY DEF Job, Governance
<1>2. CASE j.kind = "request"
  BY <1>1, <1>2 DEF ApprovalMutated, ApprovalsAfter, Superseding, Live, Approval
<1>3. CASE j.kind \in {"approve", "reject"}
  <2>1. PICK c \in j.snap.approvals : j.approval = {c.id} /\ c.status = "requested"
    BY <1>3 DEF Checked, CheckedDecision
  <2>2. a.id \in j.approval => Live(a)
    BY <2>1 DEF Row, Identified, Live
  <2>3. ApprovalMutated(j, a) = Decided(j, a) /\ Decided(j, a) \in ApprovalsAfter(j)
    BY <1>3 DEF ApprovalMutated, ApprovalsAfter
  <2>4. Decided(j, a).id = a.id /\ (Live(a) => Decided(j, a).status # "stale")
    BY <1>1 DEF Decided, Live, Approval
  <2> QED
    BY <2>2, <2>3, <2>4 DEF Decided
<1>4. CASE j.kind \notin {"request", "approve", "reject"}
  BY <1>4 DEF ApprovalMutated, ApprovalsAfter, Live
<1> QED
  BY <1>2, <1>3, <1>4

\* The mutated row has these approvals and, for a request, a fresh one.
LEMMA MutatedApprovals ==
  ASSUME NEW j \in Job, NEW c \in ApprovalsAfter(j)
  PROVE  \/ \E a \in j.snap.approvals : c = ApprovalMutated(j, a)
         \/ j.kind = "request" /\ c.id = NewId(j) /\ c.status = "requested" /\ c \in Requested(j)
  BY DEF ApprovalsAfter, ApprovalMutated, Requested

LEMMA MutatedIdentified ==
  ASSUME NEW j \in Job, Row(j.snap), Checked(j)
  PROVE  \A c, d \in ApprovalsAfter(j) : c.id = d.id => c = d
<1> SUFFICES ASSUME NEW c \in ApprovalsAfter(j), NEW d \in ApprovalsAfter(j), c.id = d.id
             PROVE  c = d
  OBVIOUS
<1>1. \A a \in j.snap.approvals : ApprovalMutated(j, a).id = a.id /\ a.id # NewId(j)
  <2>1. \A a \in j.snap.approvals : a.id <= j.snap.seq /\ a.id \in Nat
    BY DEF Row, Identified, Job, Governance, Approval, Seqs
  <2>2. j.snap.seq \in Nat
    BY DEF Job, Governance, Seqs
  <2>3. \A a \in j.snap.approvals : a.id # NewId(j)
    BY <2>1, <2>2 DEF NewId
  <2> QED
    BY <2>3, MutatedApproval
<1>2. CASE c.id = NewId(j)
  <2>1. c \in Requested(j) /\ d \in Requested(j)
    BY <1>1, <1>2, MutatedApprovals
  <2>2. j.seen = {} \/ \E x \in Revisions : j.seen = {x}
    BY Singles DEF Job
  <2> QED
    BY <2>1, <2>2 DEF Requested
<1>3. CASE c.id # NewId(j)
  <2>1. PICK a \in j.snap.approvals : c = ApprovalMutated(j, a)
    BY <1>3, MutatedApprovals
  <2>2. PICK b \in j.snap.approvals : d = ApprovalMutated(j, b)
    BY <1>3, MutatedApprovals
  <2>3. a = b
    BY <1>1, <2>1, <2>2 DEF Row, Identified
  <2> QED
    BY <2>1, <2>2, <2>3
<1> QED
  BY <1>2, <1>3

LEMMA GrowingStep ==
  ASSUME Typed, Settled, NEW w \in Requests, Commit(w)
  PROVE  /\ gov'.seq = gov.seq + 1
         /\ gov'.comments >= gov.comments
         /\ \A t \in Threads : gov.threads[t] # NoThread => gov'.threads[t] # NoThread
         /\ \A a \in gov.approvals : \E b \in gov'.approvals :
              b.id = a.id /\ (Live(a) \/ b = a)
         /\ \A r \in gov.releases : \E q \in gov'.releases :
              q.id = r.id /\ (r.state = "released" \/ q = r)
<1> DEFINE j == job[w]
<1>1. /\ j \in Job /\ Known(j) /\ j.snap.seq < MaxSeq
      /\ j.snap = gov /\ gov' = Reconciled(j)
  BY CommitFacts
<1> HIDE DEF j
<1>2. gov'.seq = gov.seq + 1
  BY <1>1 DEF Reconciled, NewId
<1>3. gov'.comments >= gov.comments
  <2>1. gov.comments \in Nat
    BY <1>1 DEF Job, Governance, Seqs
  <2> QED
    BY <1>1, <2>1 DEF Reconciled, CommentsAfter
<1>4. ASSUME NEW t \in Threads, gov.threads[t] # NoThread PROVE gov'.threads[t] # NoThread
  <2>1. gov.threads[t] \in Thread
    BY <1>1 DEF Job, Governance
  <2>2. ThreadsAfter(j)[t] = gov.threads[t] \/ ThreadsAfter(j)[t].status \in {"open", "resolved", "reopened"}
    BY <1>1, <2>1 DEF ThreadsAfter, Thread, NoThread
  <2> QED
    BY <1>1, <1>4, <2>2 DEF Reconciled, NoThread
<1>5. ASSUME NEW a \in gov.approvals
      PROVE  \E b \in gov'.approvals : b.id = a.id /\ (Live(a) \/ b = a)
  <2> DEFINE c == ApprovalMutated(j, a)
             b == IF Stale(j, c) THEN [c EXCEPT !.status = "stale"] ELSE c
  <2>1. /\ c \in ApprovalsAfter(j) /\ c.id = a.id /\ (~Live(a) => c = a)
    BY <1>1, MutatedApproval DEF Known
  <2>2. b \in gov'.approvals
    BY <1>1, <2>1 DEF Reconciled, ApprovalsReconciled
  <2>3. c \in Approval
    BY <1>1, <2>1, ApprovalsTyped
  <2> HIDE DEF c
  <2>4. b.id = c.id
    BY <2>3 DEF Approval
  <2>5. ~Live(a) => b = a
    BY <2>1 DEF Stale
  <2> HIDE DEF b
  <2> QED
    BY <2>1, <2>2, <2>4, <2>5
<1>6. ASSUME NEW r \in gov.releases
      PROVE  \E q \in gov'.releases : q.id = r.id /\ (r.state = "released" \/ q = r)
  <2> DEFINE q == IF Outdated(j, r) THEN [r EXCEPT !.state = "superseded"] ELSE r
  <2>1. r \in ReleasesAfter(j)
    BY <1>1 DEF ReleasesAfter
  <2>2. q \in gov'.releases
    BY <1>1, <2>1 DEF Reconciled, ReleasesReconciled
  <2>3. r \in Release
    BY <1>1, <2>1, ReleasesTyped
  <2>4. q.id = r.id /\ (r.state = "released" \/ q = r)
    BY <2>3 DEF Release, Outdated
  <2> HIDE DEF q
  <2> QED
    BY <2>2, <2>4
<1> QED
  BY <1>2, <1>3, <1>4, <1>5, <1>6

\* Concurrent reviewers lose nothing of each other's, and nothing that was
\* closed for good comes back.
THEOREM GovernanceGrows == Spec => GovernanceOnlyGrows
<1> DEFINE A == gov' # gov =>
       /\ gov'.seq = gov.seq + 1
       /\ gov'.comments >= gov.comments
       /\ \A t \in Threads : gov.threads[t] # NoThread => gov'.threads[t] # NoThread
       /\ \A a \in gov.approvals : \E b \in gov'.approvals :
            b.id = a.id /\ (Live(a) \/ b = a)
       /\ \A r \in gov.releases : \E q \in gov'.releases :
            q.id = r.id /\ (r.state = "released" \/ q = r)
<1>1. ASSUME Typed, Settled, [Next]_vars PROVE A
  <2>1. CASE gov' = gov
    BY <2>1
  <2>2. CASE gov' # gov
    <3>1. PICK w \in Requests : Commit(w)
      BY <1>1, <2>2, OnlyCommitMoves
    <3> QED
      BY <1>1, <3>1, GrowingStep
  <2> QED
    BY <2>1, <2>2
<1>2. Typed /\ Settled /\ [Next]_vars => [A]_vars
  BY <1>1
<1>3. GovernanceOnlyGrows <=> [][A]_vars
  BY DEF GovernanceOnlyGrows
<1> HIDE DEF A
<1>4. Spec => [][A]_vars
  BY <1>2, AlwaysSettled, PTL DEF Spec
<1> QED
  BY <1>3, <1>4

-------------------------------------------------------------------------------
(* The chain and the row tell the same story.  The chronicle adds that no   *)
(* fact runs ahead of the row, so that a new id has no past.                *)

Chronicle ==
  /\ ChainTellsEachTransitionOnce
  /\ \A f \in chain : f.event # "release.denied" => f.about <= gov.seq

ToldIn(C, event, id) ==
  /\ \E f \in C : f.event = event /\ f.about = id
  /\ \A f, h \in C : f.event = event /\ h.event = event /\ f.about = id /\ h.about = id => f = h

UntoldIn(C, event, id) == ~\E f \in C : f.event = event /\ f.about = id

\* What the facts of a commit are about.
Reports(j, event) ==
  CASE event = "approval.invalidated" -> {a.id : a \in Invalidated(j)}
    [] event = "release.superseded" -> {r.id : r \in {q \in ReleasesAfter(j) : Outdated(j, q)}}
    [] event = "release.released" -> {r.id : r \in ReleasesAfter(j) \ j.snap.releases}

Events == {"approval.invalidated", "release.superseded", "release.released"}

LEMMA FactsAre ==
  ASSUME NEW j
  PROVE  \A f : f \in Facts(j) <=>
           \E event \in Events : \E id \in Reports(j, event) :
             f = [event |-> event, about |-> id, seq |-> NewId(j)]
<1>1. ASSUME NEW e, NEW S, NEW f
      PROVE  f \in About(e, S, j) <=> \E id \in S : f = [event |-> e, about |-> id, seq |-> NewId(j)]
  BY DEF About
<1>2. Facts(j) = About("approval.invalidated", Reports(j, "approval.invalidated"), j)
                   \cup About("release.superseded", Reports(j, "release.superseded"), j)
                   \cup About("release.released", Reports(j, "release.released"), j)
  BY DEF Facts, Reports
<1> QED
  BY <1>1, <1>2 DEF Events

\* A transition that is new and untold is told once; the others stay as told.
LEMMA Telling ==
  ASSUME NEW j, NEW C, NEW event \in Events, NEW id
  PROVE  /\ id \in Reports(j, event) /\ UntoldIn(C, event, id) => ToldIn(C \cup Facts(j), event, id)
         /\ id \notin Reports(j, event) /\ UntoldIn(C, event, id) => UntoldIn(C \cup Facts(j), event, id)
         /\ id \notin Reports(j, event) /\ ToldIn(C, event, id) => ToldIn(C \cup Facts(j), event, id)
<1>1. \A f \in Facts(j) : f.event = event =>
        f.about \in Reports(j, event) /\ f = [event |-> event, about |-> f.about, seq |-> NewId(j)]
  BY FactsAre
<1>2. id \in Reports(j, event) => [event |-> event, about |-> id, seq |-> NewId(j)] \in Facts(j)
  BY FactsAre
<1>3. id \notin Reports(j, event) => \A f \in Facts(j) : ~(f.event = event /\ f.about = id)
  BY <1>1
<1>4. ASSUME id \in Reports(j, event), UntoldIn(C, event, id)
      PROVE  ToldIn(C \cup Facts(j), event, id)
  <2> DEFINE n == [event |-> event, about |-> id, seq |-> NewId(j)]
  <2>1. n \in Facts(j) /\ n.event = event /\ n.about = id
    BY <1>2, <1>4
  <2>2. \A f \in C \cup Facts(j) : f.event = event /\ f.about = id => f = n
    BY <1>1, <1>4 DEF UntoldIn
  <2> HIDE DEF n
  <2> QED
    BY <2>1, <2>2 DEF ToldIn
<1>5. ASSUME id \notin Reports(j, event), UntoldIn(C, event, id)
      PROVE  UntoldIn(C \cup Facts(j), event, id)
  BY <1>3, <1>5 DEF UntoldIn
<1>6. ASSUME id \notin Reports(j, event), ToldIn(C, event, id)
      PROVE  ToldIn(C \cup Facts(j), event, id)
  BY <1>3, <1>6 DEF ToldIn
<1> QED
  BY <1>4, <1>5, <1>6

\* The release's own reconcile finds nothing to invalidate.
LEMMA ReleaseInvalidatesNone ==
  ASSUME Typed, Settled, NEW j \in Job, Known(j), j.step = "commit", j.snap = gov, Recheck(j),
         j.kind = "release", NEW c \in ApprovalsAfter(j)
  PROVE  ~Stale(j, c)
<1>1. j.now = {revision} /\ j.seen = {revision}
  BY ReleasePinned DEF Known
<1>2. PICK a \in gov.approvals : j.seen = {a.rev} /\ Holds(a, a.rev, Digest(gov))
  BY DEF Known, Checked, CheckedRelease, Past
<1>3. c \in gov.approvals
  BY DEF ApprovalsAfter
<1>4. Live(c) => c = a
  BY <1>2, <1>3 DEF Settled, Row, Sole, Holds, Live
<1> QED
  BY <1>1, <1>2, <1>4 DEF Stale, Invalidates

LEMMA ApprovalsChronicled ==
  ASSUME Typed, Settled, Chronicle, NEW j \in Job, Known(j), j.step = "commit",
         j.snap.seq < MaxSeq, j.snap = gov, Recheck(j), NEW b \in ApprovalsReconciled(j)
  PROVE  IF b.status = "stale" THEN ToldIn(chain \cup Facts(j), "approval.invalidated", b.id)
         ELSE UntoldIn(chain \cup Facts(j), "approval.invalidated", b.id)
<1> DEFINE E == "approval.invalidated"
<1>1. PICK c \in ApprovalsAfter(j) : b = IF Stale(j, c) THEN [c EXCEPT !.status = "stale"] ELSE c
  BY DEF ApprovalsReconciled
<1>2. c \in Approval /\ b.id = c.id /\ (Stale(j, c) => b.status = "stale") /\ (~Stale(j, c) => b = c)
  BY <1>1, ApprovalsTyped DEF Approval
<1>3. E \in Events
  BY DEF Events
<1>4. c.id \in Reports(j, E) <=> Stale(j, c)
  <2>1. c.id \in Reports(j, E) => Stale(j, c)
    BY MutatedIdentified DEF Reports, Invalidated, Known
  <2>2. Stale(j, c) => c.id \in Reports(j, E)
    BY ReleaseInvalidatesNone DEF Reports, Invalidated
  <2> QED
    BY <2>1, <2>2
\* Before the step: told exactly when it was stale already.
<1>5. IF c.status = "stale" THEN ToldIn(chain, E, c.id) ELSE UntoldIn(chain, E, c.id)
  <2>1. CASE \E a \in gov.approvals : c = ApprovalMutated(j, a)
    <3>1. PICK a \in gov.approvals : c = ApprovalMutated(j, a)
      BY <2>1
    <3>2. c.id = a.id /\ (c.status = "stale" <=> a.status = "stale")
      BY <3>1, MutatedApproval DEF Known, Live
    <3> QED
      BY <3>2 DEF Chronicle, ChainTellsEachTransitionOnce, Told, Untold, ToldIn, UntoldIn
  <2>2. CASE c.id = NewId(j) /\ c.status = "requested"
    <3>1. gov.seq \in Nat /\ NewId(j) = gov.seq + 1
      BY DEF Typed, TypeOK, Governance, Seqs, NewId
    <3>2. \A f \in chain : f.event = E => f.about # NewId(j)
      BY <3>1 DEF Chronicle
    <3> QED
      BY <2>2, <3>2 DEF UntoldIn
  <2> QED
    BY <2>1, <2>2, MutatedApprovals
<1>6. CASE Stale(j, c)
  <2>1. c.status # "stale"
    BY <1>6 DEF Stale, Live
  <2> QED
    BY <1>2, <1>3, <1>4, <1>5, <1>6, <2>1, Telling
<1>7. CASE ~Stale(j, c)
  BY <1>2, <1>3, <1>4, <1>5, <1>7, Telling
<1> QED
  BY <1>6, <1>7

LEMMA ReleasesChronicled ==
  ASSUME Typed, Settled, Chronicle, NEW j \in Job, Known(j), j.step = "commit",
         j.snap.seq < MaxSeq, j.snap = gov, Recheck(j), NEW q \in ReleasesReconciled(j)
  PROVE  /\ ToldIn(chain \cup Facts(j), "release.released", q.id)
         /\ [id |-> q.id, rev |-> q.rev] \in
              package \cup {[id |-> r.id, rev |-> r.rev] : r \in ReleasesAfter(j) \ gov.releases}
         /\ IF q.state = "superseded" THEN ToldIn(chain \cup Facts(j), "release.superseded", q.id)
            ELSE UntoldIn(chain \cup Facts(j), "release.superseded", q.id)
<1> DEFINE E == "release.released"
           S == "release.superseded"
<1>1. PICK r \in ReleasesAfter(j) :
        /\ q.id = r.id /\ q = IF Outdated(j, r) THEN [r EXCEPT !.state = "superseded"] ELSE r
        /\ r \in j.snap.releases \/ (j.kind = "release" /\ r \in Released(j) /\ r.id = NewId(j))
  BY ReleaseOrigin
<1>2. /\ r \in Release /\ q.rev = r.rev
      /\ Outdated(j, r) => q.state = "superseded" /\ r.state = "released"
      /\ ~Outdated(j, r) => q = r
  BY <1>1, ReleasesTyped DEF Release, Outdated
<1>3. E \in Events /\ S \in Events
  BY DEF Events
<1>4. gov.seq \in Nat /\ NewId(j) = gov.seq + 1
  BY DEF Typed, TypeOK, Governance, Seqs, NewId
<1>5. \A p \in gov.releases : p.id \in Nat /\ p.id <= gov.seq
  BY DEF Typed, TypeOK, Governance, Release, Seqs, Settled, Row, Identified
<1>6. \A p \in ReleasesAfter(j) : p.id = r.id => p = r
  <2>1. ASSUME NEW p \in ReleasesAfter(j), p.id = r.id PROVE p = r
    <3>1. p \in gov.releases \/ (j.kind = "release" /\ p \in Released(j) /\ p.id = NewId(j))
      BY DEF ReleasesAfter, Released
    <3>2. CASE p \in gov.releases /\ r \in gov.releases
      BY <2>1, <3>2 DEF Settled, Row, Identified
    <3>3. CASE j.kind = "release" /\ p \in Released(j) /\ r \in Released(j)
      <4>1. PICK a \in j.snap.approvals : j.approval = {a.id} /\ j.seen = {a.rev}
        BY <3>3 DEF Known, Checked, CheckedRelease, Past
      <4> QED
        BY <3>3, <4>1 DEF Released
    <3> QED
      BY <1>1, <1>4, <1>5, <2>1, <3>1, <3>2, <3>3
  <2> QED
    BY <2>1
<1>7. r.id \in Reports(j, S) <=> Outdated(j, r)
  BY <1>6 DEF Reports
<1>8. r.id \in Reports(j, E) <=> r \notin gov.releases
  BY <1>6 DEF Reports
<1>9. CASE r \in gov.releases
  <2>1. /\ ToldIn(chain, E, r.id) /\ [id |-> r.id, rev |-> r.rev] \in package
        /\ IF r.state = "superseded" THEN ToldIn(chain, S, r.id) ELSE UntoldIn(chain, S, r.id)
    BY <1>9 DEF Chronicle, ChainTellsEachTransitionOnce, Told, Untold, ToldIn, UntoldIn
  <2>2. ToldIn(chain \cup Facts(j), E, r.id)
    BY <1>3, <1>8, <1>9, <2>1, Telling
  <2>3. IF q.state = "superseded" THEN ToldIn(chain \cup Facts(j), S, r.id)
        ELSE UntoldIn(chain \cup Facts(j), S, r.id)
    <3>1. CASE Outdated(j, r)
      BY <1>2, <1>3, <1>7, <2>1, <3>1, Telling
    <3>2. CASE ~Outdated(j, r)
      BY <1>2, <1>3, <1>7, <2>1, <3>2, Telling
    <3> QED
      BY <3>1, <3>2
  <2> QED
    BY <1>1, <1>2, <2>1, <2>2, <2>3
<1>10. CASE r \notin gov.releases
  <2>1. r.id = NewId(j) /\ r.state = "released"
    BY <1>1, <1>10 DEF Released
  <2>2. UntoldIn(chain, E, r.id) /\ UntoldIn(chain, S, r.id)
    <3>1. \A f \in chain : f.event \in {E, S} => f.about # NewId(j)
      BY <1>4 DEF Chronicle
    <3> QED
      BY <2>1, <3>1 DEF UntoldIn
  <2>3. ToldIn(chain \cup Facts(j), E, r.id)
    BY <1>3, <1>8, <1>10, <2>2, Telling
  <2>4. IF q.state = "superseded" THEN ToldIn(chain \cup Facts(j), S, r.id)
        ELSE UntoldIn(chain \cup Facts(j), S, r.id)
    <3>1. CASE Outdated(j, r)
      BY <1>2, <1>3, <1>7, <2>2, <3>1, Telling
    <3>2. CASE ~Outdated(j, r)
      BY <1>2, <1>3, <1>7, <2>1, <2>2, <3>2, Telling
    <3> QED
      BY <3>1, <3>2
  <2>5. [id |-> q.id, rev |-> q.rev] \in {[id |-> p.id, rev |-> p.rev] : p \in ReleasesAfter(j) \ gov.releases}
    BY <1>1, <1>2, <1>10
  <2> QED
    BY <1>1, <2>3, <2>4, <2>5
<1> QED
  BY <1>9, <1>10

LEMMA CommitChronicled ==
  ASSUME Typed, Settled, Chronicle, NEW w \in Requests, Commit(w)
  PROVE  Chronicle'
<1> DEFINE j == job[w]
<1>1. /\ j \in Job /\ Known(j) /\ j.step = "commit" /\ j.snap.seq < MaxSeq
      /\ j.snap = gov /\ Recheck(j)
      /\ gov' = Reconciled(j) /\ chain' = chain \cup Facts(j)
      /\ package' = package \cup {[id |-> r.id, rev |-> r.rev] :
                                    r \in ReleasesAfter(j) \ gov.releases}
  BY CommitFacts
<1> HIDE DEF j
<1>2. /\ gov'.approvals = ApprovalsReconciled(j) /\ gov'.releases = ReleasesReconciled(j)
      /\ gov'.seq = NewId(j)
  BY <1>1 DEF Reconciled
<1>3. ChainTellsEachTransitionOnce'
  <2>1. ASSUME NEW event \in Events, NEW id
        PROVE  /\ Told(event, id)' <=> ToldIn(chain \cup Facts(j), event, id)
               /\ Untold(event, id)' <=> UntoldIn(chain \cup Facts(j), event, id)
    BY <1>1 DEF Told, Untold, ToldIn, UntoldIn
  <2>2. ASSUME NEW b \in ApprovalsReconciled(j)
        PROVE  IF b.status = "stale" THEN Told("approval.invalidated", b.id)'
               ELSE Untold("approval.invalidated", b.id)'
    BY <1>1, <2>1, ApprovalsChronicled DEF Events
  <2>3. ASSUME NEW q \in ReleasesReconciled(j)
        PROVE  /\ Told("release.released", q.id)'
               /\ [id |-> q.id, rev |-> q.rev] \in package'
               /\ IF q.state = "superseded" THEN Told("release.superseded", q.id)'
                  ELSE Untold("release.superseded", q.id)'
    BY <1>1, <2>1, ReleasesChronicled DEF Events
  <2> QED
    BY <1>2, <2>2, <2>3 DEF ChainTellsEachTransitionOnce
<1>4. gov.seq \in Nat /\ NewId(j) = gov.seq + 1
  BY <1>1 DEF Typed, TypeOK, Governance, Seqs, NewId
<1>5. \A c \in ApprovalsAfter(j) : c.id <= NewId(j)
  <2>1. \A a \in gov.approvals : a.id \in Nat /\ a.id <= gov.seq
    BY DEF Typed, TypeOK, Governance, Approval, Seqs, Settled, Row, Identified
  <2>2. \A a \in gov.approvals : ApprovalMutated(j, a).id = a.id
    BY <1>1, MutatedApproval DEF Known
  <2> QED
    BY <1>1, <1>4, <2>1, <2>2, MutatedApprovals
<1>6. \A r \in ReleasesAfter(j) : r.id <= NewId(j)
  <2>1. \A r \in gov.releases : r.id \in Nat /\ r.id <= gov.seq
    BY DEF Typed, TypeOK, Governance, Release, Seqs, Settled, Row, Identified
  <2> QED
    BY <1>1, <1>4, <2>1 DEF ReleasesAfter, Released
<1>7. ASSUME NEW f \in chain', f.event # "release.denied" PROVE f.about <= gov'.seq
  <2>1. CASE f \in chain
    <3>1. f.about \in Nat /\ f.about <= gov.seq
      BY <1>7, <2>1 DEF Chronicle, Typed, TypeOK, Fact, Seqs
    <3> QED
      BY <1>2, <1>4, <3>1
  <2>2. CASE f \in Facts(j)
    <3>1. PICK event \in Events : f.about \in Reports(j, event)
      BY <2>2, FactsAre
    <3> QED
      BY <1>2, <1>5, <1>6, <3>1 DEF Reports, Events, Invalidated
  <2> QED
    BY <1>1, <1>7, <2>1, <2>2
<1> QED
  BY <1>3, <1>7 DEF Chronicle

LEMMA StepChronicled == Typed /\ Settled /\ Chronicle /\ [Next]_vars => Chronicle'
<1> SUFFICES ASSUME Typed, Settled, Chronicle, [Next]_vars PROVE Chronicle'
  OBVIOUS
<1>1. CASE UNCHANGED <<gov, chain, package>>
  BY <1>1 DEF Chronicle, ChainTellsEachTransitionOnce, Told, Untold
<1>2. CASE gov' = gov /\ package' = package /\ Denied
  <2> DEFINE d == [event |-> "release.denied", about |-> 0, seq |-> 0]
  <2>1. chain' = chain \cup {d} /\ d.event = "release.denied"
    BY <1>2 DEF Denied
  <2> HIDE DEF d
  <2>2. ASSUME NEW event \in Events, NEW id
        PROVE  (Told(event, id) => Told(event, id)') /\ (Untold(event, id) => Untold(event, id)')
    BY <2>1 DEF Told, Untold, Events
  <2> QED
    BY <1>2, <2>1, <2>2 DEF Chronicle, ChainTellsEachTransitionOnce, Events
<1> QED
  BY <1>1, <1>2, OnlyCommitMoves, CommitChronicled

LEMMA InitChronicled == Init => Chronicle
  BY DEF Init, Chronicle, ChainTellsEachTransitionOnce

\* An approval is stale exactly when one fact says so, a release superseded
\* likewise, and every release has one fact of its making and its package.
THEOREM ChainIsComplete == Spec => []ChainTellsEachTransitionOnce
<1>1. Chronicle => ChainTellsEachTransitionOnce
  BY DEF Chronicle
<1> QED
  BY <1>1, AlwaysSettled, InitChronicled, StepChronicled, PTL DEF Spec

===============================================================================
