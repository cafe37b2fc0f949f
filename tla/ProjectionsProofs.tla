------------------------- MODULE ProjectionsProofs -------------------------
(***************************************************************************)
(* Proofs about the projection manager: a rebuild that completes has all   *)
(* it read, and, where nothing is rebuilt, no event is skipped or counted  *)
(* twice, and the manager does not sleep over what it was told of.         *)
(***************************************************************************)
EXTENDS Projections, FiniteSetTheorems, TLAPS

-----------------------------------------------------------------------------
(* The invariant of types, and of what a rebuild has replayed               *)

Manager == [pc : {"pick", "fetch", "handle", "checkpoint", "sleep"}, todo : SUBSET All,
            cur : All \cup {NoProjection}, from : Nat, batch : SUBSET Nat,
            processed : BOOLEAN, slow : BOOLEAN, unread : SUBSET (All \cup {NoProjection})]

Rebuilder == [pc : {"none", "verifyAll", "start", "verify", "clear", "query", "replay", "complete"},
              queue : Seq(All), verify : BOOLEAN, rows : SUBSET Nat, asked : SUBSET Nat, max : Nat]

Types ==
    /\ FeedTypeOK /\ last <= MaxEvents
    /\ owed \in Nat /\ wake \in BOOLEAN /\ silent \subseteq visible
    /\ checkpoint \in [All -> {0} \cup visible]
    /\ applied \in [All -> [Ids -> 0..2]]
    /\ mgr \in Manager /\ rb \in Rebuilder
    /\ crashes \in Nat /\ rebuilds \in Nat /\ rebuilds <= MaxRebuilds

Working == {"fetch", "handle", "checkpoint"}
Fetched == {"handle", "checkpoint"}

ManagerOK ==
    /\ mgr.pc \in Working => mgr.cur \in All
    /\ mgr.pc \in Fetched => mgr.batch # {} /\ mgr.batch \subseteq visible

RebuildOK ==
    /\ rb.pc # "none" => rb.queue # <<>> /\ rebuilds > 0
    /\ rb.pc \in {"replay", "complete"} =>
          /\ rb.rows \subseteq visible /\ rb.asked \subseteq visible
          /\ \A i \in rb.asked : applied[Cur][i] > 0 \/ i \in rb.rows
    /\ rb.pc = "complete" => rb.rows = {} /\ rb.max \in {0} \cup visible

IInv == Types /\ ManagerOK /\ RebuildOK

-----------------------------------------------------------------------------
(* The least and the greatest of a set of numbers                           *)

(* A set of numbers has a least one.                                        *)
LEMMA Least == ASSUME NEW S \in SUBSET Nat, S # {} PROVE \E x \in S : \A y \in S : x <= y
  <1> DEFINE Below == {0 .. x : x \in S}
  <1>1. Below \subseteq FiniteSubsetsOf(Nat) /\ Below # {}
    <2>1. ASSUME NEW x \in S PROVE 0 .. x \in SUBSET Nat /\ IsFiniteSet(0 .. x)
      BY FS_Interval
    <2> QED
      BY <2>1 DEF FiniteSubsetsOf
  <1>2. PICK B \in Below : \A C \in Below : ~(<<C, B>> \in StrictSubsetOrdering(Nat))
    BY <1>1, WFMin, FS_StrictSubsetOrderingWellFounded
  <1>3. PICK x \in S : B = 0 .. x
    OBVIOUS
  <1>4. ASSUME NEW y \in S, y < x PROVE FALSE
    <2>1. 0 .. y \in Below /\ 0 .. y \in SUBSET Nat /\ 0 .. x \in SUBSET Nat
      OBVIOUS
    <2>2. 0 .. y \subseteq 0 .. x /\ x \in 0 .. x /\ x \notin 0 .. y
      BY <1>4
    <2> QED
      BY <1>2, <1>3, <2>1, <2>2 DEF StrictSubsetOrdering
  <1> QED
    BY <1>4

(* Min finds it.                                                            *)
LEMMA MinIsLeast ==
    ASSUME NEW S \in SUBSET Nat, S # {} PROVE Min(S) \in S /\ \A y \in S : Min(S) <= y
  BY Least DEF Min

(* Max finds the greatest of a set that has a bound.                        *)
LEMMA MaxIsThere ==
    ASSUME NEW n \in Nat, NEW S \in SUBSET (0..n), 0 \in S PROVE Max(S) \in S
  <1> DEFINE Above == {m \in Nat : \A y \in S : y <= m}
  <1>1. PICK m \in Above : \A k \in Above : m <= k
    BY Least, n \in Above
  <1>2. m \in S
    <2> SUFFICES ASSUME m \notin S PROVE FALSE
      OBVIOUS
    <2>1. m # 0 /\ m - 1 \in Nat
      BY <1>1
    <2>2. m - 1 \in Above
      BY <2>1
    <2> QED
      BY <1>1, <2>1, <2>2
  <1>3. \E x \in S : \A y \in S : x >= y
    BY <1>1, <1>2
  <1> QED
    BY <1>3 DEF Max

(* What is visible is a number.                                             *)
LEMMA VisibleFacts ==
    ASSUME FeedTypeOK
    PROVE  last \in Nat /\ visible \subseteq 1..last /\ \A i \in visible : i \in Nat /\ i > 0
  <1>1. last \in Nat /\ visible \subseteq 1..last
    BY DEF FeedTypeOK
  <1> QED
    BY <1>1

(* A batch is fetched if there is anything to fetch, and has what comes     *)
(* next in the ledger.                                                      *)
LEMMA BatchFacts ==
    ASSUME FeedTypeOK, NEW from \in Nat
    PROVE  /\ NewEvents(from) \subseteq {i \in visible : i > from}
           /\ NewEvents(from) = {} => \A i \in visible : i <= from
           /\ \A b \in NewEvents(from) : \A i \in visible :
                 i < b /\ i > from => i \in NewEvents(from)
  <1> DEFINE new == {i \in visible : i > from}
  <1> DEFINE below(i) == {j \in new : j < i}
  <1>1. last \in Nat /\ visible \subseteq 1..last /\ new \in SUBSET Nat
    BY VisibleFacts
  <1>2. ASSUME NEW S \in SUBSET new
        PROVE  IsFiniteSet(S) /\ Cardinality(S) \in Nat
               /\ \A T \in SUBSET S : Cardinality(T) <= Cardinality(S)
    <2>1. IsFiniteSet(1..last)
      BY <1>1, FS_Interval
    <2>2. IsFiniteSet(S)
      BY <1>1, <2>1, FS_Subset
    <2> QED
      BY <2>2, FS_CardinalityType, FS_Subset
  <1>3. NewEvents(from) = {i \in new : Cardinality(below(i)) < BatchSize}
    BY DEF NewEvents
  <1>4. BatchSize \in Nat /\ BatchSize > 0
    BY ProjectionsAssumption
  <1>5. NewEvents(from) = {} => new = {}
    <2> SUFFICES ASSUME new # {} PROVE NewEvents(from) # {}
      OBVIOUS
    <2>1. PICK x \in new : \A y \in new : x <= y
      BY <1>1, Least
    <2>2. below(x) = {}
      BY <1>1, <2>1
    <2>3. Cardinality(below(x)) = 0
      BY <2>2, FS_EmptySet
    <2> HIDE DEF below
    <2> QED
      BY <1>3, <1>4, <2>3
  <1>6. ASSUME NEW b \in NewEvents(from), NEW i \in visible, i < b, i > from
        PROVE  i \in NewEvents(from)
    <2>1. i \in new /\ b \in new /\ Cardinality(below(b)) < BatchSize
      BY <1>3, <1>6
    <2>2. below(i) \subseteq below(b) /\ below(b) \in SUBSET new /\ below(i) \in SUBSET new
      BY <1>1, <1>6, <2>1
    <2> HIDE DEF below
    <2>3. Cardinality(below(i)) <= Cardinality(below(b)) /\ Cardinality(below(i)) \in Nat
          /\ Cardinality(below(b)) \in Nat
      BY <1>2, <2>2
    <2> QED
      BY <1>3, <1>4, <2>1, <2>3
  <1> HIDE DEF below
  <1> QED
    BY <1>1, <1>3, <1>5, <1>6

-----------------------------------------------------------------------------
(* What each step of the manager does to its record                         *)

(* An event is applied once more, to one read model.                        *)
LEMMA ApplyFacts ==
    ASSUME applied \in [All -> [Ids -> 0..2]], NEW p \in All, NEW i \in Ids, Apply(p, i)
    PROVE  /\ applied' \in [All -> [Ids -> 0..2]] /\ applied'[p][i] > 0
           /\ \A q \in All : \A k \in Ids : applied[q][k] <= applied'[q][k]
           /\ \A q \in All : \A k \in Ids : q # p \/ k # i => applied'[q][k] = applied[q][k]
           /\ applied[p][i] = 0 => applied'[p][i] = 1
  <1> DEFINE n == IF applied[p][i] < 2 THEN applied[p][i] + 1 ELSE applied[p][i]
  <1>1. applied[p][i] \in 0..2 /\ n \in 1..2 /\ applied[p][i] <= n
        /\ (applied[p][i] = 0 => n = 1)
    OBVIOUS
  <1>2. applied' = [applied EXCEPT ![p][i] = n]
    BY DEF Apply
  <1> HIDE DEF n
  <1>3. applied'[p] = [applied[p] EXCEPT ![i] = n] /\ \A q \in All \ {p} : applied'[q] = applied[q]
    BY <1>2
  <1>4. applied'[p][i] = n /\ (\A k \in Ids \ {i} : applied'[p][k] = applied[p][k])
        /\ applied'[p] \in [Ids -> 0..2]
    BY <1>1, <1>3
  <1>5. applied' \in [All -> [Ids -> 0..2]]
    BY <1>2, <1>4, <1>3
  <1>6. \A q \in All : \A k \in Ids : applied[q][k] \in 0..2 /\ applied'[q][k] \in 0..2
    BY <1>5
  <1>7. ASSUME NEW q \in All, NEW k \in Ids
        PROVE  /\ applied[q][k] <= applied'[q][k]
               /\ q # p \/ k # i => applied'[q][k] = applied[q][k]
    <2>1. CASE q = p /\ k = i
      BY <1>1, <1>4, <2>1
    <2>2. CASE q # p \/ k # i
      <3>1. applied'[q][k] = applied[q][k]
        BY <1>3, <1>4, <2>2
      <3> QED
        BY <1>6, <3>1
    <2> QED
      BY <2>1, <2>2
  <1>8. applied'[p][i] > 0 /\ (applied[p][i] = 0 => applied'[p][i] = 1)
    BY <1>1, <1>4
  <1> QED
    BY <1>5, <1>7, <1>8

(* The manager turns to the next projection.                                *)
LEMMA NextFacts ==
    ASSUME NEW m \in Manager
    PROVE  /\ NextProjection(m) \in Manager /\ NextProjection(m).pc = "pick"
           /\ NextProjection(m).todo = m.todo /\ NextProjection(m).processed = m.processed
           /\ NextProjection(m).unread = m.unread /\ NextProjection(m).batch = {}
  BY DEF Manager, NextProjection

(* It goes on with the batch, or with the next projection.                  *)
LEMMA AfterEventFacts ==
    ASSUME NEW m \in Manager, m.batch # {}
    PROVE  /\ AfterEvent(m) \in Manager
           /\ \/ /\ AfterEvent(m).pc = "pick" /\ AfterEvent(m).todo = m.todo
                 /\ AfterEvent(m).processed /\ AfterEvent(m).unread = m.unread
              \/ /\ AfterEvent(m).pc = "handle" /\ AfterEvent(m).cur = m.cur
                 /\ AfterEvent(m).batch = m.batch \ {Min(m.batch)} /\ AfterEvent(m).batch # {}
                 /\ AfterEvent(m).todo = m.todo /\ AfterEvent(m).processed = m.processed
                 /\ AfterEvent(m).unread = m.unread
  <1> DEFINE rest == m.batch \ {Min(m.batch)}
  <1>1. rest \in SUBSET Nat
    BY DEF Manager
  <1> HIDE DEF rest
  <1>2. CASE rest = {}
    <2>1. AfterEvent(m) = [NextProjection(m) EXCEPT !.processed = TRUE]
      BY <1>2 DEF AfterEvent, rest
    <2> HIDE DEF NextProjection
    <2>2. /\ AfterEvent(m) \in Manager /\ AfterEvent(m).pc = NextProjection(m).pc
          /\ AfterEvent(m).todo = NextProjection(m).todo /\ AfterEvent(m).processed
          /\ AfterEvent(m).unread = NextProjection(m).unread
      BY <2>1, NextFacts DEF Manager
    <2> QED
      BY <2>2, NextFacts
  <1>3. CASE rest # {}
    <2>1. AfterEvent(m) = [m EXCEPT !.pc = "handle", !.batch = rest]
      BY <1>3 DEF AfterEvent, rest
    <2>2. /\ AfterEvent(m) \in Manager /\ AfterEvent(m).pc = "handle"
          /\ AfterEvent(m).batch = rest /\ AfterEvent(m).cur = m.cur
          /\ AfterEvent(m).todo = m.todo /\ AfterEvent(m).processed = m.processed
          /\ AfterEvent(m).unread = m.unread
      BY <1>1, <2>1 DEF Manager
    <2> QED
      BY <1>3, <2>2 DEF rest
  <1> QED
    BY <1>2, <1>3

(* So it does when a handler has failed.                                    *)
LEMMA AfterFailureFacts ==
    ASSUME NEW m \in Manager
    PROVE  /\ AfterFailure(m) \in Manager /\ AfterFailure(m).pc = "pick"
           /\ AfterFailure(m).todo = m.todo /\ AfterFailure(m).processed
           /\ AfterFailure(m).unread = m.unread
  <1>1. AfterFailure(m) = [NextProjection(m) EXCEPT !.processed = TRUE]
    BY DEF AfterFailure
  <1> QED
    BY <1>1, NextFacts DEF Manager

(* The cycle begins.                                                        *)
LEMMA StartFacts ==
    /\ StartOfCycle \in Manager /\ StartOfCycle.pc = "pick" /\ StartOfCycle.todo = All
    /\ ~StartOfCycle.processed
  BY DEF StartOfCycle, Manager

(* A projection is picked, and where it stands is read.                     *)
LEMMA PickFacts ==
    ASSUME Types, PickProjection
    PROVE  /\ mgr' \in Manager /\ mgr'.pc = "fetch" /\ mgr'.cur \in mgr.todo
           /\ mgr'.todo = mgr.todo \ {mgr'.cur} /\ mgr'.from = checkpoint[mgr'.cur]
           /\ mgr'.processed = mgr.processed /\ mgr'.unread = mgr.unread
           /\ mgr.pc = "pick"
  <1>1. PICK p \in mgr.todo : mgr' = [mgr EXCEPT !.pc = "fetch", !.cur = p,
                                          !.todo = mgr.todo \ {p}, !.from = checkpoint[p]]
    BY DEF PickProjection
  <1>2. mgr \in Manager /\ p \in All /\ mgr.todo \ {p} \in SUBSET All /\ checkpoint[p] \in Nat
    <2>1. mgr \in Manager /\ p \in All
      BY DEF Types, Manager
    <2>2. checkpoint[p] \in {0} \cup visible
      BY <2>1 DEF Types
    <2>3. checkpoint[p] \in Nat
      BY <2>2, VisibleFacts DEF Types
    <2> QED
      BY <2>1, <2>3 DEF Manager
  <1> DEFINE t == mgr.todo \ {p}
             f == checkpoint[p]
  <1> HIDE DEF t, f
  <1>3. mgr' = [mgr EXCEPT !.pc = "fetch", !.cur = p, !.todo = t, !.from = f]
        /\ t \in SUBSET All /\ f \in Nat
    BY <1>1, <1>2 DEF t, f
  <1>4. mgr' \in Manager
    BY <1>2, <1>3 DEF Manager
  <1>5. mgr'.pc = "fetch" /\ mgr'.cur = p /\ mgr'.todo = t /\ mgr'.from = f
        /\ mgr'.processed = mgr.processed /\ mgr'.unread = mgr.unread
    BY <1>2, <1>3 DEF Manager
  <1> QED
    BY <1>4, <1>5 DEF t, f, PickProjection

(* Its events are fetched, if there are any.                                *)
LEMMA FetchFacts ==
    ASSUME Types, FetchEvents
    PROVE  /\ mgr' \in Manager /\ mgr.pc = "fetch"
           /\ mgr'.todo = mgr.todo /\ mgr'.processed = mgr.processed /\ mgr'.unread = mgr.unread
           /\ \/ mgr'.pc = "pick" /\ NewEvents(mgr.from) = {}
              \/ /\ mgr'.pc = "handle" /\ mgr'.cur = mgr.cur
                 /\ mgr'.batch = NewEvents(mgr.from) /\ mgr'.batch # {}
  <1> DEFINE b == NewEvents(mgr.from)
  <1>1. mgr \in Manager /\ b \in SUBSET Nat
    <2>1. mgr \in Manager /\ mgr.from \in Nat
      BY DEF Types, Manager
    <2>2. b \subseteq visible
      BY <2>1, BatchFacts DEF Types
    <2> QED
      BY <2>1, <2>2, VisibleFacts DEF Types
  <1> HIDE DEF b
  <1>2. CASE b = {}
    <2>1. mgr' = NextProjection(mgr)
      BY <1>2 DEF FetchEvents, b
    <2> QED
      BY <1>1, <1>2, <2>1, NextFacts DEF FetchEvents, b
  <1>3. CASE b # {}
    <2>1. mgr' = [mgr EXCEPT !.pc = "handle", !.batch = b]
      BY <1>3 DEF FetchEvents, b
    <2>2. /\ mgr' \in Manager /\ mgr'.pc = "handle" /\ mgr'.cur = mgr.cur /\ mgr'.batch = b
          /\ mgr'.todo = mgr.todo /\ mgr'.processed = mgr.processed /\ mgr'.unread = mgr.unread
      BY <1>1, <2>1 DEF Manager
    <2> QED
      BY <1>3, <2>2 DEF FetchEvents, b
  <1> QED
    BY <1>2, <1>3

(* A read fails, and that is remembered.                                    *)
LEMMA ReadFailsFacts ==
    ASSUME Types, ReadFails
    PROVE  /\ mgr' \in Manager /\ mgr.pc = "fetch" /\ mgr'.pc = "pick"
           /\ mgr'.todo = mgr.todo /\ mgr'.processed = mgr.processed
           /\ mgr'.unread = mgr.unread \cup {mgr.cur}
  <1>1. mgr \in Manager /\ NextProjection(mgr) \in Manager
    BY NextFacts DEF Types
  <1> DEFINE u == NextProjection(mgr).unread \cup {mgr.cur}
  <1>2. u \in SUBSET (All \cup {NoProjection})
    BY <1>1 DEF Manager
  <1>3. mgr' = [NextProjection(mgr) EXCEPT !.unread = u]
    BY DEF ReadFails
  <1>4. u = mgr.unread \cup {mgr.cur}
    BY <1>1, NextFacts
  <1> HIDE DEF u
  <1>5. /\ mgr' \in Manager /\ mgr'.pc = NextProjection(mgr).pc
        /\ mgr'.todo = NextProjection(mgr).todo
        /\ mgr'.processed = NextProjection(mgr).processed /\ mgr'.unread = u
    BY <1>1, <1>2, <1>3 DEF Manager
  <1> QED
    BY <1>1, <1>4, <1>5, NextFacts DEF ReadFails

(* The cycle ends: the long timer is armed when nothing was processed.      *)
LEMMA SleepFacts ==
    ASSUME Types, Sleep
    PROVE  /\ mgr' \in Manager /\ mgr.pc = "pick" /\ mgr.todo = {}
           /\ mgr'.pc = "sleep" /\ mgr'.todo = {} /\ mgr'.slow = ~mgr.processed
           /\ mgr'.slow => mgr'.unread = mgr.unread
  <1>1. mgr \in Manager /\ mgr.processed \in BOOLEAN
    BY DEF Types, Manager
  <1> DEFINE f == ~mgr.processed
             u == IF mgr.processed THEN {} ELSE mgr.unread
  <1>2. f \in BOOLEAN /\ u \in SUBSET (All \cup {NoProjection})
    BY <1>1 DEF Manager
  <1>3. mgr' = [StartOfCycle EXCEPT !.pc = "sleep", !.todo = {}, !.slow = f, !.unread = u]
        /\ mgr.pc = "pick" /\ mgr.todo = {}
    BY DEF Sleep
  <1>4. f => u = mgr.unread
    OBVIOUS
  <1>5. f = ~mgr.processed
    OBVIOUS
  <1> HIDE DEF f, u
  <1>6. mgr' = [pc |-> "sleep", todo |-> {}, cur |-> NoProjection, from |-> 0, batch |-> {},
                processed |-> FALSE, slow |-> f, unread |-> u]
    BY <1>3 DEF StartOfCycle
  <1>7. mgr' \in Manager
    BY <1>2, <1>6 DEF Manager
  <1>8. mgr'.pc = "sleep" /\ mgr'.todo = {} /\ mgr'.slow = f /\ mgr'.unread = u
    BY <1>6
  <1> QED
    BY <1>3, <1>4, <1>5, <1>7, <1>8

-----------------------------------------------------------------------------
(* The invariant holds                                                      *)

\* A record of ids in which none has been applied.
Nothing == [i \in Ids |-> 0]

(* It holds at the beginning.                                               *)
LEMMA InvInit == ASSUME Init PROVE IInv
  <1> USE DEF Init, FeedInit
  <1>1. FeedTypeOK /\ last <= MaxEvents /\ silent \subseteq visible /\ visible = {}
    BY ProjectionsAssumption DEF FeedTypeOK
  <1>2. mgr \in Manager /\ mgr.pc = "pick"
    BY StartFacts
  <1>3. NoRebuild \in Rebuilder /\ NoRebuild.pc = "none"
    BY DEF NoRebuild, Rebuilder
  <1>4. checkpoint \in [All -> {0} \cup visible] /\ applied \in [All -> [Ids -> 0..2]]
    OBVIOUS
  <1>5. rb \in Rebuilder /\ owed \in Nat /\ wake \in BOOLEAN /\ crashes \in Nat /\ rebuilds \in Nat
        /\ rebuilds <= MaxRebuilds
    <2>1. rb \in Rebuilder
      BY <1>3
    <2>2. owed = 0 /\ wake = FALSE /\ crashes = 0 /\ rebuilds = 0
      OBVIOUS
    <2>3. MaxRebuilds \in Nat
      BY ProjectionsAssumption
    <2> HIDE DEF Init
    <2>4. wake \in BOOLEAN
      BY <2>2
    <2>5. owed \in Nat /\ crashes \in Nat /\ rebuilds \in Nat /\ rebuilds <= MaxRebuilds
      BY <2>2, <2>3
    <2> QED
      BY <2>1, <2>4, <2>5
  <1>6. Types
    <2> USE DEF Types
    <2> HIDE DEF Init
    <2> QED
      BY <1>1, <1>2, <1>4, <1>5
  <1> QED
    BY <1>2, <1>3, <1>6 DEF IInv, ManagerOK, RebuildOK, Working, Fetched

(* Writers hand out ids and publish them.                                   *)
LEMMA WriterInv == ASSUME IInv, Writer PROVE IInv'
  <1>1. UNCHANGED <<checkpoint, applied, mgr, rb, crashes, rebuilds>>
    BY DEF Writer, AppendEvent, CommitEvent, CommitReplyLost, Wake, budget
  <1>2. /\ FeedTypeOK' /\ last' <= MaxEvents /\ visible \subseteq visible'
        /\ owed' \in Nat /\ wake' \in BOOLEAN /\ silent' \subseteq visible'
    <2>1. CASE AppendEvent
      <3>1. /\ last' = last + 1 /\ inflight' = inflight \cup {last + 1} /\ visible' = visible
            /\ owed' = owed /\ wake' = wake /\ silent' = silent /\ last < MaxEvents
        BY <2>1 DEF AppendEvent, Assign, write
      <3>2. last \in Nat /\ MaxEvents \in Nat /\ inflight \subseteq 1..last
            /\ visible \subseteq (1..last) \ inflight
        BY ProjectionsAssumption DEF IInv, Types, FeedTypeOK
      <3>3. FeedTypeOK'
        BY <3>1, <3>2 DEF FeedTypeOK
      <3> QED
        BY <3>1, <3>2, <3>3 DEF IInv, Types
    <2>2. ASSUME NEW i \in inflight, Publish({i}) PROVE FeedTypeOK' /\ visible \subseteq visible'
                 /\ last' = last /\ i \in visible'
      BY <2>2 DEF Publish, IInv, Types, FeedTypeOK
    <2>3. CASE CommitEvent
      <3>1. FeedTypeOK' /\ visible \subseteq visible' /\ last' = last
        BY <2>2, <2>3 DEF CommitEvent
      <3> QED
        BY <2>3, <3>1 DEF CommitEvent, IInv, Types
    <2>4. CASE CommitReplyLost
      <3>1. PICK i \in inflight : Publish({i}) /\ silent' = silent \cup {i}
        BY <2>4 DEF CommitReplyLost
      <3> QED
        BY <2>2, <2>4, <3>1 DEF CommitReplyLost, IInv, Types
    <2>5. CASE Wake
      BY <2>5 DEF Wake, IInv, Types, feed, FeedTypeOK
    <2> QED
      BY <2>1, <2>3, <2>4, <2>5 DEF Writer
  <1>3. checkpoint' \in [All -> {0} \cup visible']
    BY <1>1, <1>2 DEF IInv, Types
  <1>4. Types'
    BY <1>1, <1>2, <1>3 DEF IInv, Types
  <1>5. ManagerOK' /\ RebuildOK'
    BY <1>1, <1>2 DEF IInv, ManagerOK, RebuildOK, Cur
  <1> QED
    BY <1>4, <1>5 DEF IInv

(* A step of the manager: nothing that was applied is lost.                 *)
LEMMA ManagerInv ==
    ASSUME IInv, UNCHANGED <<last, inflight, visible, owed, silent, rb, crashes, rebuilds>>,
           wake' \in BOOLEAN, mgr' \in Manager, ManagerOK',
           checkpoint' \in [All -> {0} \cup visible], applied' \in [All -> [Ids -> 0..2]],
           \A q \in All : \A k \in Ids : applied[q][k] <= applied'[q][k]
    PROVE  IInv'
  <1>1. Types'
    BY DEF IInv, Types, FeedTypeOK
  <1>2. RebuildOK'
    <2>1. ASSUME rb.pc \in {"replay", "complete"}, NEW i \in rb.asked
          PROVE  applied'[Cur][i] > 0 \/ i \in rb.rows
      <3>1. Cur \in All
        <4>1. rb.queue \in Seq(All) /\ rb.queue # <<>>
          BY <2>1 DEF IInv, Types, Rebuilder, RebuildOK
        <4> QED
          BY <4>1 DEF Cur
      <3>2. i \in Ids
        <4>1. i \in visible /\ last \in Nat /\ last <= MaxEvents
          BY <2>1, VisibleFacts DEF IInv, Types, RebuildOK
        <4>2. i \in 1..last
          BY <4>1, VisibleFacts DEF IInv, Types
        <4> QED
          BY <4>1, <4>2, ProjectionsAssumption DEF Ids
      <3>3. applied[Cur][i] > 0 \/ i \in rb.rows
        BY <2>1 DEF IInv, RebuildOK
      <3>4. applied[Cur][i] \in 0..2 /\ applied'[Cur][i] \in 0..2
        BY <3>1, <3>2 DEF IInv, Types
      <3> QED
        BY <3>1, <3>2, <3>3, <3>4
    <2> QED
      BY <2>1 DEF IInv, RebuildOK, Cur
  <1> QED
    BY <1>1, <1>2 DEF IInv

(* What the manager is about to apply or has applied is in the read models. *)
LEMMA HeadFacts ==
    ASSUME IInv, mgr.pc \in Fetched
    PROVE  /\ Min(mgr.batch) \in visible /\ Min(mgr.batch) \in mgr.batch /\ Min(mgr.batch) \in Ids
           /\ mgr.cur \in All /\ mgr.batch \in SUBSET Nat /\ mgr \in Manager
           /\ \A b \in mgr.batch : Min(mgr.batch) <= b
  <1>1. mgr.batch # {} /\ mgr.batch \subseteq visible /\ mgr.batch \in SUBSET Nat
        /\ mgr.cur \in All /\ mgr \in Manager
    BY DEF IInv, ManagerOK, Types, Manager, Fetched, Working
  <1>2. Min(mgr.batch) \in mgr.batch /\ \A b \in mgr.batch : Min(mgr.batch) <= b
    BY <1>1, MinIsLeast
  <1>3. Min(mgr.batch) \in 1..last /\ last \in Nat /\ last <= MaxEvents
    BY <1>1, <1>2, VisibleFacts DEF IInv, Types
  <1>4. Min(mgr.batch) \in Ids
    BY <1>3, ProjectionsAssumption DEF Ids
  <1> QED
    BY <1>1, <1>2, <1>4

(* The checkpoint moves to an event of the ledger.                          *)
LEMMA CheckpointFacts ==
    ASSUME Types, NEW p \in All, NEW i \in {0} \cup visible,
           checkpoint' = [checkpoint EXCEPT ![p] = i]
    PROVE  /\ checkpoint' \in [All -> {0} \cup visible] /\ checkpoint'[p] = i
           /\ \A q \in All \ {p} : checkpoint'[q] = checkpoint[q]
  BY DEF Types

(* The steps of a cycle.                                                    *)
LEMMA CycleInv ==
    ASSUME IInv, Cycle \/ Timer \/ WokenUp
    PROVE  IInv'
  <1>0. /\ Types /\ mgr \in Manager /\ checkpoint \in [All -> {0} \cup visible]
        /\ applied \in [All -> [Ids -> 0..2]] /\ wake \in BOOLEAN
        /\ \A q \in All : \A k \in Ids : applied[q][k] <= applied[q][k]
    <2>1. \A q \in All : \A k \in Ids : applied[q][k] \in 0..2
      BY DEF IInv, Types
    <2> QED
      BY <2>1 DEF IInv, Types
  <1>1. CASE PickProjection
    <2>1. mgr' \in Manager /\ mgr'.pc = "fetch" /\ mgr'.cur \in All
      BY <1>0, <1>1, PickFacts DEF Manager
    <2>2. ManagerOK'
      BY <2>1 DEF ManagerOK, Working, Fetched
    <2> QED
      BY <1>0, <1>1, <2>1, <2>2, ManagerInv DEF PickProjection, feed, write, budget
  <1>2. CASE FetchEvents
    <2>1. mgr.from \in Nat /\ NewEvents(mgr.from) \subseteq visible /\ mgr.cur \in All
      <3>1. mgr.from \in Nat
        BY <1>0 DEF Manager
      <3> QED
        BY <1>0, <1>2, <3>1, BatchFacts DEF IInv, Types, ManagerOK, Working, FetchEvents
    <2>2. mgr' \in Manager /\ ManagerOK'
      BY <1>0, <1>2, <2>1, FetchFacts DEF FetchEvents, feed, ManagerOK, Working, Fetched
    <2> QED
      BY <1>0, <1>2, <2>2, ManagerInv DEF FetchEvents, feed, write, budget
  <1>3. CASE ReadFails
    <2>1. mgr' \in Manager /\ mgr'.pc = "pick"
      BY <1>0, <1>3, ReadFailsFacts
    <2>2. ManagerOK'
      BY <2>1 DEF ManagerOK, Working, Fetched
    <2> QED
      BY <1>0, <1>3, <2>1, <2>2, ManagerInv DEF ReadFails, feed, write, budget
  <1>4. ASSUME mgr.pc \in Fetched PROVE AfterEvent(mgr) \in Manager
               /\ (mgr' = AfterEvent(mgr) /\ visible' = visible => ManagerOK')
    <2>1. mgr.batch # {} /\ mgr.batch \subseteq visible /\ mgr.cur \in All
      BY <1>4, HeadFacts DEF IInv, ManagerOK
    <2>2. AfterEvent(mgr) \in Manager
          /\ \/ AfterEvent(mgr).pc = "pick"
             \/ /\ AfterEvent(mgr).pc = "handle" /\ AfterEvent(mgr).cur = mgr.cur
                /\ AfterEvent(mgr).batch = mgr.batch \ {Min(mgr.batch)} /\ AfterEvent(mgr).batch # {}
      BY <1>0, <2>1, AfterEventFacts
    <2>3. ASSUME mgr' = AfterEvent(mgr), visible' = visible PROVE ManagerOK'
      BY <2>1, <2>2, <2>3 DEF ManagerOK, Working, Fetched
    <2> QED
      BY <2>2, <2>3
  <1>5. CASE HandleTx
    <2>1. mgr.pc \in Fetched
      BY <1>5 DEF HandleTx, Fetched
    <2>2. mgr' \in Manager /\ ManagerOK' /\ UNCHANGED <<last, inflight, visible, owed, silent, wake,
                                                       rb, crashes, rebuilds>>
      BY <1>4, <1>5, <2>1 DEF HandleTx, feed, write, budget
    <2>3. checkpoint' \in [All -> {0} \cup visible]
      BY <1>0, <1>5, <2>1, HeadFacts, CheckpointFacts DEF HandleTx
    <2>4. Apply(mgr.cur, Min(mgr.batch))
      BY <1>5 DEF HandleTx
    <2>5. applied' \in [All -> [Ids -> 0..2]]
          /\ \A q \in All : \A k \in Ids : applied[q][k] <= applied'[q][k]
      BY <1>0, <2>1, <2>4, HeadFacts, ApplyFacts
    <2> QED
      BY <1>0, <2>2, <2>3, <2>5, ManagerInv
  <1>6. CASE Handle
    <2>1. mgr.pc \in Fetched
      BY <1>6 DEF Handle, Fetched
    <2>2. UNCHANGED <<last, inflight, visible, owed, silent, wake, checkpoint, rb, crashes, rebuilds>>
      BY <1>6 DEF Handle, feed, write, budget
    <2>3. mgr' = [mgr EXCEPT !.pc = "checkpoint"] /\ Apply(mgr.cur, Min(mgr.batch))
      BY <1>6 DEF Handle
    <2>4. mgr' \in Manager /\ mgr'.pc = "checkpoint" /\ mgr'.cur = mgr.cur /\ mgr'.batch = mgr.batch
      BY <1>0, <2>3 DEF Manager
    <2>5. ManagerOK'
      BY <2>1, <2>2, <2>4 DEF IInv, ManagerOK, Working, Fetched
    <2>6. applied' \in [All -> [Ids -> 0..2]]
          /\ \A q \in All : \A k \in Ids : applied[q][k] <= applied'[q][k]
      BY <1>0, <2>1, <2>3, HeadFacts, ApplyFacts
    <2> QED
      BY <1>0, <2>2, <2>4, <2>5, <2>6, ManagerInv
  <1>7. CASE HandleFails
    <2>1. mgr' \in Manager /\ mgr'.pc = "pick"
      BY <1>0, <1>7, AfterFailureFacts DEF HandleFails
    <2>2. ManagerOK'
      BY <2>1 DEF ManagerOK, Working, Fetched
    <2> QED
      BY <1>0, <1>7, <2>1, <2>2, ManagerInv DEF HandleFails, feed, write, budget
  <1>8. CASE CommitCheckpoint \/ CheckpointFails
    <2>1. mgr.pc \in Fetched
      BY <1>8 DEF CommitCheckpoint, CheckpointFails, Fetched
    <2>2. mgr' \in Manager /\ ManagerOK' /\ UNCHANGED <<last, inflight, visible, owed, silent, wake,
                                                       applied, rb, crashes, rebuilds>>
      BY <1>4, <1>8, <2>1 DEF CommitCheckpoint, CheckpointFails, feed, write, budget
    <2>3. checkpoint' \in [All -> {0} \cup visible]
      BY <1>0, <1>8, <2>1, HeadFacts, CheckpointFacts DEF CommitCheckpoint, CheckpointFails
    <2> QED
      BY <1>0, <2>2, <2>3, ManagerInv
  <1>9. CASE Sleep
    <2>1. mgr' \in Manager /\ mgr'.pc = "sleep"
      BY <1>0, <1>9, SleepFacts
    <2>2. ManagerOK'
      BY <2>1 DEF ManagerOK, Working, Fetched
    <2> QED
      BY <1>0, <1>9, <2>1, <2>2, ManagerInv DEF Sleep, feed, write, budget
  <1>10. CASE Timer \/ WokenUp
    <2>1. mgr' \in Manager /\ mgr'.pc = "pick"
      BY <1>10, StartFacts DEF Timer, WokenUp
    <2>2. ManagerOK'
      BY <2>1 DEF ManagerOK, Working, Fetched
    <2>3. UNCHANGED <<last, inflight, visible, owed, silent, checkpoint, applied, rb, crashes, rebuilds>>
          /\ wake' \in BOOLEAN
      BY <1>0, <1>10 DEF Timer, WokenUp, feed, write, budget
    <2> QED
      BY <1>0, <2>1, <2>2, <2>3, ManagerInv
  <1> QED
    BY <1>1, <1>2, <1>3, <1>5, <1>6, <1>7, <1>8, <1>9, <1>10 DEF Cycle

(* A rebuild under way has a read model to rebuild.                         *)
LEMMA CurFacts ==
    ASSUME IInv, rb.pc # "none"
    PROVE  /\ rb \in Rebuilder /\ rb.queue \in Seq(All) /\ rb.queue # <<>> /\ Cur \in All
           /\ rebuilds > 0
  <1>1. rb \in Rebuilder /\ rb.queue \in Seq(All) /\ rb.queue # <<>> /\ rebuilds > 0
    BY DEF IInv, Types, Rebuilder, RebuildOK
  <1> QED
    BY <1>1 DEF Cur

(* A step of the rebuild leaves the manager alone.                          *)
LEMMA RebuilderInv ==
    ASSUME IInv, UNCHANGED <<last, inflight, visible, owed, wake, silent, mgr, crashes>>,
           rebuilds' \in Nat, rebuilds' <= MaxRebuilds,
           rb' \in Rebuilder, RebuildOK',
           checkpoint' \in [All -> {0} \cup visible], applied' \in [All -> [Ids -> 0..2]]
    PROVE  IInv'
  <1>1. Types'
    BY DEF IInv, Types, FeedTypeOK
  <1>2. ManagerOK'
    BY DEF IInv, ManagerOK
  <1> QED
    BY <1>1, <1>2 DEF IInv

(* A rebuild is admitted.                                                   *)
LEMMA BeginInv == ASSUME IInv, BeginRebuild PROVE IInv'
  <1>1. \E q \in Seq(All), v \in BOOLEAN, pc \in {"start", "verifyAll"} :
           /\ q # <<>>
           /\ rb' = [pc |-> pc, queue |-> q, verify |-> v, rows |-> {}, asked |-> {}, max |-> 0]
    <2>1. ASSUME NEW p \in All,
                 rb' = [NoRebuild EXCEPT !.pc = "start", !.queue = <<p>>, !.verify = TRUE]
          PROVE  <1>1
      <3>1. <<p>> \in Seq(All) /\ <<p>> # <<>>
        OBVIOUS
      <3>2. rb' = [pc |-> "start", queue |-> <<p>>, verify |-> TRUE, rows |-> {}, asked |-> {},
                   max |-> 0]
        BY <2>1 DEF NoRebuild
      <3> QED
        BY <3>1, <3>2
    <2>2. ASSUME NEW order \in SetToSeqs(All),
                 rb' = [NoRebuild EXCEPT !.pc = "verifyAll", !.queue = order]
          PROVE  <1>1
      <3>1. Cardinality(All) \in Nat /\ Cardinality(All) # 0
        BY ProjectionsAssumption, FS_CardinalityType, FS_EmptySet
      <3>2. order \in [1..Cardinality(All) -> All]
        BY DEF SetToSeqs
      <3>3. order \in Seq(All) /\ Len(order) = Cardinality(All)
        BY <3>1, <3>2
      <3>4. order # <<>>
        BY <3>1, <3>3
      <3>5. rb' = [pc |-> "verifyAll", queue |-> order, verify |-> FALSE, rows |-> {}, asked |-> {},
                   max |-> 0]
        BY <2>2 DEF NoRebuild
      <3> QED
        BY <3>3, <3>4, <3>5
    <2> QED
      BY <2>1, <2>2 DEF BeginRebuild
  <1>2. PICK q \in Seq(All), v \in BOOLEAN, pc \in {"start", "verifyAll"} :
           /\ q # <<>>
           /\ rb' = [pc |-> pc, queue |-> q, verify |-> v, rows |-> {}, asked |-> {}, max |-> 0]
    BY <1>1
  <1>4. rb' \in Rebuilder /\ rb'.pc = pc /\ rb'.queue = q
    BY <1>2 DEF Rebuilder
  <1>5. rebuilds \in Nat /\ rebuilds' = rebuilds + 1 /\ rebuilds' <= MaxRebuilds
    <2>1. rebuilds \in Nat /\ MaxRebuilds \in Nat
      BY ProjectionsAssumption DEF IInv, Types
    <2>2. rebuilds < MaxRebuilds /\ rebuilds' = rebuilds + 1
      BY DEF BeginRebuild
    <2> QED
      BY <2>1, <2>2
  <1>6. RebuildOK'
    BY <1>2, <1>4, <1>5 DEF RebuildOK
  <1>7. UNCHANGED <<last, inflight, visible, owed, wake, silent, checkpoint, applied, mgr, crashes>>
    BY DEF BeginRebuild, feed, write
  <1>8. checkpoint' \in [All -> {0} \cup visible] /\ applied' \in [All -> [Ids -> 0..2]]
    BY <1>7 DEF IInv, Types
  <1>9. rebuilds' \in Nat
    BY <1>5
  <1> QED
    BY <1>4, <1>5, <1>6, <1>7, <1>8, <1>9, RebuilderInv

(* It ends, or goes on to a step that has replayed nothing yet.             *)
LEMMA StageInv ==
    ASSUME IInv, UNCHANGED <<feed, write, mgr, budget>>,
           checkpoint' \in [All -> {0} \cup visible], applied' \in [All -> [Ids -> 0..2]],
           \/ rb' = NoRebuild
           \/ \E pc \in {"start", "verify", "clear", "query"} :
                 rb.pc # "none" /\ rb' = [rb EXCEPT !.pc = pc]
    PROVE  IInv'
  <1>1. rb' \in Rebuilder /\ RebuildOK'
    <2>1. CASE rb' = NoRebuild
      BY <2>1 DEF NoRebuild, Rebuilder, RebuildOK
    <2>2. ASSUME NEW pc \in {"start", "verify", "clear", "query"}, rb.pc # "none",
                 rb' = [rb EXCEPT !.pc = pc]
          PROVE  <1>1
      <3>1. rb' \in Rebuilder /\ rb'.pc = pc /\ rb'.queue = rb.queue
        BY <2>2, CurFacts DEF Rebuilder
      <3> QED
        BY <2>2, <3>1, CurFacts DEF RebuildOK, budget
    <2> QED
      BY <2>1, <2>2
  <1> QED
    BY <1>1, RebuilderInv DEF feed, write, budget, IInv, Types

(* The ledger is queried.                                                   *)
LEMMA QueryInv == ASSUME IInv, QueryLedger PROVE IInv'
  <1>1. rb.pc # "none" /\ rb' = [rb EXCEPT !.pc = "replay", !.rows = visible, !.asked = visible]
        /\ UNCHANGED <<feed, write, checkpoint, applied, mgr, budget>>
    BY DEF QueryLedger
  <1>2. visible \in SUBSET Nat
    BY VisibleFacts DEF IInv, Types
  <1>3. rb' \in Rebuilder /\ rb'.pc = "replay" /\ rb'.rows = visible /\ rb'.asked = visible
        /\ rb'.queue = rb.queue
    BY <1>1, <1>2, CurFacts DEF Rebuilder
  <1>4. RebuildOK'
    BY <1>1, <1>3, CurFacts DEF RebuildOK, Cur, feed, budget
  <1> QED
    BY <1>1, <1>3, <1>4, RebuilderInv DEF feed, write, budget, IInv, Types

(* An event is replayed, the first of those that are left.                  *)
LEMMA ReplayInv == ASSUME IInv, Replay PROVE IInv'
  <1>1. CASE rb' = NoRebuild /\ UNCHANGED applied
    BY <1>1, StageInv DEF Replay, IInv, Types
  <1>2. CASE Apply(Cur, Min(rb.rows)) /\ rb' = [rb EXCEPT !.rows = rb.rows \ {Min(rb.rows)}]
    <2> DEFINE i == Min(rb.rows)
               s == rb.rows \ {i}
    <2>1. rb.pc = "replay" /\ rb.rows # {} /\ UNCHANGED <<feed, write, checkpoint, mgr, budget>>
      BY DEF Replay
    <2>2. rb.rows \in SUBSET Nat /\ rb.rows \subseteq visible
      BY <2>1, CurFacts DEF IInv, RebuildOK, Rebuilder
    <2>3. i \in rb.rows
      BY <2>1, <2>2, MinIsLeast
    <2>4. visible \subseteq Ids
      <3>1. visible \subseteq 1..last /\ last \in Nat /\ last <= MaxEvents
        BY VisibleFacts DEF IInv, Types
      <3> QED
        BY <3>1, ProjectionsAssumption DEF Ids
    <2>5. s \in SUBSET Nat /\ s \subseteq visible /\ rb.rows = s \cup {i}
      BY <2>2, <2>3
    <2> HIDE DEF s, i
    <2>6. Apply(Cur, i) /\ rb' = [rb EXCEPT !.rows = s] /\ Cur \in All /\ rb \in Rebuilder
      BY <1>2, <2>1, CurFacts DEF i, s
    <2>7. rb' \in Rebuilder /\ rb'.pc = "replay" /\ rb'.rows = s /\ rb'.asked = rb.asked
          /\ rb'.queue = rb.queue
      BY <2>1, <2>5, <2>6 DEF Rebuilder
    <2>8. /\ applied' \in [All -> [Ids -> 0..2]] /\ applied'[Cur][i] > 0
          /\ \A k \in Ids : applied[Cur][k] <= applied'[Cur][k]
      BY <2>2, <2>3, <2>4, <2>6, ApplyFacts DEF IInv, Types
    <2>9. RebuildOK'
      <3>1. ASSUME NEW k \in rb.asked PROVE applied'[Cur][k] > 0 \/ k \in s
        <4>1. k \in Ids /\ (applied[Cur][k] > 0 \/ k \in rb.rows)
          BY <2>1, <2>4 DEF IInv, RebuildOK
        <4>2. applied[Cur][k] \in 0..2 /\ applied'[Cur][k] \in 0..2
          BY <2>6, <2>8, <4>1 DEF IInv, Types
        <4> QED
          BY <2>5, <2>8, <4>1, <4>2
      <3>2. Cur' = Cur
        BY <2>7 DEF Cur
      <3>3. rb.queue # <<>> /\ rebuilds > 0 /\ rb.asked \subseteq visible /\ visible' = visible
            /\ rebuilds' = rebuilds
        BY <2>1 DEF IInv, RebuildOK, feed, budget
      <3> QED
        BY <2>5, <2>7, <3>1, <3>2, <3>3 DEF RebuildOK
    <2> QED
      BY <2>1, <2>7, <2>8, <2>9, RebuilderInv DEF feed, write, budget, IInv, Types
  <1> QED
    BY <1>1, <1>2 DEF Replay, AfterError

(* Everything is replayed: the greatest id of the ledger is read.           *)
LEMMA ReadMaxInv == ASSUME IInv, ReadMaxId PROVE IInv'
  <1> DEFINE m == Max({0} \cup visible)
  <1>1. m \in {0} \cup visible /\ m \in Nat
    <2>1. {0} \cup visible \in SUBSET (0..last) /\ last \in Nat
      BY VisibleFacts DEF IInv, Types
    <2>2. m \in {0} \cup visible
      BY <2>1, MaxIsThere
    <2> QED
      BY <2>1, <2>2
  <1>2. rb.pc = "replay" /\ rb.rows = {} /\ rb' = [rb EXCEPT !.pc = "complete", !.max = m]
        /\ UNCHANGED <<feed, write, checkpoint, applied, mgr, budget>>
    BY DEF ReadMaxId
  <1> HIDE DEF m
  <1>3. rb' \in Rebuilder /\ rb'.pc = "complete" /\ rb'.max = m /\ rb'.rows = rb.rows
        /\ rb'.asked = rb.asked /\ rb'.queue = rb.queue
    BY <1>1, <1>2, CurFacts DEF Rebuilder
  <1>4. RebuildOK'
    BY <1>1, <1>2, <1>3 DEF IInv, RebuildOK, Cur, feed, budget
  <1> QED
    BY <1>2, <1>3, <1>4, RebuilderInv DEF feed, write, budget, IInv, Types

(* A queue of two or more is not empty when the first has left it.          *)
LEMMA TailFacts ==
    ASSUME NEW S, NEW q \in Seq(S), q # <<>>, Len(q) # 1
    PROVE  Tail(q) \in Seq(S) /\ Tail(q) # <<>>
  <1>1. Len(q) \in Nat /\ Len(q) # 0
    OBVIOUS
  <1>2. Tail(q) \in Seq(S) /\ Len(Tail(q)) = Len(q) - 1
    OBVIOUS
  <1>3. Len(Tail(q)) # 0
    BY <1>1, <1>2
  <1>4. Len(<<>>) = 0
    OBVIOUS
  <1>5. Tail(q) # <<>>
    BY <1>3, <1>4
  <1> QED
    BY <1>2, <1>5

(* The rebuild is complete: the next read model, if there is one.           *)
LEMMA CompleteInv == ASSUME IInv, MarkRebuildComplete PROVE IInv'
  <1>1. rb.pc = "complete" /\ checkpoint' = [checkpoint EXCEPT ![Cur] = rb.max]
        /\ UNCHANGED <<feed, write, applied, mgr, budget>>
    BY DEF MarkRebuildComplete, CompleteCheckpoint
  <1>2. Cur \in All /\ rb.max \in {0} \cup visible /\ rb.queue \in Seq(All) /\ rb.queue # <<>>
        /\ rb \in Rebuilder /\ rebuilds > 0
    BY <1>1, CurFacts DEF IInv, RebuildOK
  <1>3. checkpoint' \in [All -> {0} \cup visible]
    BY <1>1, <1>2, CheckpointFacts DEF IInv
  <1>4. CASE rb' = NoRebuild
    BY <1>1, <1>3, <1>4, StageInv DEF IInv, Types
  <1>5. CASE /\ Len(rb.queue) # 1
             /\ rb' = [rb EXCEPT !.pc = "start", !.queue = Tail(rb.queue), !.asked = {}, !.max = 0]
    <2> DEFINE q == Tail(rb.queue)
    <2>1. q \in Seq(All) /\ q # <<>>
      BY <1>2, <1>5, TailFacts
    <2> HIDE DEF q
    <2>4. rb' = [rb EXCEPT !.pc = "start", !.queue = q, !.asked = {}, !.max = 0]
      BY <1>5 DEF q
    <2>5. rb' \in Rebuilder
      BY <1>2, <2>1, <2>4 DEF Rebuilder
    <2>6. rb'.pc = "start" /\ rb'.queue = q
      BY <1>2, <2>4 DEF Rebuilder
    <2>7. RebuildOK'
      BY <1>1, <1>2, <2>1, <2>6 DEF RebuildOK, budget
    <2> QED
      BY <1>1, <1>3, <2>5, <2>7, RebuilderInv DEF feed, write, budget, IInv, Types
  <1> QED
    BY <1>4, <1>5 DEF MarkRebuildComplete

(* The steps of a rebuild.                                                  *)
LEMMA RebuildInv == ASSUME IInv, Rebuild PROVE IInv'
  <1>0. checkpoint \in [All -> {0} \cup visible] /\ applied \in [All -> [Ids -> 0..2]]
    BY DEF IInv, Types
  <1>1. CASE VerifyAll \/ VerifyLedger
    BY <1>0, <1>1, StageInv DEF VerifyAll, VerifyLedger
  <1>2. CASE MarkRebuildStart
    <2>1. rb.pc # "none" /\ checkpoint' = [checkpoint EXCEPT ![Cur] = 0]
      BY <1>2 DEF MarkRebuildStart, StartCheckpoint
    <2>2. checkpoint' \in [All -> {0} \cup visible]
      BY <1>0, <2>1
    <2>3. \E pc \in {"verify", "clear"} : rb' = [rb EXCEPT !.pc = pc]
      BY <1>2 DEF MarkRebuildStart
    <2> QED
      BY <1>0, <1>2, <2>1, <2>2, <2>3, StageInv DEF MarkRebuildStart
  <1>3. CASE Clear
    <2>1. rb.pc # "none" /\ applied' = [applied EXCEPT ![Cur] = Nothing]
      BY <1>3 DEF Clear, Nothing
    <2>2. Nothing \in [Ids -> 0..2]
      BY DEF Nothing
    <2>3. applied' \in [All -> [Ids -> 0..2]]
      BY <1>0, <2>1, <2>2
    <2> QED
      BY <1>0, <1>3, <2>1, <2>3, StageInv DEF Clear
  <1> QED
    BY <1>1, <1>2, <1>3, QueryInv, ReplayInv, ReadMaxInv, CompleteInv DEF Rebuild

(* The server starts again.                                                 *)
LEMMA CrashInv == ASSUME IInv, Crash PROVE IInv'
  <1>1. /\ inflight' = {} /\ last' = last /\ visible' = visible /\ silent' = silent
        /\ owed' = 0 /\ wake' = FALSE /\ mgr' = StartOfCycle /\ rb' = NoRebuild
        /\ checkpoint' = checkpoint /\ applied' = applied /\ rebuilds' = rebuilds
        /\ crashes' = crashes + 1
    BY DEF Crash
  <1>2. mgr' \in Manager /\ mgr'.pc = "pick"
    BY <1>1, StartFacts
  <1>3. rb' \in Rebuilder /\ rb'.pc = "none"
    BY <1>1 DEF NoRebuild, Rebuilder
  <1>4. FeedTypeOK'
    BY <1>1 DEF IInv, Types, FeedTypeOK
  <1>5. wake' \in BOOLEAN /\ owed' \in Nat
    BY <1>1
  <1>6. Types'
    BY <1>1, <1>2, <1>3, <1>4, <1>5 DEF IInv, Types
  <1>7. ManagerOK' /\ RebuildOK'
    BY <1>2, <1>3 DEF ManagerOK, RebuildOK, Working, Fetched
  <1> QED
    BY <1>6, <1>7 DEF IInv

(* Every step keeps it.                                                     *)
LEMMA InvNext == ASSUME IInv, [Next]_vars PROVE IInv'
  <1>1. CASE UNCHANGED vars
    <2>1. UNCHANGED <<last, inflight, visible, owed, wake, silent, checkpoint, applied, mgr, rb,
                      crashes, rebuilds>>
      BY <1>1 DEF vars, feed, write, budget
    <2> QED
      BY <2>1 DEF IInv, Types, FeedTypeOK, ManagerOK, RebuildOK, Cur
  <1> QED
    BY <1>1, WriterInv, CycleInv, BeginInv, RebuildInv, CrashInv DEF Next

-----------------------------------------------------------------------------
(* Where nothing is rebuilt, checkpoints and read models agree              *)

\* What is fetched is what comes after the checkpoint.
FromOK == mgr.pc = "fetch" => mgr.from = checkpoint[mgr.cur]

\* A transactional projection has counted what its checkpoint has passed.
CountedOK ==
    /\ \A p \in Transactional : \A i \in Ids :
          applied[p][i] <= 1 /\ (applied[p][i] > 0 => i <= checkpoint[p])
    /\ mgr.pc = "handle" /\ mgr.cur \in Transactional =>
          \A b \in mgr.batch : checkpoint[mgr.cur] < b
    /\ mgr.pc = "checkpoint" => mgr.cur \in Plain

\* Ids that are to come are later, so that what a checkpoint or an event of the batch
\* has before it has been applied.
OrderOK ==
    /\ \A i \in visible, j \in inflight : i < j
    /\ \A p \in All : \A i \in visible : i <= checkpoint[p] => applied[p][i] > 0
    /\ mgr.pc \in Fetched => \A b \in mgr.batch : \A i \in visible :
          i < b /\ i \notin mgr.batch => applied[mgr.cur][i] > 0
    /\ mgr.pc = "checkpoint" => applied[mgr.cur][Min(mgr.batch)] > 0

\* The projections that have had their turn in a cycle in which nothing was processed.
Over(p) ==
    \/ mgr.pc = "sleep" /\ mgr.slow
    \/ mgr.pc = "pick" /\ ~mgr.processed /\ p \notin mgr.todo
    \/ mgr.pc \in Working /\ ~mgr.processed /\ p \notin mgr.todo /\ p # mgr.cur

Drained(p) == \A i \in visible \ silent : i <= checkpoint[p]

DrainedOK ==
    wake \/ owed > 0 \/ \A p \in All : Over(p) => p \in mgr.unread \/ Drained(p)

(* Nothing is being rebuilt.                                                *)
LEMMA QuietFacts ==
    ASSUME IInv, MaxRebuilds = 0
    PROVE  rb.pc = "none" /\ ~BeginRebuild /\ ~Rebuild
  <1>1. rebuilds = 0
    BY DEF IInv, Types
  <1>2. rb.pc = "none"
    BY <1>1 DEF IInv, RebuildOK
  <1> QED
    BY <1>1, <1>2
    DEF BeginRebuild, Rebuild, VerifyAll, MarkRebuildStart, VerifyLedger, Clear, QueryLedger,
        Replay, ReadMaxId, MarkRebuildComplete

(* The steps that are neither the manager's nor a rebuild's.                *)
Aside == Writer \/ Crash

(* They leave checkpoints and read models alone.                            *)
LEMMA AsideFacts ==
    ASSUME Aside
    PROVE  /\ checkpoint' = checkpoint /\ applied' = applied /\ visible \subseteq visible'
           /\ mgr' = mgr \/ mgr' = StartOfCycle
  BY DEF Aside, Writer, AppendEvent, CommitEvent, CommitReplyLost, Wake, Crash, Assign, Publish,
         feed

(* The manager reads from the checkpoint.                                   *)
LEMMA FromNext ==
    ASSUME IInv, FromOK, MaxRebuilds = 0, [Next]_vars PROVE FromOK'
  <1>1. CASE Aside
    <2>1. StartOfCycle.pc = "pick"
      BY StartFacts
    <2> QED
      BY <1>1, <2>1, AsideFacts DEF FromOK
  <1>2. CASE UNCHANGED vars
    BY <1>2 DEF vars, FromOK
  <1>3. CASE PickProjection
    BY <1>3, PickFacts DEF PickProjection, FromOK, IInv
  <1>4. CASE FetchEvents \/ ReadFails
    BY <1>4, FetchFacts, ReadFailsFacts DEF FromOK, IInv
  <1>5. CASE HandleTx \/ CommitCheckpoint \/ CheckpointFails
    <2>1. mgr.pc \in Fetched /\ mgr' = AfterEvent(mgr)
      BY <1>5 DEF HandleTx, CommitCheckpoint, CheckpointFails, Fetched
    <2> QED
      BY <2>1, HeadFacts, AfterEventFacts DEF FromOK
  <1>6. CASE Handle
    <2>1. mgr'.pc = "checkpoint"
      BY <1>6 DEF Handle, IInv, Types, Manager
    <2> QED
      BY <2>1 DEF FromOK
  <1>7. CASE HandleFails
    BY <1>7, AfterFailureFacts DEF HandleFails, FromOK, IInv, Types
  <1>8. CASE Sleep
    BY <1>8, SleepFacts DEF FromOK, IInv
  <1>9. CASE Timer \/ WokenUp
    BY <1>9, StartFacts DEF Timer, WokenUp, FromOK
  <1> QED
    BY <1>1, <1>2, <1>3, <1>4, <1>5, <1>6, <1>7, <1>8, <1>9, QuietFacts DEF Next, Cycle, Aside

(* An event counts once: its transaction moves the checkpoint past it.      *)
LEMMA CountedNext ==
    ASSUME IInv, FromOK, CountedOK, MaxRebuilds = 0, [Next]_vars PROVE CountedOK'
  <1>0. /\ mgr \in Manager /\ applied \in [All -> [Ids -> 0..2]]
        /\ checkpoint \in [All -> {0} \cup visible] /\ \A i \in visible : i \in Nat
    BY VisibleFacts DEF IInv, Types
  <1>1. ASSUME checkpoint' = checkpoint, applied' = applied,
               mgr'.pc \notin Fetched
        PROVE  CountedOK'
    BY <1>1 DEF CountedOK, Fetched
  <1>2. CASE Aside
    <2>1. CASE mgr' = mgr
      BY <1>2, <2>1, AsideFacts DEF CountedOK
    <2>2. CASE mgr' = StartOfCycle
      BY <1>1, <1>2, <2>2, AsideFacts, StartFacts DEF Fetched
    <2> QED
      BY <1>2, <2>1, <2>2, AsideFacts
  <1>3. CASE UNCHANGED vars
    BY <1>3 DEF vars, CountedOK
  <1>4. CASE PickProjection
    BY <1>1, <1>4, PickFacts DEF PickProjection, Fetched, IInv
  <1>5. CASE ReadFails \/ Sleep \/ Timer \/ WokenUp
    <2>1. mgr'.pc \notin Fetched
      BY <1>5, ReadFailsFacts, SleepFacts, StartFacts DEF Timer, WokenUp, Fetched, IInv
    <2> QED
      BY <1>1, <1>5, <2>1 DEF ReadFails, Sleep, Timer, WokenUp
  <1>6. CASE HandleFails
    BY <1>0, <1>1, <1>6, AfterFailureFacts DEF HandleFails, Fetched
  <1>7. CASE FetchEvents
    <2>1. CASE mgr'.pc = "pick"
      BY <1>1, <1>7, <2>1 DEF FetchEvents, Fetched
    <2>2. CASE mgr'.pc = "handle" /\ mgr'.cur = mgr.cur /\ mgr'.batch = NewEvents(mgr.from)
      <3>1. mgr.from \in Nat /\ mgr.from = checkpoint[mgr.cur]
        BY <1>0, <1>7 DEF FetchEvents, FromOK, Manager
      <3>2. \A b \in mgr'.batch : checkpoint[mgr.cur] < b
        BY <1>0, <2>2, <3>1, BatchFacts DEF IInv, Types
      <3> QED
        BY <1>7, <2>2, <3>2 DEF FetchEvents, CountedOK
    <2> QED
      BY <1>7, <2>1, <2>2, FetchFacts DEF IInv
  <1>8. CASE Handle
    <2>1. mgr.pc \in Fetched /\ mgr.cur \in Plain /\ Apply(mgr.cur, Min(mgr.batch))
          /\ checkpoint' = checkpoint /\ mgr' = [mgr EXCEPT !.pc = "checkpoint"]
      BY <1>8 DEF Handle, Fetched
    <2>2. mgr'.pc = "checkpoint" /\ mgr'.cur = mgr.cur
      BY <1>0, <2>1 DEF Manager
    <2>3. \A p \in Transactional : p # mgr.cur /\ p \in All
      BY <2>1, ProjectionsAssumption DEF All
    <2>4. \A p \in Transactional : \A i \in Ids : applied'[p][i] = applied[p][i]
      BY <1>0, <2>1, <2>3, HeadFacts, ApplyFacts
    <2> QED
      BY <2>1, <2>2, <2>4 DEF CountedOK
  <1>9. CASE CommitCheckpoint \/ CheckpointFails
    <2>1. mgr.pc = "checkpoint" /\ mgr.pc \in Fetched /\ mgr' = AfterEvent(mgr) /\ applied' = applied
      BY <1>9 DEF CommitCheckpoint, CheckpointFails, Fetched
    <2>2. mgr.cur \in Plain
      BY <2>1 DEF CountedOK
    <2>3. \A p \in Transactional : p # mgr.cur /\ p \in All
      BY <2>2, ProjectionsAssumption DEF All
    <2>4. \A p \in Transactional : checkpoint'[p] = checkpoint[p]
      BY <1>0, <1>9, <2>3 DEF CommitCheckpoint, CheckpointFails
    <2>5. mgr'.pc = "pick" \/ (mgr'.pc = "handle" /\ mgr'.cur = mgr.cur)
      BY <1>0, <2>1, HeadFacts, AfterEventFacts
    <2>6. ~(mgr.cur \in Transactional)
      BY <2>2, ProjectionsAssumption
    <2> QED
      BY <2>1, <2>4, <2>5, <2>6 DEF CountedOK
  <1>10. CASE HandleTx
    <2> DEFINE p == mgr.cur
               i == Min(mgr.batch)
    <2>1. mgr.pc = "handle" /\ mgr.pc \in Fetched /\ p \in Transactional /\ Apply(p, i)
          /\ checkpoint' = [checkpoint EXCEPT ![p] = i] /\ mgr' = AfterEvent(mgr)
      BY <1>10 DEF HandleTx, Fetched
    <2>2. /\ i \in visible /\ i \in mgr.batch /\ i \in Ids /\ i \in Nat /\ p \in All
          /\ mgr.batch \in SUBSET Nat /\ mgr.batch # {} /\ \A b \in mgr.batch : i <= b
      BY <1>0, <2>1, HeadFacts
    <2>3. \/ mgr'.pc = "pick"
          \/ mgr'.pc = "handle" /\ mgr'.cur = p /\ mgr'.batch = mgr.batch \ {i}
      BY <1>0, <2>1, <2>2, AfterEventFacts
    <2>4. p \notin Plain
      BY <2>1, ProjectionsAssumption
    <2> HIDE DEF p, i
    <2>5. checkpoint[p] < i /\ checkpoint[p] \in Nat
      <3>1. checkpoint[p] \in {0} \cup visible
        BY <1>0, <2>2
      <3>2. \A b \in mgr.batch : checkpoint[p] < b
        BY <2>1 DEF CountedOK, p
      <3>3. checkpoint[p] \in Nat
        BY <1>0, <3>1
      <3> QED
        BY <2>2, <3>2, <3>3
    <2>6. applied[p][i] = 0
      <3>1. applied[p][i] \in 0..2
        BY <1>0, <2>2
      <3> QED
        BY <2>1, <2>2, <2>5, <3>1 DEF CountedOK
    <2>7. /\ applied'[p][i] = 1
          /\ \A q \in All : \A k \in Ids : q # p \/ k # i => applied'[q][k] = applied[q][k]
      BY <1>0, <2>1, <2>2, <2>6, ApplyFacts
    <2>8. checkpoint'[p] = i /\ \A q \in All \ {p} : checkpoint'[q] = checkpoint[q]
      BY <1>0, <2>1, <2>2
    <2>9. ASSUME NEW q \in Transactional, NEW k \in Ids
          PROVE  applied'[q][k] <= 1 /\ (applied'[q][k] > 0 => k <= checkpoint'[q])
      <3>0. q \in All /\ k \in Nat
        BY ProjectionsAssumption DEF All, Ids
      <3>1. CASE q # p
        BY <2>7, <2>8, <2>9, <3>0, <3>1 DEF CountedOK
      <3>2. CASE q = p /\ k = i
        BY <2>2, <2>7, <2>8, <3>2
      <3>3. CASE q = p /\ k # i
        <4>1. applied'[q][k] = applied[q][k] /\ checkpoint'[q] = i
          BY <2>7, <2>8, <3>0, <3>3
        <4>2. applied[q][k] <= 1 /\ (applied[q][k] > 0 => k <= checkpoint[p])
          BY <2>9, <3>3 DEF CountedOK
        <4> QED
          BY <2>2, <2>5, <3>0, <4>1, <4>2
      <3> QED
        BY <3>1, <3>2, <3>3
    <2>10. mgr'.pc = "handle" => \A b \in mgr'.batch : checkpoint'[mgr'.cur] < b
      BY <2>2, <2>3, <2>8
    <2>11. mgr'.pc # "checkpoint"
      BY <2>3
    <2> QED
      BY <2>9, <2>10, <2>11 DEF CountedOK
  <1> QED
    BY <1>2, <1>3, <1>4, <1>5, <1>6, <1>7, <1>8, <1>9, <1>10, QuietFacts DEF Next, Cycle, Aside

(* Nothing older than what has been committed is still to come.             *)
LEMMA InOrder ==
    ASSUME IInv, OrderOK, ~OutOfOrder, Writer \/ Crash
    PROVE  /\ \A i \in visible', j \in inflight' : i < j
           /\ \A i \in visible' \ visible : \A k \in visible : k < i
  <1>0. last \in Nat /\ inflight \subseteq 1..last /\ visible \subseteq 1..last
    BY DEF IInv, Types, FeedTypeOK
  <1>1. CASE AppendEvent
    <2>1. inflight' = inflight \cup {last + 1} /\ visible' = visible
      BY <1>1 DEF AppendEvent, Assign
    <2> QED
      BY <1>0, <2>1 DEF OrderOK
  <1>2. CASE CommitEvent \/ CommitReplyLost
    <2>1. PICK i \in inflight : MayCommit(i) /\ Publish({i})
      BY <1>2 DEF CommitEvent, CommitReplyLost
    <2>2. inflight' = inflight \ {i} /\ visible' = visible \cup {i}
          /\ \A j \in inflight : i <= j
      BY <2>1 DEF MayCommit, Publish
    <2> QED
      BY <1>0, <2>2 DEF OrderOK
  <1>3. CASE Wake
    BY <1>3 DEF Wake, feed, OrderOK
  <1>4. CASE Crash
    BY <1>4 DEF Crash
  <1> QED
    BY <1>1, <1>2, <1>3, <1>4 DEF Writer

(* An event that has been applied, and every checkpoint that passes it.     *)
LEMMA OrderKept ==
    ASSUME IInv, OrderOK, NEW p \in All, NEW m \in visible,
           UNCHANGED feed, mgr' \in Manager,
           \A q \in All : \A k \in Ids : applied[q][k] > 0 => applied'[q][k] > 0,
           \A i \in visible : i <= m => applied'[p][i] > 0,
           \A q \in All : checkpoint'[q] = checkpoint[q] \/ (q = p /\ checkpoint'[q] = m),
           mgr'.pc \in Fetched => \A b \in mgr'.batch : \A i \in visible :
               i < b /\ i \notin mgr'.batch => applied'[mgr'.cur][i] > 0,
           mgr'.pc = "checkpoint" => applied'[mgr'.cur][Min(mgr'.batch)] > 0
    PROVE  OrderOK'
  <1>1. visible' = visible /\ inflight' = inflight
    BY DEF feed
  <1>2. visible \subseteq Ids
    BY ProjectionsAssumption, VisibleFacts DEF IInv, Types, Ids
  <1>3. ASSUME NEW q \in All, NEW i \in visible, i <= checkpoint'[q]
        PROVE  applied'[q][i] > 0
    BY <1>2, <1>3 DEF OrderOK
  <1>4. \A q \in All : \A i \in visible' : i <= checkpoint'[q] => applied'[q][i] > 0
    BY <1>1, <1>3
  <1>5. \A i \in visible', j \in inflight' : i < j
    BY <1>1 DEF OrderOK
  <1>6. mgr'.pc \in Fetched => \A b \in mgr'.batch : \A i \in visible' :
            i < b /\ i \notin mgr'.batch => applied'[mgr'.cur][i] > 0
    BY <1>1
  <1> QED
    BY <1>4, <1>5, <1>6 DEF OrderOK

(* Nothing moves but the manager.                                           *)
LEMMA OrderStays ==
    ASSUME IInv, OrderOK, UNCHANGED <<feed, checkpoint, applied>>,
           mgr'.pc \in Fetched =>
               mgr'.pc = mgr.pc /\ mgr'.cur = mgr.cur /\ mgr'.batch = mgr.batch
    PROVE  OrderOK'
  BY DEF OrderOK, feed, Fetched

(* Where ids commit in order, no checkpoint passes what was not applied.    *)
LEMMA OrderNext ==
    ASSUME IInv, FromOK, OrderOK, MaxRebuilds = 0, ~OutOfOrder, [Next]_vars PROVE OrderOK'
  <1>0. /\ mgr \in Manager /\ applied \in [All -> [Ids -> 0..2]]
        /\ checkpoint \in [All -> {0} \cup visible] /\ \A i \in visible : i \in Nat
        /\ visible \subseteq Ids
    BY ProjectionsAssumption, VisibleFacts DEF IInv, Types, Ids
  <1>1. CASE Aside
    <2>1. /\ \A i \in visible', j \in inflight' : i < j
          /\ \A i \in visible' \ visible : \A k \in visible : k < i
      BY <1>1, InOrder DEF Aside
    <2>2. checkpoint' = checkpoint /\ applied' = applied /\ visible \subseteq visible'
          /\ (mgr' = mgr \/ mgr' = StartOfCycle)
      BY <1>1, AsideFacts
    <2>3. visible' \subseteq Nat
      <3>1. IInv'
        BY <1>1, InvNext DEF Aside, Next
      <3> QED
        BY <3>1 DEF IInv, Types, FeedTypeOK
    <2>4. ASSUME NEW i \in visible' \ visible, NEW k \in {0} \cup visible
          PROVE  ~(i <= k)
      <3>1. CASE k = 0
        <4>1. IInv'
          BY <1>1, InvNext DEF Aside, Next
        <4>2. i > 0
          BY <4>1 DEF IInv, Types, FeedTypeOK
        <4> QED
          BY <2>3, <3>1, <4>2
      <3>2. CASE k \in visible
        BY <1>0, <2>1, <2>3, <3>2
      <3> QED
        BY <3>1, <3>2
    <2>5. ASSUME NEW p \in All, NEW i \in visible', i <= checkpoint'[p]
          PROVE  applied'[p][i] > 0
      <3>1. checkpoint[p] \in {0} \cup visible
        BY <1>0
      <3>2. i \in visible
        BY <2>2, <2>4, <2>5, <3>1
      <3> QED
        BY <2>2, <2>5, <3>2 DEF OrderOK
    <2>6. ASSUME mgr'.pc \in Fetched, NEW b \in mgr'.batch, NEW i \in visible', i < b,
                 i \notin mgr'.batch
          PROVE  applied'[mgr'.cur][i] > 0
      <3>1. mgr' = mgr
        BY <2>2, <2>6, StartFacts DEF Fetched
      <3>2. b \in visible
        BY <2>6, <3>1 DEF IInv, ManagerOK
      <3>3. i \in visible
        <4>1. i \in Nat /\ b \in Nat
          BY <1>0, <2>3, <3>2
        <4> QED
          BY <2>1, <2>6, <3>2, <4>1
      <3> QED
        BY <2>2, <2>6, <3>1, <3>3 DEF OrderOK
    <2>7. mgr'.pc = "checkpoint" => applied'[mgr'.cur][Min(mgr'.batch)] > 0
      <3>1. CASE mgr' = mgr
        BY <2>2, <3>1 DEF OrderOK
      <3>2. CASE mgr' = StartOfCycle
        BY <3>2, StartFacts
      <3> QED
        BY <2>2, <3>1, <3>2
    <2> QED
      BY <2>1, <2>5, <2>6, <2>7 DEF OrderOK
  <1>2. CASE UNCHANGED vars
    BY <1>2, OrderStays DEF vars
  <1>3. CASE PickProjection \/ ReadFails \/ Sleep \/ Timer \/ WokenUp
    <2>1. mgr'.pc \notin Fetched
      BY <1>3, PickFacts, ReadFailsFacts, SleepFacts, StartFacts
      DEF Timer, WokenUp, Fetched, IInv
    <2> QED
      BY <1>3, <2>1, OrderStays DEF PickProjection, ReadFails, Sleep, Timer, WokenUp
  <1>4. CASE HandleFails
    <2>1. mgr'.pc \notin Fetched
      BY <1>0, <1>4, AfterFailureFacts DEF HandleFails, Fetched
    <2> QED
      BY <1>4, <2>1, OrderStays DEF HandleFails
  <1>5. CASE FetchEvents
    <2>1. CASE mgr'.pc = "pick"
      BY <1>5, <2>1, OrderStays DEF FetchEvents, Fetched
    <2>2. CASE mgr'.pc = "handle" /\ mgr'.cur = mgr.cur /\ mgr'.batch = NewEvents(mgr.from)
      <3>1. mgr.pc = "fetch" /\ UNCHANGED <<feed, checkpoint, applied>>
        BY <1>5 DEF FetchEvents
      <3>2. mgr.from \in Nat /\ mgr.from = checkpoint[mgr.cur] /\ mgr.cur \in All
        BY <1>0, <3>1 DEF FromOK, Manager, IInv, ManagerOK, Working
      <3>3. ASSUME NEW b \in mgr'.batch, NEW i \in visible, i < b, i \notin mgr'.batch
            PROVE  applied[mgr.cur][i] > 0
        <4>1. ~(i > mgr.from) /\ i \in Nat
          BY <1>0, <2>2, <3>2, <3>3, BatchFacts DEF IInv, Types
        <4> QED
          BY <3>2, <4>1 DEF OrderOK
      <3> QED
        BY <2>2, <3>1, <3>3 DEF OrderOK, feed
    <2> QED
      BY <1>5, <2>1, <2>2, FetchFacts DEF IInv
  <1>6. ASSUME mgr.pc \in Fetched
        PROVE  \A i \in visible : i < Min(mgr.batch) => applied[mgr.cur][i] > 0
    <2>1. Min(mgr.batch) \in mgr.batch /\ Min(mgr.batch) \in Nat
          /\ \A b \in mgr.batch : Min(mgr.batch) <= b
      BY <1>0, <1>6, HeadFacts
    <2> QED
      BY <1>0, <1>6, <2>1 DEF OrderOK
  <1>7. ASSUME mgr.pc \in Fetched, mgr' = AfterEvent(mgr), UNCHANGED feed,
               \A q \in All : \A k \in Ids : applied[q][k] > 0 => applied'[q][k] > 0,
               applied'[mgr.cur][Min(mgr.batch)] > 0,
               \A q \in All : \/ checkpoint'[q] = checkpoint[q]
                              \/ (q = mgr.cur /\ checkpoint'[q] = Min(mgr.batch))
        PROVE  OrderOK'
    <2> DEFINE p == mgr.cur
               m == Min(mgr.batch)
    <2>1. p \in All /\ m \in visible /\ mgr.batch # {} /\ m \in Nat
      BY <1>0, <1>7, HeadFacts DEF IInv, ManagerOK
    <2>2. AfterEvent(mgr) \in Manager
      BY <1>0, <2>1, AfterEventFacts
    <2>3. \/ mgr'.pc = "pick"
          \/ mgr'.pc = "handle" /\ mgr'.cur = p /\ mgr'.batch = mgr.batch \ {m}
      BY <1>0, <1>7, <2>1, AfterEventFacts
    <2>4. \A i \in visible : i < m => applied[p][i] > 0
      BY <1>6, <1>7
    <2>5. ASSUME NEW i \in visible, i <= m PROVE applied'[p][i] > 0
      <3> HIDE DEF p, m
      <3>1. i = m \/ i < m
        BY <1>0, <2>1, <2>5
      <3>2. CASE i < m
        BY <1>0, <1>7, <2>1, <2>4, <3>2
      <3>3. CASE i = m
        BY <1>7, <3>3 DEF p, m
      <3> QED
        BY <3>1, <3>2, <3>3
    <2>6. ASSUME mgr'.pc \in Fetched, NEW b \in mgr'.batch, NEW i \in visible, i < b,
                 i \notin mgr'.batch
          PROVE  applied'[mgr'.cur][i] > 0
      <3>1. mgr'.cur = p /\ mgr'.batch = mgr.batch \ {m}
        BY <2>3, <2>6 DEF Fetched
      <3>2. CASE i = m
        BY <1>7, <3>1, <3>2
      <3>3. CASE i # m
        <4>1. applied[p][i] > 0
          BY <1>7, <2>6, <3>1, <3>3 DEF OrderOK
        <4> QED
          BY <1>0, <1>7, <2>1, <3>1, <4>1
      <3> QED
        BY <3>2, <3>3
    <2>7. mgr'.pc # "checkpoint"
      BY <2>3
    <2>8. \A q \in All : checkpoint'[q] = checkpoint[q] \/ (q = p /\ checkpoint'[q] = m)
      BY <1>7
    <2> HIDE DEF p, m
    <2> QED
      BY <1>7, <2>1, <2>2, <2>5, <2>6, <2>7, <2>8, OrderKept
  <1>8. ASSUME mgr.pc \in Fetched
        PROVE  Min(mgr.batch) \in Ids /\ mgr.cur \in All /\ Min(mgr.batch) \in visible
    BY <1>8, HeadFacts
  <1>9. ASSUME mgr.pc \in Fetched, Apply(mgr.cur, Min(mgr.batch))
        PROVE  /\ applied'[mgr.cur][Min(mgr.batch)] > 0
               /\ \A q \in All : \A k \in Ids : applied[q][k] > 0 => applied'[q][k] > 0
    <2>1. /\ applied' \in [All -> [Ids -> 0..2]] /\ applied'[mgr.cur][Min(mgr.batch)] > 0
          /\ \A q \in All : \A k \in Ids : applied[q][k] <= applied'[q][k]
      BY <1>0, <1>8, <1>9, ApplyFacts
    <2>2. \A q \in All : \A k \in Ids : applied[q][k] \in 0..2 /\ applied'[q][k] \in 0..2
      BY <1>0, <2>1
    <2> QED
      BY <2>1, <2>2
  <1>10. CASE HandleTx
    <2>1. mgr.pc \in Fetched /\ Apply(mgr.cur, Min(mgr.batch)) /\ mgr' = AfterEvent(mgr)
          /\ checkpoint' = [checkpoint EXCEPT ![mgr.cur] = Min(mgr.batch)] /\ UNCHANGED feed
      BY <1>10 DEF HandleTx, Fetched
    <2>2. \A q \in All : \/ checkpoint'[q] = checkpoint[q]
                         \/ (q = mgr.cur /\ checkpoint'[q] = Min(mgr.batch))
      BY <1>0, <1>8, <2>1
    <2> QED
      BY <1>7, <1>9, <2>1, <2>2
  <1>11. CASE CommitCheckpoint \/ CheckpointFails
    <2>1. mgr.pc = "checkpoint" /\ mgr.pc \in Fetched /\ mgr' = AfterEvent(mgr)
          /\ applied' = applied /\ UNCHANGED feed
      BY <1>11 DEF CommitCheckpoint, CheckpointFails, Fetched
    <2>2. \A q \in All : \/ checkpoint'[q] = checkpoint[q]
                         \/ (q = mgr.cur /\ checkpoint'[q] = Min(mgr.batch))
      BY <1>0, <1>8, <1>11, <2>1 DEF CommitCheckpoint, CheckpointFails
    <2>3. applied'[mgr.cur][Min(mgr.batch)] > 0
      BY <2>1 DEF OrderOK
    <2> QED
      BY <1>7, <2>1, <2>2, <2>3
  <1>12. CASE Handle
    <2>1. mgr.pc \in Fetched /\ Apply(mgr.cur, Min(mgr.batch)) /\ UNCHANGED <<feed, checkpoint>>
          /\ mgr' = [mgr EXCEPT !.pc = "checkpoint"]
      BY <1>12 DEF Handle, Fetched
    <2>2. mgr'.pc = "checkpoint" /\ mgr'.cur = mgr.cur /\ mgr'.batch = mgr.batch
      BY <1>0, <2>1 DEF Manager
    <2>3. \A q \in All : \A k \in Ids : applied[q][k] > 0 => applied'[q][k] > 0
      BY <1>9, <2>1
    <2>4. ASSUME NEW q \in All, NEW i \in visible, i <= checkpoint[q]
          PROVE  applied'[q][i] > 0
      BY <1>0, <2>3, <2>4 DEF OrderOK
    <2>5. ASSUME NEW b \in mgr.batch, NEW i \in visible, i < b, i \notin mgr.batch
          PROVE  applied'[mgr.cur][i] > 0
      BY <1>0, <1>8, <2>1, <2>3, <2>5 DEF OrderOK
    <2>6. applied'[mgr'.cur][Min(mgr'.batch)] > 0
      BY <1>9, <2>1, <2>2
    <2> QED
      BY <2>1, <2>2, <2>4, <2>5, <2>6 DEF OrderOK, feed
  <1> QED
    BY <1>1, <1>2, <1>3, <1>4, <1>5, <1>10, <1>11, <1>12, QuietFacts DEF Next, Cycle, Aside

(* A projection that has not had its turn owes nothing.                     *)
LEMMA DrainedStays ==
    ASSUME DrainedOK, UNCHANGED <<wake, owed, visible, silent>>,
           mgr.unread \subseteq mgr'.unread,
           \A p \in All : Over(p)' =>
               \/ Over(p) /\ checkpoint'[p] = checkpoint[p]
               \/ p \in mgr'.unread
               \/ Drained(p)'
    PROVE  DrainedOK'
  <1> SUFFICES ASSUME ~wake, ~(owed > 0), NEW p \in All, Over(p)', p \notin mgr'.unread
               PROVE  Drained(p)'
    BY DEF DrainedOK
  <1>1. CASE Over(p) /\ checkpoint'[p] = checkpoint[p]
    BY <1>1 DEF DrainedOK, Drained
  <1> QED
    BY <1>1

(* What the last cycle found drained is drained until a wake-up is due.     *)
LEMMA DrainedNext ==
    ASSUME IInv, FromOK, DrainedOK, MaxRebuilds = 0, [Next]_vars PROVE DrainedOK'
  <1>0. mgr \in Manager /\ checkpoint \in [All -> {0} \cup visible] /\ owed \in Nat
        /\ \A i \in visible : i \in Nat
    BY VisibleFacts DEF IInv, Types
  <1>1. ASSUME mgr' = StartOfCycle PROVE DrainedOK'
    <2>1. \A p \in All : ~Over(p)'
      BY <1>1, StartFacts DEF Over, Working
    <2> QED
      BY <2>1 DEF DrainedOK
  <1>2. ASSUME mgr'.pc = "pick", mgr'.processed PROVE DrainedOK'
    <2>1. \A p \in All : ~Over(p)'
      BY <1>2 DEF Over, Working
    <2> QED
      BY <2>1 DEF DrainedOK
  <1>3. CASE AppendEvent \/ UNCHANGED vars
    <2>1. UNCHANGED <<wake, owed, visible, silent, mgr, checkpoint>>
      BY <1>3 DEF AppendEvent, Assign, write, vars, feed
    <2> QED
      BY <2>1 DEF DrainedOK, Over, Drained
  <1>4. CASE CommitEvent
    <2>1. owed' = owed + 1
      BY <1>4 DEF CommitEvent
    <2> QED
      BY <1>0, <2>1 DEF DrainedOK
  <1>5. CASE CommitReplyLost
    <2>1. PICK i \in inflight : Publish({i}) /\ silent' = silent \cup {i}
      BY <1>5 DEF CommitReplyLost
    <2>2. visible' \ silent' \subseteq visible \ silent
          /\ UNCHANGED <<wake, owed, mgr, checkpoint>>
      BY <1>5, <2>1 DEF CommitReplyLost, Publish
    <2> QED
      BY <2>2 DEF DrainedOK, Over, Drained
  <1>6. CASE Wake
    BY <1>6 DEF Wake, DrainedOK
  <1>7. CASE Crash \/ Timer \/ WokenUp
    BY <1>1, <1>7 DEF Crash, Timer, WokenUp
  <1>8. CASE PickProjection
    <2>1. UNCHANGED <<wake, owed, visible, silent, checkpoint>>
      BY <1>8 DEF PickProjection, feed, write
    <2>2. /\ mgr'.pc = "fetch" /\ mgr'.todo = mgr.todo \ {mgr'.cur} /\ mgr.pc = "pick"
          /\ mgr'.processed = mgr.processed /\ mgr'.unread = mgr.unread
      BY <1>8, PickFacts DEF IInv
    <2>3. \A p \in All : Over(p)' => Over(p)
      BY <2>2 DEF Over, Working
    <2> QED
      BY <2>1, <2>2, <2>3, DrainedStays
  <1>9. CASE FetchEvents
    <2>1. UNCHANGED <<wake, owed, visible, silent, checkpoint>>
      BY <1>9 DEF FetchEvents, feed, write
    <2>2. /\ mgr.pc = "fetch" /\ mgr'.todo = mgr.todo /\ mgr'.processed = mgr.processed
          /\ mgr'.unread = mgr.unread
          /\ \/ mgr'.pc = "pick" /\ NewEvents(mgr.from) = {}
             \/ mgr'.pc = "handle" /\ mgr'.cur = mgr.cur
      BY <1>9, FetchFacts DEF IInv
    <2>3. ASSUME NewEvents(mgr.from) = {}
          PROVE  \A i \in visible' \ silent' : i <= checkpoint'[mgr.cur]
      <3>1. mgr.from = checkpoint[mgr.cur] /\ mgr.from \in Nat
        BY <1>0, <2>2 DEF FromOK, Manager
      <3>2. \A i \in visible : i <= checkpoint[mgr.cur]
        BY <2>3, <3>1, BatchFacts DEF IInv, Types
      <3> QED
        BY <2>1, <3>2
    <2>4. ASSUME NEW p \in All, Over(p)' PROVE Over(p) \/ Drained(p)'
      <3>1. CASE mgr'.pc = "handle"
        BY <2>2, <2>4, <3>1 DEF Over, Working
      <3>2. CASE mgr'.pc = "pick" /\ p # mgr.cur
        BY <2>2, <2>4, <3>2 DEF Over, Working
      <3>3. CASE mgr'.pc = "pick" /\ p = mgr.cur
        BY <2>2, <2>3, <3>3 DEF Drained
      <3> QED
        BY <2>2, <3>1, <3>2, <3>3
    <2> QED
      BY <2>1, <2>2, <2>4, DrainedStays
  <1>10. CASE ReadFails
    <2>1. UNCHANGED <<wake, owed, visible, silent, checkpoint>>
      BY <1>10 DEF ReadFails, feed, write
    <2>2. /\ mgr.pc = "fetch" /\ mgr'.pc = "pick" /\ mgr'.todo = mgr.todo
          /\ mgr'.processed = mgr.processed /\ mgr'.unread = mgr.unread \cup {mgr.cur}
      BY <1>10, ReadFailsFacts DEF IInv
    <2>3. ASSUME NEW p \in All, Over(p)' PROVE Over(p) \/ p \in mgr'.unread
      BY <2>2, <2>3 DEF Over, Working
    <2> QED
      BY <2>1, <2>2, <2>3, DrainedStays
  <1>11. CASE HandleTx \/ CommitCheckpoint \/ CheckpointFails
    <2>1. UNCHANGED <<wake, owed, visible, silent>> /\ mgr.pc \in Fetched
          /\ mgr' = AfterEvent(mgr)
          /\ (checkpoint' = checkpoint
              \/ checkpoint' = [checkpoint EXCEPT ![mgr.cur] = Min(mgr.batch)])
      BY <1>11 DEF HandleTx, CommitCheckpoint, CheckpointFails, feed, write, Fetched
    <2>2. \A p \in All : p # mgr.cur => checkpoint'[p] = checkpoint[p]
      BY <1>0, <2>1
    <2>3. \/ mgr'.pc = "pick" /\ mgr'.processed
          \/ /\ mgr'.pc = "handle" /\ mgr'.cur = mgr.cur /\ mgr'.todo = mgr.todo
             /\ mgr'.processed = mgr.processed /\ mgr'.unread = mgr.unread
      BY <1>0, <2>1, AfterEventFacts DEF IInv, ManagerOK
    <2>4. CASE mgr'.pc = "handle"
      <3>1. \A p \in All : Over(p)' => Over(p) /\ p # mgr.cur
        BY <2>1, <2>3, <2>4 DEF Over, Working, Fetched
      <3> QED
        BY <2>1, <2>2, <2>3, <2>4, <3>1, DrainedStays
    <2> QED
      BY <1>2, <2>3, <2>4
  <1>12. CASE Handle
    <2>1. UNCHANGED <<wake, owed, visible, silent, checkpoint>>
          /\ mgr.pc = "handle" /\ mgr' = [mgr EXCEPT !.pc = "checkpoint"]
      BY <1>12 DEF Handle, feed, write
    <2>2. mgr'.pc = "checkpoint" /\ mgr'.cur = mgr.cur /\ mgr'.todo = mgr.todo
          /\ mgr'.processed = mgr.processed /\ mgr'.unread = mgr.unread
      BY <1>0, <2>1 DEF Manager
    <2>3. \A p \in All : Over(p)' => Over(p)
      BY <2>1, <2>2 DEF Over, Working
    <2> QED
      BY <2>1, <2>2, <2>3, DrainedStays
  <1>13. CASE HandleFails
    BY <1>0, <1>2, <1>13, AfterFailureFacts DEF HandleFails
  <1>14. CASE Sleep
    <2>1. UNCHANGED <<wake, owed, visible, silent, checkpoint>>
      BY <1>14 DEF Sleep, feed, write
    <2>2. /\ mgr.pc = "pick" /\ mgr.todo = {} /\ mgr'.pc = "sleep"
          /\ mgr'.slow = ~mgr.processed /\ (mgr'.slow => mgr'.unread = mgr.unread)
      BY <1>14, SleepFacts DEF IInv
    <2>3. CASE mgr'.slow
      <3>1. \A p \in All : Over(p)' => Over(p)
        BY <2>2, <2>3 DEF Over, Working
      <3> QED
        BY <2>1, <2>2, <2>3, <3>1, DrainedStays
    <2>4. CASE ~mgr'.slow
      <3>1. \A p \in All : ~Over(p)'
        BY <2>2, <2>4 DEF Over, Working
      <3> QED
        BY <3>1 DEF DrainedOK
    <2> QED
      BY <2>3, <2>4
  <1> QED
    BY <1>3, <1>4, <1>5, <1>6, <1>7, <1>8, <1>9, <1>10, <1>11, <1>12, <1>13, <1>14, QuietFacts
    DEF Next, Cycle, Writer

(* It begins that way.                                                      *)
LEMMA QuietInit == ASSUME Init PROVE FromOK /\ CountedOK /\ OrderOK /\ DrainedOK
  <1>1. mgr.pc = "pick" /\ mgr.todo = All
    BY StartFacts DEF Init
  <1>2. \A p \in All : ~Over(p)
    BY <1>1 DEF Over, Working
  <1>3. \A p \in All : \A i \in Ids : applied[p][i] = 0
    BY DEF Init
  <1>4. \A p \in Transactional : p \in All
    BY DEF All
  <1>5. visible = {} /\ inflight = {}
    BY DEF Init, FeedInit
  <1> QED
    BY <1>1, <1>2, <1>3, <1>4, <1>5 DEF FromOK, CountedOK, OrderOK, DrainedOK, Fetched

-----------------------------------------------------------------------------
(* Checkpoints name committed events, read models count events of the       *)
(* ledger, and the manager and a rebuild are where the code can be.         *)
THEOREM TypesTheorem == Spec => []TypeOK
  <1>1. IInv => TypeOK
    <2> SUFFICES ASSUME IInv PROVE TypeOK
      OBVIOUS
    <2>1. \A p \in All : checkpoint[p] \in 0..MaxEvents
      <3>1. last \in Nat /\ last <= MaxEvents /\ visible \subseteq 1..last /\ MaxEvents \in Nat
        BY ProjectionsAssumption, VisibleFacts DEF IInv, Types
      <3>2. \A p \in All : checkpoint[p] \in {0} \cup visible
        BY DEF IInv, Types
      <3>3. 0 \in 0..MaxEvents /\ visible \subseteq 0..MaxEvents
        BY <3>1
      <3> QED
        BY <3>2, <3>3
    <2>2. checkpoint \in [All -> 0..MaxEvents]
      BY <2>1 DEF IInv, Types
    <2> QED
      BY <2>2 DEF IInv, Types, TypeOK, Manager, Rebuilder
  <1> QED
    BY <1>1, InvInit, InvNext, PTL DEF Spec

(* A rebuild that is marked complete has applied every event it read from   *)
(* the ledger, whatever the manager, failures and restarts did beside it,   *)
(* and its checkpoint is a committed id.                                    *)
THEOREM CompleteRebuildTheorem == Spec => CompleteRebuildHasAll
  <1>1. ASSUME IInv, [Next]_vars
        PROVE  [MarkRebuildComplete => /\ \A i \in rb.asked : applied[Cur][i] > 0
                                       /\ checkpoint'[Cur] \in {0} \cup visible]_vars
    <2> SUFFICES ASSUME MarkRebuildComplete
                 PROVE  /\ \A i \in rb.asked : applied[Cur][i] > 0
                        /\ checkpoint'[Cur] \in {0} \cup visible
      OBVIOUS
    <2>1. rb.pc = "complete" /\ checkpoint' = [checkpoint EXCEPT ![Cur] = rb.max]
      BY DEF MarkRebuildComplete, CompleteCheckpoint
    <2>2. rb.rows = {} /\ rb.max \in {0} \cup visible
          /\ \A i \in rb.asked : applied[Cur][i] > 0 \/ i \in rb.rows
      BY <1>1, <2>1 DEF IInv, RebuildOK
    <2>3. Cur \in All
      BY <1>1, <2>1, CurFacts
    <2>4. checkpoint'[Cur] = rb.max
      BY <1>1, <2>1, <2>2, <2>3, CheckpointFacts DEF IInv
    <2> QED
      BY <2>2, <2>4
  <1> QED
    BY <1>1, InvInit, InvNext, PTL DEF Spec, CompleteRebuildHasAll

(* As long as nothing is rebuilt, a projection that keeps its checkpoint in *)
(* the transaction of the handler counts no event twice, in whatever order  *)
(* ids commit and whatever fails.                                           *)
THEOREM CountedOnceTheorem == ASSUME MaxRebuilds = 0 PROVE Spec => []CountedOnce
  <1> DEFINE Inv == IInv /\ FromOK /\ CountedOK
  <1>1. Init => Inv
    BY InvInit, QuietInit
  <1>2. Inv /\ [Next]_vars => Inv'
    BY InvNext, FromNext, CountedNext
  <1>3. Inv => CountedOnce
    BY DEF CountedOK, CountedOnce
  <1> QED
    BY <1>1, <1>2, <1>3, PTL DEF Spec

(* As long as nothing is rebuilt and ids commit in order, no checkpoint     *)
(* passes a committed event the read model has not absorbed.                *)
THEOREM NoEventSkippedTheorem ==
    ASSUME MaxRebuilds = 0, ~OutOfOrder PROVE Spec => []NoEventSkipped
  <1> DEFINE Inv == IInv /\ FromOK /\ OrderOK
  <1>1. Init => Inv
    BY InvInit, QuietInit
  <1>2. Inv /\ [Next]_vars => Inv'
    BY InvNext, FromNext, OrderNext
  <1>3. Inv => NoEventSkipped
    BY DEF OrderOK, NoEventSkipped
  <1> QED
    BY <1>1, <1>2, <1>3, PTL DEF Spec

(* As long as nothing is rebuilt, the manager lies down for long only when  *)
(* what is left is announced by a wake-up, was saved without the hook or    *)
(* could not be read.                                                       *)
THEOREM LongSleepTheorem == ASSUME MaxRebuilds = 0 PROVE Spec => []LongSleepMeansDrained
  <1> DEFINE Inv == IInv /\ FromOK /\ DrainedOK
  <1>1. Init => Inv
    BY InvInit, QuietInit
  <1>2. Inv /\ [Next]_vars => Inv'
    BY InvNext, FromNext, DrainedNext
  <1>3. Inv => LongSleepMeansDrained
    BY DEF DrainedOK, Drained, Over, LongSleepMeansDrained
  <1> QED
    BY <1>1, <1>2, <1>3, PTL DEF Spec
=============================================================================
