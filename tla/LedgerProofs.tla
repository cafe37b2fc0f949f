---------------------------- MODULE LedgerProofs ----------------------------
(***************************************************************************)
(* For every number of writers, aggregates, attempts and events: the type  *)
(* invariant of Ledger, its inductive invariant, the theorem that          *)
(* verify_hash_chain accepts every stream of the ledger, the order of ids  *)
(* within a stream, the argument for the bound on attempts, and that       *)
(* Ledger implements EventLog and IdFeed.                                  *)
(***************************************************************************)
EXTENDS MCLedger, FiniteSetTheorems, TLAPS

-----------------------------------------------------------------------------
(* What the helpers return on a chain *)

(* MAX(event_version) of a chain of n rows is n. *)
LEMMA VersionOfChain ==
    ASSUME NEW rows, NEW a, NEW n \in Nat, ChainTo(rows, a, n)
    PROVE  Version(rows, a) = n
<1>1. CASE n = 0
  <2>1. Stream(rows, a) = {}
    BY <1>1 DEF ChainTo
  <2>2. QED BY <2>1, <1>1 DEF Version
<1>2. CASE n > 0
  <2>1. PICK r \in Stream(rows, a) : r.ver = n
    BY <1>2 DEF ChainTo
  <2>2. \A s \in Stream(rows, a) : s.ver \in 1..n
    BY DEF ChainTo
  <2>3. \A s \in Stream(rows, a) : s.ver <= r.ver
    BY <2>1, <2>2
  <2>4. \A m \in Stream(rows, a) :
           (\A s \in Stream(rows, a) : s.ver <= m.ver) => m.ver = n
    BY <2>1, <2>2
  <2>5. QED BY <2>1, <2>3, <2>4 DEF Version
<1>3. QED BY <1>1, <1>2

(* The trigger's SELECT finds the hash of the last row of the chain. *)
LEMMA LatestHashOfChain ==
    ASSUME NEW rows, NEW a, NEW n \in Nat, ChainTo(rows, a, n)
    PROVE  /\ n = 0 => LatestHash(rows, a) = NoHash
           /\ n > 0 => \E r \in Stream(rows, a) :
                          r.ver = n /\ LatestHash(rows, a) = r.hash
<1>1. CASE n = 0
  <2>1. Stream(rows, a) = {}
    BY <1>1 DEF ChainTo
  <2>2. QED BY <2>1, <1>1 DEF LatestHash
<1>2. CASE n > 0
  <2> DEFINE top(m) == \A s \in Stream(rows, a) : s.ver <= m.ver
             last == CHOOSE m \in Stream(rows, a) : top(m)
  <2>1. PICK r \in Stream(rows, a) : r.ver = n
    BY <1>2 DEF ChainTo
  <2>2. \A s \in Stream(rows, a) : s.ver \in 1..n
    BY DEF ChainTo
  <2>3. top(r)
    BY <2>1, <2>2
  <2>4. last \in Stream(rows, a) /\ top(last)
    BY <2>1, <2>3
  <2>5. last.ver = n
    BY <2>1, <2>2, <2>4
  <2>6. LatestHash(rows, a) = last.hash
    BY <2>1 DEF LatestHash
  <2> HIDE DEF last
  <2>7. last \in Stream(rows, a) /\ last.ver = n /\ LatestHash(rows, a) = last.hash
    BY <2>4, <2>5, <2>6
  <2>8. QED BY <1>2, <2>7
<1>3. QED BY <1>1, <1>2

(* A row chained to the latest one makes the chain one longer. *)
LEMMA ExtendChain ==
    ASSUME NEW rows, NEW a, NEW n \in Nat, ChainTo(rows, a, n),
           NEW x, x.agg = a, x.ver = n + 1,
           x.prev = LatestHash(rows, a),
           x.hash = Hash(x.id, x.agg, x.prev)
    PROVE  ChainTo(rows \cup {x}, a, n + 1)
<1> DEFINE new == rows \cup {x}
<1>1. Stream(new, a) = Stream(rows, a) \cup {x}
  BY DEF Stream
<1>2. \A r \in Stream(rows, a) : r.ver \in 1..n
  BY DEF ChainTo
<1>3. \A r, s \in Stream(new, a) : r.ver = s.ver => r = s
  BY <1>1, <1>2 DEF ChainTo
<1>4. ASSUME NEW v \in 1..(n + 1)
      PROVE  \E r \in Stream(new, a) : r.ver = v
  <2>1. CASE v = n + 1
    BY <1>1, <2>1
  <2>2. CASE v \in 1..n
    BY <1>1, <2>2 DEF ChainTo
  <2>3. QED BY <2>1, <2>2
<1>5. ASSUME NEW r \in Stream(rows, a)
      PROVE  /\ r.ver \in 1..(n + 1)
             /\ r.hash = Hash(r.id, r.agg, r.prev)
             /\ r.ver = 1 => r.prev = NoHash
             /\ r.ver > 1 =>
                   \E s \in Stream(new, a) : s.ver = r.ver - 1 /\ s.hash = r.prev
  BY <1>1, <1>2 DEF ChainTo
<1>6. /\ x.ver = 1 => x.prev = NoHash
      /\ x.ver > 1 => \E s \in Stream(new, a) : s.ver = x.ver - 1 /\ s.hash = x.prev
  <2>1. /\ n = 0 => LatestHash(rows, a) = NoHash
        /\ n > 0 => \E s \in Stream(rows, a) : s.ver = n /\ LatestHash(rows, a) = s.hash
    BY LatestHashOfChain
  <2>2. QED BY <1>1, <2>1
<1>7. x.ver \in 1..(n + 1)
  OBVIOUS
<1>8. \A r \in Stream(new, a) :
         /\ r.ver \in 1..(n + 1)
         /\ r.hash = Hash(r.id, r.agg, r.prev)
         /\ r.ver = 1 => r.prev = NoHash
         /\ r.ver > 1 =>
               \E s \in Stream(new, a) : s.ver = r.ver - 1 /\ s.hash = r.prev
  BY <1>1, <1>5, <1>6, <1>7
<1>9. QED BY <1>3, <1>4, <1>8 DEF ChainTo

(* A chain depends on the rows of its aggregate alone. *)
LEMMA SameStream ==
    ASSUME NEW rows, NEW other, NEW a, Stream(rows, a) = Stream(other, a)
    PROVE  /\ \A n : ChainTo(rows, a, n) <=> ChainTo(other, a, n)
           /\ Version(rows, a) = Version(other, a)
BY DEF ChainTo, Version

(* Two chains over one set of rows, one of them a subset: the shorter one   *)
(* is a prefix, and when they are equally long they are the same stream.    *)
LEMMA SameLengthSameStream ==
    ASSUME NEW rows, NEW sub, NEW a, NEW n \in Nat, sub \subseteq rows,
           ChainTo(rows, a, n), ChainTo(sub, a, n)
    PROVE  Stream(rows, a) = Stream(sub, a)
<1>1. Stream(sub, a) \subseteq Stream(rows, a)
  BY DEF Stream
<1>2. ASSUME NEW r \in Stream(rows, a) PROVE r \in Stream(sub, a)
  <2>1. r.ver \in 1..n
    BY DEF ChainTo
  <2>2. PICK s \in Stream(sub, a) : s.ver = r.ver
    BY <2>1 DEF ChainTo
  <2>3. s = r
    BY <1>1, <2>2 DEF ChainTo
  <2>4. QED BY <2>2, <2>3
<1>3. QED BY <1>1, <1>2

(* The verification accepts a chain. *)
LEMMA ChainVerifies ==
    ASSUME NEW rows, NEW a, NEW n \in Nat, ChainTo(rows, a, n)
    PROVE  VerifyHashChain(rows, a)
BY DEF ChainTo, VerifyHashChain

-----------------------------------------------------------------------------
(* Type correctness *)

LEMMA InitTypeOK == Init => TypeOK
BY LedgerAssumption DEF Init, TypeOK

LEMMA ChainIsChained ==
    ASSUME NEW rows, NEW a, NEW n \in Nat, ChainTo(rows, a, n)
    PROVE  Chained(rows, a) /\ Version(rows, a) = n
BY VersionOfChain DEF Chained

(* The row an open transaction inserts next, under the invariant. *)
LEMMA NewRowOK ==
    ASSUME ChainInvariant, NEW w \in Writers, pc[w] = "tx"
    PROVE  /\ Version(snap[w], target[w]) \in Nat
           /\ Cardinality(own[w]) \in Nat
           /\ NextVersion(w) = Version(snap[w], target[w]) + Cardinality(own[w]) + 1
           /\ RowOK(NewRow(w))
           /\ NewRow(w).agg = target[w]
           /\ NewRow(w).ver = NextVersion(w)
           /\ NewRow(w).prev = LatestHash(Visible(w), target[w])
           /\ NewRow(w).hash = Hash(NewRow(w).id, NewRow(w).agg, NewRow(w).prev)
<1>1. IsFiniteSet(own[w]) /\ OwnContinuesSnapshot(w) /\ TypeOK
  BY DEF ChainInvariant
<1>2. Cardinality(own[w]) \in Nat
  BY <1>1, FS_CardinalityType
<1>3. Version(snap[w], target[w]) \in Nat
  BY <1>1 DEF OwnContinuesSnapshot, Chained
<1>4. NextVersion(w) \in Nat \ {0}
  BY <1>2, <1>3 DEF NextVersion
<1>5. Command(w) \in Commands
  BY <1>1 DEF Command, Commands, TypeOK
<1>6. RowOK(NewRow(w))
  BY <1>1, <1>4, <1>5 DEF RowOK, NewRow, TypeOK
<1>7. QED BY <1>2, <1>3, <1>6 DEF NextVersion, NewRow

(* Every step keeps the types.  Insert and the two commits are the steps    *)
(* that make rows; the others move writers between program points.          *)
LEMMA StepTypeOK == ChainInvariant /\ [Next]_vars => TypeOK'
<1> SUFFICES ASSUME ChainInvariant, [Next]_vars PROVE TypeOK'
  OBVIOUS
<1>0. TypeOK
  BY DEF ChainInvariant
<1> USE DEF TypeOK
<1>1. ASSUME NEW w \in Writers, NEW a \in Aggregates, Load(w, a) PROVE TypeOK'
  <2>1. Version(ledger, a) \in Nat
    BY DEF ChainInvariant, Chained
  <2>2. QED BY <1>0, <1>1, <2>1 DEF Load
<1>2. ASSUME NEW w \in Writers, NEW a \in Aggregates, Construct(w, a) PROVE TypeOK'
  BY <1>0, <1>2 DEF Construct
<1>3. ASSUME NEW w \in Writers, RaiseEvents(w) PROVE TypeOK'
  BY <1>0, <1>3, LedgerAssumption DEF RaiseEvents
<1>4. ASSUME NEW w \in Writers, EndRequest(w) PROVE TypeOK'
  BY <1>0, <1>4 DEF EndRequest
<1>5. ASSUME NEW w \in Writers, Begin(w) PROVE TypeOK'
  BY <1>0, <1>5 DEF Begin, command
<1>6. ASSUME NEW w \in Writers, Insert(w) PROVE TypeOK'
  <2>1. RowOK(NewRow(w))
    BY <1>6, NewRowOK DEF Insert
  <2>2. \A v \in Writers : \A r \in own'[v] : r \in own[v] \/ r = NewRow(w)
    BY <1>0, <1>6 DEF Insert
  <2>3. \A v \in Writers : \A r \in own'[v] : RowOK(r)
    BY <1>0, <2>1, <2>2
  <2>4. QED BY <1>0, <1>6, <2>3 DEF Insert, command
<1>7. ASSUME NEW w \in Writers, VersionConflict(w) PROVE TypeOK'
  BY <1>0, <1>7 DEF VersionConflict, Rollback, AfterConflict, command
<1>8. ASSUME NEW w \in Writers, SerializationFailure(w) PROVE TypeOK'
  BY <1>0, <1>8 DEF SerializationFailure, Rollback, AfterConflict, command
<1>9. ASSUME NEW w \in Writers, ConnectionLost(w) PROVE TypeOK'
  BY <1>0, <1>9 DEF ConnectionLost, Rollback, command
<1>10. ASSUME NEW w \in Writers, CommitRows(w),
              pc' = [pc EXCEPT ![w] = "saved"] \/ pc' = [pc EXCEPT ![w] = "failed"]
       PROVE  TypeOK'
  BY <1>0, <1>10 DEF CommitRows, Rollback, command
<1>11. CASE Crash
  BY <1>0, <1>11 DEF Crash
<1>12. CASE UNCHANGED vars
  BY <1>0, <1>12 DEF vars
<1>13. QED
  BY <1>1, <1>2, <1>3, <1>4, <1>5, <1>6, <1>7, <1>8, <1>9, <1>10, <1>11, <1>12
     DEF Next, Step, Save, Commit, CommitReplyLost, AfterLostReply, Respond, Refuse

-----------------------------------------------------------------------------
(* The chain invariant is inductive *)

LEMMA EmptyChain ==
    ASSUME NEW a
    PROVE  ChainTo({}, a, 0) /\ Chained({}, a)
<1>1. ChainTo({}, a, 0)
  BY DEF ChainTo, Stream
<1>2. QED BY <1>1, ChainIsChained

LEMMA InitChain == Init => ChainInvariant
<1> SUFFICES ASSUME Init PROVE ChainInvariant
  OBVIOUS
<1>1. TypeOK
  BY InitTypeOK
<1>2. \A a \in Aggregates : Chained(ledger, a)
  BY EmptyChain DEF Init
<1>3. \A w \in Writers : own[w] = {} /\ pc[w] # "tx"
  BY DEF Init
<1>4. \A w \in Writers : IsFiniteSet(own[w])
  BY <1>3, FS_EmptySet
<1>5. KeysDisjoint
  BY <1>3 DEF KeysDisjoint
<1>6. QED BY <1>1, <1>2, <1>3, <1>4, <1>5 DEF ChainInvariant

(* A step outside transactions: no row is read, written or visible anew. *)
LEMMA QuietStep ==
    ASSUME ChainInvariant, TypeOK', NEW w \in Writers,
           pc[w] # "tx", pc'[w] # "tx",
           \A v \in Writers \ {w} : pc'[v] = pc[v] /\ target'[v] = target[v],
           UNCHANGED <<ledger, snap, own>>
    PROVE  ChainInvariant'
<1>1. \A a \in Aggregates : Chained(ledger, a)'
  BY DEF ChainInvariant, Chained, ChainTo, Version, Stream
<1>2. \A v \in Writers : IsFiniteSet(own[v])'
  BY DEF ChainInvariant
<1>3. ASSUME NEW v \in Writers, pc'[v] = "tx"
      PROVE  OwnContinuesSnapshot(v)'
  <2>1. v # w /\ pc[v] = "tx" /\ target'[v] = target[v]
    BY <1>3
  <2>2. OwnContinuesSnapshot(v)
    BY <2>1 DEF ChainInvariant
  <2>3. QED
    BY <2>1, <2>2
       DEF OwnContinuesSnapshot, Chained, ChainTo, Version, Stream, Visible
<1>4. \A v \in Writers : pc'[v] # "tx" => own'[v] = {}
  BY DEF ChainInvariant
<1>5. KeysDisjoint'
  BY DEF ChainInvariant, KeysDisjoint, Key
<1>6. QED BY <1>1, <1>2, <1>3, <1>4, <1>5 DEF ChainInvariant

(* An attempt begins: the snapshot is a chain, nothing is inserted yet. *)
LEMMA BeginStep ==
    ASSUME ChainInvariant, TypeOK', NEW w \in Writers, Begin(w)
    PROVE  ChainInvariant'
<1>0. TypeOK /\ UNCHANGED <<ledger, own, target>>
  BY DEF ChainInvariant, Begin, command
<1>1. \A a \in Aggregates : Chained(ledger, a)'
  BY <1>0 DEF ChainInvariant, Chained, ChainTo, Version, Stream
<1>2. \A v \in Writers : IsFiniteSet(own[v])'
  BY <1>0 DEF ChainInvariant
<1>3. own[w] = {} /\ snap'[w] = ledger
  BY <1>0 DEF ChainInvariant, Begin, TypeOK
<1>4. OwnContinuesSnapshot(w)'
  <2>1. target[w] \in Aggregates
    BY <1>0 DEF TypeOK
  <2>2. Chained(ledger, target[w])
    BY <2>1 DEF ChainInvariant
  <2>3. Cardinality(own[w]) = 0 /\ ledger \cup own[w] = ledger
    BY <1>3, FS_EmptySet
  <2>4. Version(ledger, target[w]) + Cardinality(own[w]) = Version(ledger, target[w])
    BY <2>2, <2>3 DEF Chained
  <2>5. ChainTo(ledger \cup own[w], target[w],
                Version(ledger, target[w]) + Cardinality(own[w]))
    BY <2>2, <2>3, <2>4 DEF Chained
  <2>6. QED
    BY <1>0, <1>3, <2>2, <2>5
       DEF OwnContinuesSnapshot, Visible
<1>5. ASSUME NEW v \in Writers \ {w}, pc'[v] = "tx"
      PROVE  OwnContinuesSnapshot(v)'
  <2>1. pc[v] = "tx" /\ snap'[v] = snap[v]
    BY <1>0, <1>5 DEF Begin, TypeOK
  <2>2. OwnContinuesSnapshot(v)
    BY <2>1 DEF ChainInvariant
  <2>3. QED
    BY <1>0, <2>1, <2>2
       DEF OwnContinuesSnapshot, Visible
<1>6. \A v \in Writers : pc'[v] # "tx" => own'[v] = {}
  BY <1>0 DEF ChainInvariant, Begin, TypeOK
<1>7. KeysDisjoint'
  BY <1>0 DEF ChainInvariant, KeysDisjoint, Key
<1>8. QED BY <1>1, <1>2, <1>4, <1>5, <1>6, <1>7 DEF ChainInvariant

(* A row is inserted: it continues the chain the transaction sees, under a  *)
(* key nobody else holds.                                                   *)
LEMMA InsertStep ==
    ASSUME ChainInvariant, TypeOK', NEW w \in Writers, Insert(w)
    PROVE  ChainInvariant'
<1> DEFINE a == target[w]
           n == Version(snap[w], target[w])
           k == Cardinality(own[w])
           x == NewRow(w)
<1>0. TypeOK /\ pc[w] = "tx" /\ UNCHANGED <<ledger, pc, snap, target>>
  BY DEF ChainInvariant, Insert, command
<1>1. /\ own'[w] = own[w] \cup {x}
      /\ \A v \in Writers \ {w} : own'[v] = own[v]
  BY <1>0 DEF Insert, TypeOK
<1>2. /\ n \in Nat /\ k \in Nat /\ NextVersion(w) = n + k + 1
      /\ x.agg = a /\ x.ver = n + k + 1
      /\ x.prev = LatestHash(Visible(w), a)
      /\ x.hash = Hash(x.id, x.agg, x.prev)
  BY <1>0, NewRowOK
<1>3. OwnContinuesSnapshot(w) /\ IsFiniteSet(own[w])
  BY <1>0 DEF ChainInvariant
<1>4. ChainTo(Visible(w), a, n + k) /\ \A r \in own[w] : r.agg = a /\ r.ver > n
  BY <1>3 DEF OwnContinuesSnapshot
<1>5. x \notin own[w]
  <2>1. ASSUME NEW r \in own[w] PROVE r.ver \in 1..(n + k)
    <3>1. r \in Stream(Visible(w), a)
      BY <1>4 DEF Stream, Visible
    <3>2. QED BY <3>1, <1>4 DEF ChainTo
  <2>2. QED BY <2>1, <1>2
<1> HIDE DEF x, n, k, a
<1>6. IsFiniteSet(own'[w]) /\ Cardinality(own'[w]) = k + 1
  BY <1>1, <1>3, <1>5, FS_AddElement DEF k
<1>7. \A v \in Writers : IsFiniteSet(own'[v])
  BY <1>0, <1>1, <1>6 DEF ChainInvariant
<1>8. OwnContinuesSnapshot(w)'
  <2>1. ChainTo(Visible(w) \cup {x}, a, (n + k) + 1)
    BY <1>2, <1>4, ExtendChain
  <2>2. snap[w] \cup own'[w] = Visible(w) \cup {x}
    BY <1>1 DEF Visible
  <2>3. (n + k) + 1 = n + Cardinality(own'[w])
    BY <1>2, <1>6
  <2>4. ChainTo(snap[w] \cup own'[w], a, n + Cardinality(own'[w]))
    BY <2>1, <2>2, <2>3
  <2>5. \A r \in own'[w] : r.agg = a /\ r.ver > n
    BY <1>1, <1>2, <1>4
  <2>6. Chained(snap[w], a)
    BY <1>3 DEF OwnContinuesSnapshot, a
  <2>7. QED
    BY <1>0, <2>4, <2>5, <2>6 DEF OwnContinuesSnapshot, Visible, a, n
<1>9. ASSUME NEW v \in Writers \ {w}, pc'[v] = "tx"
      PROVE  OwnContinuesSnapshot(v)'
  <2>1. OwnContinuesSnapshot(v)
    BY <1>0, <1>9 DEF ChainInvariant
  <2>2. QED
    BY <1>0, <1>1, <2>1 DEF OwnContinuesSnapshot, Visible
<1>10. \A v \in Writers : pc'[v] # "tx" => own'[v] = {}
  BY <1>0, <1>1 DEF ChainInvariant
<1>11. KeysDisjoint'
  <2>1. KeysDisjoint
    BY DEF ChainInvariant
  <2>2. Key(x) = NextKey(w)
    BY <1>2 DEF Key, NextKey, a
  <2>3. \A s \in ledger : Key(s) # Key(x)
    BY <2>2 DEF Insert, KeyCommitted
  <2>4. \A v \in Writers \ {w} : \A s \in own[v] : Key(s) # Key(x)
    BY <2>2 DEF Insert, KeyLocked
  <2>5. \A v \in Writers : \A r \in own'[v] : \A s \in ledger : Key(s) # Key(r)
    BY <1>1, <2>1, <2>3 DEF KeysDisjoint
  <2>6. ASSUME NEW v \in Writers, NEW u \in Writers \ {v},
               NEW r \in own'[v], NEW s \in own'[u]
        PROVE  Key(s) # Key(r)
    <3>1. CASE v = w
      BY <1>1, <2>1, <2>4, <3>1 DEF KeysDisjoint
    <3>2. CASE u = w
      BY <1>1, <2>1, <2>4, <3>2 DEF KeysDisjoint
    <3>3. CASE v # w /\ u # w
      BY <1>1, <2>1, <3>3 DEF KeysDisjoint
    <3>4. QED BY <3>1, <3>2, <3>3
  <2>7. QED BY <1>0, <2>5, <2>6 DEF KeysDisjoint, Key
<1>12. \A b \in Aggregates : Chained(ledger, b)'
  BY <1>0 DEF ChainInvariant
<1>13. QED BY <1>7, <1>8, <1>9, <1>10, <1>11, <1>12 DEF ChainInvariant

(* A transaction is undone: its rows disappear, those of others stay. *)
LEMMA DropStep ==
    ASSUME ChainInvariant, TypeOK', NEW w \in Writers,
           Rollback(w), pc'[w] # "tx",
           \A v \in Writers \ {w} : pc'[v] = pc[v],
           UNCHANGED <<ledger, target>>
    PROVE  ChainInvariant'
<1>0. TypeOK
  BY DEF ChainInvariant
<1>1. /\ own'[w] = {}
      /\ \A v \in Writers \ {w} : own'[v] = own[v] /\ snap'[v] = snap[v]
  BY <1>0 DEF Rollback, TypeOK
<1>2. \A a \in Aggregates : Chained(ledger, a)'
  BY DEF ChainInvariant
<1>3. \A v \in Writers : IsFiniteSet(own[v])'
  BY <1>1, FS_EmptySet DEF ChainInvariant
<1>4. ASSUME NEW v \in Writers, pc'[v] = "tx"
      PROVE  OwnContinuesSnapshot(v)'
  <2>1. v # w /\ pc[v] = "tx"
    BY <1>4
  <2>2. OwnContinuesSnapshot(v)
    BY <2>1 DEF ChainInvariant
  <2>3. QED
    BY <1>1, <2>1, <2>2 DEF OwnContinuesSnapshot, Visible
<1>5. \A v \in Writers : pc'[v] # "tx" => own'[v] = {}
  BY <1>1 DEF ChainInvariant
<1>6. KeysDisjoint'
  BY <1>1 DEF ChainInvariant, KeysDisjoint, Key
<1>7. QED BY <1>2, <1>3, <1>4, <1>5, <1>6 DEF ChainInvariant

(* The server dies: no transaction is left, the ledger is untouched. *)
LEMMA CrashStep ==
    ASSUME ChainInvariant, TypeOK', Crash
    PROVE  ChainInvariant'
<1>1. /\ ledger' = ledger
      /\ \A w \in Writers : pc'[w] = "idle" /\ own'[w] = {}
  BY DEF Crash
<1>2. \A a \in Aggregates : Chained(ledger, a)'
  BY <1>1 DEF ChainInvariant
<1>3. \A w \in Writers : IsFiniteSet(own[w])'
  BY <1>1, FS_EmptySet
<1>4. KeysDisjoint'
  BY <1>1 DEF KeysDisjoint
<1>5. QED BY <1>1, <1>2, <1>3, <1>4 DEF ChainInvariant

(* The rows of a transaction that commits are the whole continuation of its *)
(* stream: had another transaction committed to that stream in between, one *)
(* of the keys would have been taken.                                       *)
LEMMA CommitStream ==
    ASSUME ChainInvariant, NEW w \in Writers, pc[w] = "tx", own[w] # {}
    PROVE  Stream(ledger \cup own[w], target[w]) = Stream(Visible(w), target[w])
<1> DEFINE a == target[w]
           n == Version(snap[w], a)
           m == Version(ledger, a)
           k == Cardinality(own[w])
<1>0. TypeOK /\ KeysDisjoint /\ a \in Aggregates /\ snap[w] \subseteq ledger
  BY DEF ChainInvariant, TypeOK
<1>1. OwnContinuesSnapshot(w) /\ IsFiniteSet(own[w])
  BY DEF ChainInvariant
<1>2. /\ n \in Nat /\ ChainTo(snap[w], a, n)
      /\ ChainTo(Visible(w), a, n + k)
      /\ \A r \in own[w] : r.agg = a /\ r.ver > n
  BY <1>1 DEF OwnContinuesSnapshot, Chained
<1>3. m \in Nat /\ ChainTo(ledger, a, m)
  BY <1>0 DEF ChainInvariant, Chained
<1>4. k \in Nat /\ k # 0
  BY <1>1, FS_CardinalityType, FS_EmptySet
<1> HIDE DEF n, m, k, a
<1>5. n <= m
  <2>1. CASE n = 0
    BY <2>1, <1>3
  <2>2. CASE n > 0
    <3>1. PICK r \in Stream(snap[w], a) : r.ver = n
      BY <1>2, <2>2 DEF ChainTo
    <3>2. r \in Stream(ledger, a)
      BY <1>0, <3>1 DEF Stream
    <3>3. QED BY <1>2, <1>3, <3>1, <3>2 DEF ChainTo
  <2>3. QED BY <1>2, <2>1, <2>2
<1>6. m <= n
  <2>1. SUFFICES ASSUME n < m PROVE FALSE
    BY <1>2, <1>3
  <2>2. PICK s \in Stream(ledger, a) : s.ver = n + 1
    BY <1>2, <1>3, <2>1 DEF ChainTo
  <2>3. n + 1 \in 1..(n + k)
    BY <1>2, <1>4
  <2>4. PICK r \in Stream(Visible(w), a) : r.ver = n + 1
    BY <1>2, <2>3 DEF ChainTo
  <2>5. r \notin snap[w]
    <3>1. SUFFICES ASSUME r \in snap[w] PROVE FALSE
      OBVIOUS
    <3>2. r \in Stream(snap[w], a)
      BY <2>4, <3>1 DEF Stream
    <3>3. r.ver \in 1..n
      BY <1>2, <3>2 DEF ChainTo
    <3>4. QED BY <1>2, <2>4, <3>3
  <2>6. r \in own[w] /\ r.agg = a /\ s \in ledger /\ s.agg = a
    BY <2>2, <2>4, <2>5 DEF Stream, Visible
  <2>7. Key(s) = Key(r)
    BY <2>2, <2>4, <2>6 DEF Key
  <2>8. QED BY <1>0, <2>6, <2>7 DEF KeysDisjoint
<1>7. m = n
  BY <1>2, <1>3, <1>5, <1>6
<1>8. Stream(ledger, a) = Stream(snap[w], a)
  BY <1>0, <1>2, <1>3, <1>7, SameLengthSameStream
<1>9. Stream(ledger \cup own[w], a) = Stream(Visible(w), a)
  BY <1>8 DEF Stream, Visible
<1>10. QED BY <1>9 DEF a

(* A commit: the stream it extends stays a chain, no other stream changes, *)
(* and the keys it makes permanent collide with no row still in flight.    *)
LEMMA CommitStep ==
    ASSUME ChainInvariant, TypeOK', NEW w \in Writers,
           CommitRows(w), pc'[w] # "tx",
           \A v \in Writers \ {w} : pc'[v] = pc[v]
    PROVE  ChainInvariant'
<1>0. /\ TypeOK /\ pc[w] = "tx" /\ ledger' = ledger \cup own[w]
      /\ UNCHANGED target
  BY DEF ChainInvariant, CommitRows, command
<1>1. /\ own'[w] = {}
      /\ \A v \in Writers \ {w} : own'[v] = own[v] /\ snap'[v] = snap[v]
  BY <1>0 DEF CommitRows, Rollback, TypeOK
<1>2. OwnContinuesSnapshot(w) /\ IsFiniteSet(own[w]) /\ KeysDisjoint
  BY <1>0 DEF ChainInvariant
<1>3. ASSUME NEW a \in Aggregates
      PROVE  Chained(ledger \cup own[w], a)
  <2>0. Chained(ledger, a)
    BY DEF ChainInvariant
  <2>1. CASE a = target[w] /\ own[w] # {}
    <3>1. Stream(ledger \cup own[w], a) = Stream(Visible(w), a)
      BY <1>0, <2>1, CommitStream
    <3>2. /\ Version(snap[w], a) + Cardinality(own[w]) \in Nat
          /\ ChainTo(Visible(w), a, Version(snap[w], a) + Cardinality(own[w]))
      BY <1>2, <2>1, FS_CardinalityType DEF OwnContinuesSnapshot, Chained
    <3>3. ChainTo(ledger \cup own[w], a, Version(snap[w], a) + Cardinality(own[w]))
      BY <3>1, <3>2, SameStream
    <3>4. QED BY <3>2, <3>3, ChainIsChained
  <2>2. CASE ~(a = target[w] /\ own[w] # {})
    <3>1. \A r \in own[w] : r.agg = target[w]
      BY <1>2 DEF OwnContinuesSnapshot
    <3>2. Stream(ledger \cup own[w], a) = Stream(ledger, a)
      BY <2>2, <3>1 DEF Stream
    <3>3. QED BY <2>0, <3>2, SameStream DEF Chained
  <2>3. QED BY <2>1, <2>2
<1>4. \A v \in Writers : IsFiniteSet(own[v])'
  BY <1>1, FS_EmptySet DEF ChainInvariant
<1>5. ASSUME NEW v \in Writers, pc'[v] = "tx"
      PROVE  OwnContinuesSnapshot(v)'
  <2>1. v # w /\ pc[v] = "tx"
    BY <1>5
  <2>2. OwnContinuesSnapshot(v)
    BY <2>1 DEF ChainInvariant
  <2>3. QED
    BY <1>0, <1>1, <2>1, <2>2 DEF OwnContinuesSnapshot, Visible
<1>6. \A v \in Writers : pc'[v] # "tx" => own'[v] = {}
  BY <1>1 DEF ChainInvariant
<1>7. KeysDisjoint'
  BY <1>0, <1>1, <1>2 DEF KeysDisjoint, Key
<1>8. \A a \in Aggregates : Chained(ledger, a)'
  BY <1>0, <1>3
<1>9. QED BY <1>4, <1>5, <1>6, <1>7, <1>8 DEF ChainInvariant

(* The inductive step, one case per action. *)
LEMMA StepChain == ChainInvariant /\ [Next]_vars => ChainInvariant'
<1> SUFFICES ASSUME ChainInvariant, [Next]_vars PROVE ChainInvariant'
  OBVIOUS
<1>0. TypeOK /\ TypeOK'
  BY StepTypeOK DEF ChainInvariant
<1>1. ASSUME NEW w \in Writers, NEW a \in Aggregates, Load(w, a) \/ Construct(w, a)
      PROVE  ChainInvariant'
  BY <1>0, <1>1, QuietStep DEF Load, Construct, TypeOK
<1>2. ASSUME NEW w \in Writers, RaiseEvents(w) PROVE ChainInvariant'
  BY <1>0, <1>2, QuietStep DEF RaiseEvents, TypeOK
<1>3. ASSUME NEW w \in Writers, Respond(w) \/ Refuse(w) PROVE ChainInvariant'
  BY <1>0, <1>3, QuietStep DEF Respond, Refuse, EndRequest, TypeOK
<1>4. ASSUME NEW w \in Writers, Begin(w) PROVE ChainInvariant'
  BY <1>0, <1>4, BeginStep
<1>5. ASSUME NEW w \in Writers, Insert(w) PROVE ChainInvariant'
  BY <1>0, <1>5, InsertStep
<1>6. ASSUME NEW w \in Writers, Commit(w) \/ CommitReplyLost(w)
      PROVE  ChainInvariant'
  BY <1>0, <1>6, CommitStep DEF Commit, CommitReplyLost, AfterLostReply, TypeOK
<1>7. ASSUME NEW w \in Writers,
             VersionConflict(w) \/ SerializationFailure(w) \/ ConnectionLost(w)
      PROVE  ChainInvariant'
  BY <1>0, <1>7, DropStep
     DEF VersionConflict, SerializationFailure, ConnectionLost, AfterConflict,
         command, TypeOK
<1>8. CASE Crash
  BY <1>0, <1>8, CrashStep
<1>9. CASE UNCHANGED vars
  BY <1>0, <1>9
     DEF vars, ChainInvariant, OwnContinuesSnapshot, Visible, KeysDisjoint, Key
<1>10. QED
  BY <1>1, <1>2, <1>3, <1>4, <1>5, <1>6, <1>7, <1>8, <1>9 DEF Next, Step, Save

-----------------------------------------------------------------------------
(* The order of ids *)

\* The rows a transaction inserted have ids of their own, after every id of its snapshot.
IdsOK ==
    /\ \A r \in ledger : r.id <= seq
    /\ \A w \in Writers : \A r \in own[w] : r.id <= seq
    /\ \A w \in Writers : \A r \in own[w], s \in snap[w] : s.id < r.id
    /\ \A w, v \in Writers : w # v => \A r \in own[w], s \in own[v] : r.id # s.id

\* Some transactions are undone.
Undone ==
    /\ ledger' = ledger /\ seq' \in {seq, seq + 1}
    /\ \A w \in Writers : \/ own'[w] = own[w] /\ snap'[w] = snap[w]
                          \/ own'[w] = {} /\ snap'[w] = {}

(* What the steps do to the rows.                                           *)
LEMMA RowSteps ==
    ASSUME TypeOK, [Next]_vars
    PROVE  \/ UNCHANGED <<ledger, seq, snap, own>>
           \/ \E w \in Writers : Begin(w)
           \/ \E w \in Writers : Insert(w)
           \/ \E w \in Writers : CommitRows(w)
           \/ Undone
<1>1. ASSUME NEW w \in Writers, Rollback(w), ledger' = ledger, seq' \in {seq, seq + 1}
      PROVE  Undone
  BY <1>1 DEF Undone, Rollback, TypeOK
<1>2. CASE Crash
  BY <1>2 DEF Crash, Undone
<1>3. CASE UNCHANGED vars
  BY <1>3 DEF vars
<1>4. ASSUME NEW w \in Writers, Step(w)
      PROVE  \/ UNCHANGED <<ledger, seq, snap, own>>
             \/ Begin(w) \/ Insert(w) \/ CommitRows(w) \/ Undone
  <2>1. CASE VersionConflict(w) \/ SerializationFailure(w) \/ ConnectionLost(w)
    BY <1>1, <2>1 DEF VersionConflict, SerializationFailure, ConnectionLost
  <2>2. CASE RaiseEvents(w) \/ Refuse(w) \/ Respond(w)
    BY <2>2 DEF RaiseEvents, Refuse, Respond, EndRequest
  <2>3. CASE \E a \in Aggregates : Load(w, a) \/ Construct(w, a)
    BY <2>3 DEF Load, Construct
  <2>4. CASE Commit(w) \/ CommitReplyLost(w)
    BY <2>4 DEF Commit, CommitReplyLost
  <2>5. QED BY <1>4, <2>1, <2>2, <2>3, <2>4 DEF Step, Save
<1>5. QED BY <1>2, <1>3, <1>4 DEF Next

(* A transaction begins: its snapshot is the ledger, it has no rows yet.    *)
LEMMA BeginRows ==
    ASSUME ChainInvariant, NEW w \in Writers, Begin(w)
    PROVE  /\ UNCHANGED <<ledger, seq, own, target, seen, size, handled>> /\ pc[w] = "save"
           /\ own[w] = {} /\ snap'[w] = ledger /\ pc'[w] = "tx" /\ attempt'[w] = attempt[w] + 1
           /\ \A v \in Writers \ {w} :
                 snap'[v] = snap[v] /\ pc'[v] = pc[v] /\ attempt'[v] = attempt[v]
<1>1. TypeOK
  BY DEF ChainInvariant
<1>2. QED BY <1>1 DEF Begin, command, ChainInvariant, TypeOK

(* A row is inserted.                                                       *)
LEMMA InsertRows ==
    ASSUME ChainInvariant, NEW w \in Writers, Insert(w)
    PROVE  /\ UNCHANGED <<ledger, snap, pc, target, seen, size, attempt, handled>>
           /\ pc[w] = "tx" /\ seq' = seq + 1 /\ own'[w] = own[w] \cup {NewRow(w)}
           /\ \A v \in Writers \ {w} : own'[v] = own[v]
           /\ NewRow(w).id = seq + 1 /\ NewRow(w).cmd = Command(w)
<1>1. TypeOK
  BY DEF ChainInvariant
<1>2. QED BY <1>1 DEF Insert, command, TypeOK, NewRow

(* Its rows are committed.                                                  *)
LEMMA CommittedRows ==
    ASSUME ChainInvariant, NEW w \in Writers, CommitRows(w)
    PROVE  /\ UNCHANGED <<seq, target, seen, size, attempt, handled>> /\ pc[w] = "tx"
           /\ ledger' = ledger \cup own[w] /\ own'[w] = {} /\ snap'[w] = {}
           /\ \A v \in Writers \ {w} : own'[v] = own[v] /\ snap'[v] = snap[v]
<1>1. TypeOK
  BY DEF ChainInvariant
<1>2. QED BY <1>1 DEF CommitRows, Rollback, command, TypeOK

(* Ids stay in order.                                                       *)
LEMMA IdsNext == ASSUME ChainInvariant, IdsOK, [Next]_vars PROVE IdsOK'
<1>0. TypeOK /\ seq \in Nat /\ \A w \in Writers : snap[w] \subseteq ledger
  BY DEF ChainInvariant, TypeOK
<1>1. /\ \A r \in ledger : r.id \in Nat
      /\ \A w \in Writers : \A r \in own[w] : r.id \in Nat
  BY <1>0 DEF TypeOK, RowOK
<1>2. CASE UNCHANGED <<ledger, seq, snap, own>>
  BY <1>2 DEF IdsOK
<1>3. ASSUME NEW w \in Writers, Begin(w) PROVE IdsOK'
  <2>1. /\ UNCHANGED <<ledger, seq, own>> /\ own[w] = {}
        /\ \A v \in Writers \ {w} : snap'[v] = snap[v]
    BY <1>3, BeginRows
  <2>2. \A v \in Writers : \A r \in own[v], s \in snap'[v] : s.id < r.id
    BY <2>1 DEF IdsOK
  <2>3. QED BY <2>1, <2>2 DEF IdsOK
<1>4. ASSUME NEW w \in Writers, Insert(w) PROVE IdsOK'
  <2> DEFINE x == NewRow(w)
  <2>1. /\ ledger' = ledger /\ snap' = snap /\ seq' = seq + 1 /\ own'[w] = own[w] \cup {x}
        /\ x.id = seq + 1 /\ \A v \in Writers \ {w} : own'[v] = own[v]
    BY <1>4, InsertRows
  <2> HIDE DEF x
  <2>2. ASSUME NEW v \in Writers, NEW r \in own'[v]
        PROVE  r.id <= seq + 1 /\ (r = x \/ r \in own[v]) /\ \A s \in snap[v] : s.id < r.id
    <3>1. CASE r \in own[v]
      BY <1>0, <1>1, <3>1 DEF IdsOK
    <3>2. CASE r = x
      <4>1. \A s \in snap[v] : s.id \in Nat /\ s.id <= seq
        BY <1>0, <1>1 DEF IdsOK
      <4>2. QED BY <1>0, <2>1, <3>2, <4>1
    <3>3. QED BY <2>1, <2>2, <3>1, <3>2
  <2>3. ASSUME NEW v \in Writers, NEW u \in Writers, v # u, NEW r \in own'[v], NEW s \in own'[u]
        PROVE  r.id # s.id
    <3>1. CASE v # w /\ u # w
      BY <2>1, <2>3, <3>1 DEF IdsOK
    <3>2. \A q \in Writers : \A t \in own[q] : t.id \in Nat /\ t.id <= seq
      BY <1>1 DEF IdsOK
    <3>3. CASE v = w
      <4>1. s \in own[u] /\ s.id # x.id
        BY <1>0, <2>1, <2>3, <3>2, <3>3
      <4>2. QED BY <2>1, <2>3, <3>3, <4>1 DEF IdsOK
    <3>4. CASE u = w
      <4>1. r \in own[v] /\ r.id # x.id
        BY <1>0, <2>1, <2>3, <3>2, <3>4
      <4>2. QED BY <2>1, <2>3, <3>4, <4>1 DEF IdsOK
    <3>5. QED BY <3>1, <3>3, <3>4
  <2>4. \A r \in ledger : r.id <= seq + 1
    BY <1>0, <1>1 DEF IdsOK
  <2>5. QED BY <2>1, <2>2, <2>3, <2>4 DEF IdsOK
<1>5. ASSUME NEW w \in Writers, CommitRows(w) PROVE IdsOK'
  <2>1. /\ ledger' = ledger \cup own[w] /\ seq' = seq /\ own'[w] = {}
        /\ \A v \in Writers \ {w} : own'[v] = own[v] /\ snap'[v] = snap[v]
    BY <1>5, CommittedRows
  <2>2. \A r \in ledger' : r.id <= seq
    BY <2>1 DEF IdsOK
  <2>3. \A v \in Writers : \A r \in own'[v] : v # w
    BY <2>1
  <2>4. QED BY <2>1, <2>2, <2>3 DEF IdsOK
<1>6. CASE Undone
  <2>1. \A r \in ledger' : r.id <= seq'
    BY <1>0, <1>1, <1>6 DEF IdsOK, Undone
  <2>2. \A w \in Writers : \A r \in own'[w] : r \in own[w] /\ snap'[w] = snap[w]
    BY <1>6 DEF Undone
  <2>3. \A w \in Writers : \A r \in own'[w] : r.id <= seq'
    BY <1>0, <1>1, <1>6, <2>2 DEF IdsOK, Undone
  <2>4. QED BY <2>1, <2>2, <2>3 DEF IdsOK
<1>7. QED BY <1>0, <1>2, <1>3, <1>4, <1>5, <1>6, RowSteps

(* No row is there before the first one.                                    *)
LEMMA IdsInit == ASSUME Init PROVE IdsOK
BY DEF Init, IdsOK

(* The rows a commit adds to a stream come after all that stream has.       *)
LEMMA CommitInOrder ==
    ASSUME ChainInvariant, IdsOK, NEW w \in Writers, pc[w] = "tx",
           NEW r \in own[w], NEW s \in ledger, s.agg = r.agg
    PROVE  s.id < r.id
<1>1. r.agg = target[w]
  BY DEF ChainInvariant, OwnContinuesSnapshot
<1>2. s \in Stream(ledger \cup own[w], target[w])
  BY <1>1 DEF Stream
<1>3. s \in snap[w] \cup own[w]
  BY <1>2, CommitStream DEF Stream, Visible
<1>4. s \notin own[w]
  BY DEF ChainInvariant, KeysDisjoint
<1>5. QED BY <1>3, <1>4 DEF IdsOK

-----------------------------------------------------------------------------
(* What the projection manager sees of it *)

InFlight == UNION {{r.id : r \in own[w]} : w \in Writers}
Shown == {r.id : r \in ledger}

(* Every step hands out an id, publishes one transaction or drops some.     *)
LEMMA FeedStep ==
    ASSUME ChainInvariant, IdsOK, [Next]_vars
    PROVE  \/ UNCHANGED <<seq, InFlight, Shown>>
           \/ seq' = seq + 1 /\ InFlight' = InFlight \cup {seq + 1} /\ Shown' = Shown
           \/ /\ seq' = seq
              /\ \E S \in SUBSET InFlight :
                    S # {} /\ InFlight' = InFlight \ S /\ Shown' = Shown \cup S
           \/ seq' \in {seq, seq + 1} /\ InFlight' \subseteq InFlight /\ Shown' = Shown
<1>0. TypeOK
  BY DEF ChainInvariant
<1>1. CASE UNCHANGED <<ledger, seq, snap, own>>
  BY <1>1 DEF InFlight, Shown
<1>2. ASSUME NEW w \in Writers, Begin(w) PROVE UNCHANGED <<seq, InFlight, Shown>>
  BY <1>2, BeginRows DEF InFlight, Shown
<1>3. ASSUME NEW w \in Writers, Insert(w)
      PROVE  seq' = seq + 1 /\ InFlight' = InFlight \cup {seq + 1} /\ Shown' = Shown
  <2> DEFINE x == NewRow(w)
  <2>1. /\ ledger' = ledger /\ seq' = seq + 1 /\ own'[w] = own[w] \cup {x}
        /\ x.id = seq + 1 /\ \A v \in Writers \ {w} : own'[v] = own[v]
    BY <1>3, InsertRows
  <2> HIDE DEF x
  <2>2. \A i \in InFlight' : i \in InFlight \cup {seq + 1}
    BY <2>1 DEF InFlight
  <2>3. \A i \in InFlight \cup {seq + 1} : i \in InFlight'
    BY <2>1 DEF InFlight
  <2>4. QED BY <2>1, <2>2, <2>3 DEF Shown
<1>4. ASSUME NEW w \in Writers, CommitRows(w)
      PROVE  \/ UNCHANGED <<seq, InFlight, Shown>>
             \/ /\ seq' = seq
                /\ \E S \in SUBSET InFlight :
                      S # {} /\ InFlight' = InFlight \ S /\ Shown' = Shown \cup S
  <2> DEFINE S == {r.id : r \in own[w]}
  <2>1. /\ ledger' = ledger \cup own[w] /\ seq' = seq /\ own'[w] = {}
        /\ \A v \in Writers \ {w} : own'[v] = own[v]
    BY <1>4, CommittedRows
  <2>2. S \in SUBSET InFlight
    BY DEF InFlight
  <2>3. \A i \in InFlight' : i \in InFlight /\ i \notin S
    <3>1. ASSUME NEW v \in Writers, NEW r \in own'[v] PROVE r.id \in InFlight /\ r.id \notin S
      <4>1. v # w /\ r \in own[v]
        BY <2>1, <3>1
      <4>2. QED BY <4>1 DEF InFlight, IdsOK
    <3>2. QED BY <3>1 DEF InFlight
  <2>4. \A i \in InFlight \ S : i \in InFlight'
    BY <2>1 DEF InFlight
  <2>5. InFlight' = InFlight \ S /\ Shown' = Shown \cup S
    BY <2>1, <2>3, <2>4 DEF Shown
  <2> HIDE DEF S
  <2>6. CASE S = {}
    BY <2>1, <2>5, <2>6
  <2>7. CASE S # {}
    BY <2>1, <2>2, <2>5, <2>7
  <2>8. QED BY <2>6, <2>7
<1>5. CASE Undone
  <2>1. seq' \in {seq, seq + 1} /\ \A w \in Writers : own'[w] \subseteq own[w]
    BY <1>5 DEF Undone
  <2>2. InFlight' \subseteq InFlight
    BY <2>1 DEF InFlight
  <2>3. QED BY <1>5, <2>1, <2>2 DEF Undone, Shown
<1>6. QED BY <1>0, <1>1, <1>2, <1>3, <1>4, <1>5, RowSteps

-----------------------------------------------------------------------------
(* Commands, and who overtakes them *)

\* A writer's rows are of the command in its hands, which has no rows in the ledger.
CommandsOK ==
    /\ \A w \in Writers : handled[w] <= MaxCommands /\ (pc[w] # "idle" => handled[w] > 0)
    /\ \A w \in Writers : pc[w] \in {"save", "tx"} => size[w] \in 1..MaxBatch
    /\ \A r \in ledger : r.cmd.n <= handled[r.cmd.by]
    /\ \A w \in Writers : pc[w] \in {"loaded", "save", "tx"} =>
          \A r \in ledger : r.cmd.by = w => r.cmd.n < handled[w]
    /\ \A w \in Writers : \A r \in own[w] : r.cmd.by = w /\ r.cmd.n = handled[w]

\* A snapshot has all of a batch or none, and all that its writer has saved.
BatchesOK ==
    /\ IsFiniteSet(ledger)
    /\ \A w \in Writers : \A s \in snap[w], r \in ledger : r.cmd = s.cmd => r \in snap[w]
    /\ \A w \in Writers : pc[w] = "tx" => \A r \in ledger : r.cmd.by = w => r \in snap[w]

\* The commands of other writers among some rows of the stream a writer works on.
WinnersIn(rows, w) == {r.cmd : r \in {s \in rows : s.agg = target[w] /\ s.cmd.by # w}}

\* Before an attempt, and in it, as many have won as attempts have failed.
WinnersOK ==
    \A w \in Writers \ Spurious :
        /\ pc[w] = "save" => attempt[w] <= Cardinality(WinnersIn(ledger, w))
        /\ pc[w] = "tx" => attempt[w] <= Cardinality(WinnersIn(snap[w], w)) + 1

(* A step that begins no command, inserts no row and commits none.          *)
LEMMA CommandsCalm ==
    ASSUME CommandsOK, UNCHANGED <<ledger, handled>>,
           \A w \in Writers : own'[w] \subseteq own[w],
           \A w \in Writers :
              /\ pc'[w] # "idle" => pc[w] # "idle"
              /\ pc'[w] \in {"loaded", "save", "tx"} => pc[w] \in {"loaded", "save", "tx"}
              /\ pc'[w] \in {"save", "tx"} => size'[w] \in 1..MaxBatch
    PROVE  CommandsOK'
BY DEF CommandsOK

(* Commands are told apart.                                                 *)
LEMMA CommandsNext == ASSUME ChainInvariant, CommandsOK, [Next]_vars PROVE CommandsOK'
<1>0. TypeOK /\ MaxBatch \in Nat /\ MaxCommands \in Nat
  BY LedgerAssumption DEF ChainInvariant
<1>1. \A w \in Writers : handled[w] \in Nat /\ pc[w] \in {"save", "tx"} => size[w] \in 1..MaxBatch
  BY DEF CommandsOK
<1>2. \A r \in ledger : r.cmd.by \in Writers /\ r.cmd.n \in Nat
  BY <1>0 DEF TypeOK, RowOK, Commands
<1>3. ASSUME NEW w \in Writers, NEW a \in Aggregates, Load(w, a) \/ Construct(w, a)
      PROVE  CommandsOK'
  <2>1. /\ pc[w] = "idle" /\ handled[w] < MaxCommands /\ UNCHANGED <<ledger, own, size>>
        /\ pc'[w] = "loaded" /\ handled'[w] = handled[w] + 1
        /\ \A v \in Writers \ {w} : pc'[v] = pc[v] /\ handled'[v] = handled[v]
    BY <1>0, <1>3 DEF Load, Construct, TypeOK
  <2>2. own[w] = {}
    BY <2>1 DEF ChainInvariant
  <2>3. \A v \in Writers : handled[v] \in Nat
    BY <1>0 DEF TypeOK
  <2>4. \A v \in Writers : handled'[v] <= MaxCommands /\ (pc'[v] # "idle" => handled'[v] > 0)
    BY <1>0, <2>1, <2>3 DEF CommandsOK
  <2>5. \A r \in ledger : r.cmd.n <= handled'[r.cmd.by] /\ (r.cmd.by = w => r.cmd.n < handled'[w])
    BY <1>2, <2>1, <2>3 DEF CommandsOK
  <2>6. \A v \in Writers : pc'[v] \in {"loaded", "save", "tx"} =>
           \A r \in ledger : r.cmd.by = v => r.cmd.n < handled'[v]
    BY <2>1, <2>5 DEF CommandsOK
  <2>7. \A v \in Writers : \A r \in own[v] : r.cmd.by = v /\ r.cmd.n = handled'[v]
    BY <2>1, <2>2 DEF CommandsOK
  <2>8. QED BY <2>1, <2>4, <2>5, <2>6, <2>7 DEF CommandsOK
<1>4. ASSUME NEW w \in Writers, RaiseEvents(w) PROVE CommandsOK'
  <2>1. /\ pc[w] = "loaded" /\ pc'[w] = "save" /\ size'[w] \in 1..MaxBatch
        /\ UNCHANGED <<ledger, handled, own>>
        /\ \A v \in Writers \ {w} : pc'[v] = pc[v] /\ size'[v] = size[v]
    BY <1>0, <1>4 DEF RaiseEvents, TypeOK
  <2>2. QED BY <1>1, <2>1, CommandsCalm DEF CommandsOK
<1>5. ASSUME NEW w \in Writers, Refuse(w) \/ Respond(w) PROVE CommandsOK'
  <2>1. /\ pc'[w] = "idle" /\ UNCHANGED <<ledger, handled, own>>
        /\ \A v \in Writers \ {w} : pc'[v] = pc[v] /\ size'[v] = size[v]
    BY <1>0, <1>5 DEF Refuse, Respond, EndRequest, TypeOK
  <2>2. QED BY <2>1, CommandsCalm DEF CommandsOK
<1>6. ASSUME NEW w \in Writers, Begin(w) PROVE CommandsOK'
  <2>1. /\ pc[w] = "save" /\ pc'[w] = "tx" /\ UNCHANGED <<ledger, handled, own, size>>
        /\ \A v \in Writers \ {w} : pc'[v] = pc[v]
    BY <1>6, BeginRows
  <2>2. QED BY <2>1, CommandsCalm DEF CommandsOK
<1>7. ASSUME NEW w \in Writers, Insert(w) PROVE CommandsOK'
  <2> DEFINE x == NewRow(w)
  <2>1. /\ UNCHANGED <<ledger, pc, size, handled>> /\ own'[w] = own[w] \cup {x}
        /\ \A v \in Writers \ {w} : own'[v] = own[v]
        /\ x.cmd = Command(w)
    BY <1>7, InsertRows
  <2>0. Command(w).by = w /\ Command(w).n = handled[w]
    BY DEF Command
  <2> HIDE DEF x
  <2>2. \A v \in Writers : \A r \in own'[v] : r.cmd.by = v /\ r.cmd.n = handled[v]
    BY <2>0, <2>1 DEF CommandsOK
  <2>3. QED BY <2>1, <2>2 DEF CommandsOK
<1>8. ASSUME NEW w \in Writers,
             VersionConflict(w) \/ SerializationFailure(w) \/ ConnectionLost(w)
      PROVE  CommandsOK'
  <2>1. /\ pc[w] = "tx" /\ pc'[w] \in {"save", "failed"} /\ UNCHANGED <<ledger, handled, size>>
        /\ Rollback(w) /\ \A v \in Writers \ {w} : pc'[v] = pc[v]
    BY <1>0, <1>8
    DEF VersionConflict, SerializationFailure, ConnectionLost, AfterConflict, command, TypeOK
  <2>2. \A v \in Writers : own'[v] \subseteq own[v]
    BY <1>0, <2>1 DEF Rollback, TypeOK
  <2>3. QED BY <2>1, <2>2, CommandsCalm DEF CommandsOK
<1>9. ASSUME NEW w \in Writers, Commit(w) \/ CommitReplyLost(w) PROVE CommandsOK'
  <2>1. CommitRows(w) /\ pc'[w] \in {"saved", "failed"}
        /\ \A v \in Writers \ {w} : pc'[v] = pc[v]
    BY <1>0, <1>9 DEF Commit, CommitReplyLost, AfterLostReply, TypeOK
  <2>2. /\ UNCHANGED <<size, handled>> /\ pc[w] = "tx" /\ ledger' = ledger \cup own[w]
        /\ own'[w] = {} /\ \A v \in Writers \ {w} : own'[v] = own[v]
    BY <2>1, CommittedRows
  <2>3. \A r \in own[w] : r.cmd.by = w /\ r.cmd.n = handled[w]
    BY DEF CommandsOK
  <2>4. \A r \in ledger' : r.cmd.n <= handled[r.cmd.by]
    BY <1>0, <2>2, <2>3 DEF CommandsOK, TypeOK
  <2>5. \A v \in Writers : pc'[v] \in {"loaded", "save", "tx"} =>
           \A r \in ledger' : r.cmd.by = v => r.cmd.n < handled[v]
    BY <2>1, <2>2, <2>3 DEF CommandsOK
  <2>6. \A v \in Writers : handled[v] <= MaxCommands /\ (pc'[v] # "idle" => handled[v] > 0)
    BY <2>1, <2>2 DEF CommandsOK
  <2>7. \A v \in Writers : pc'[v] \in {"save", "tx"} => size[v] \in 1..MaxBatch
    BY <2>1 DEF CommandsOK
  <2>8. \A v \in Writers : \A r \in own'[v] : r.cmd.by = v /\ r.cmd.n = handled[v]
    BY <2>2 DEF CommandsOK
  <2>9. QED BY <2>2, <2>4, <2>5, <2>6, <2>7, <2>8 DEF CommandsOK
<1>10. CASE Crash
  <2>1. /\ UNCHANGED <<ledger, handled>>
        /\ \A w \in Writers : pc'[w] = "idle" /\ own'[w] \subseteq own[w]
    BY <1>10 DEF Crash
  <2>2. QED BY <2>1, CommandsCalm
<1>11. CASE UNCHANGED vars
  BY <1>11, CommandsCalm DEF vars, CommandsOK
<1>12. QED
  BY <1>3, <1>4, <1>5, <1>6, <1>7, <1>8, <1>9, <1>10, <1>11 DEF Next, Step, Save

(* A row to commit is of no command the ledger knows.                       *)
LEMMA NewCommand ==
    ASSUME ChainInvariant, CommandsOK, NEW w \in Writers, pc[w] = "tx",
           NEW r \in own[w], NEW s \in ledger
    PROVE  r.cmd.by = w /\ r.cmd # s.cmd
<1>1. r.cmd.by = w /\ r.cmd.n = handled[w]
  BY DEF CommandsOK
<1>2. s.cmd.by = w => s.cmd.n < handled[w]
  BY DEF CommandsOK
<1>3. s.cmd.n \in Nat /\ handled[w] \in Nat
  BY DEF ChainInvariant, TypeOK, RowOK, Commands
<1>4. QED BY <1>1, <1>2, <1>3

(* Snapshots see whole batches.                                             *)
LEMMA BatchesNext ==
    ASSUME ChainInvariant, CommandsOK, BatchesOK, [Next]_vars PROVE BatchesOK'
<1>0. TypeOK /\ \A w \in Writers : snap[w] \subseteq ledger
  BY DEF ChainInvariant, TypeOK
<1>1. ASSUME ledger' = ledger,
             \A w \in Writers : snap'[w] = snap[w] \/ snap'[w] = {},
             \A w \in Writers : pc'[w] = "tx" => pc[w] = "tx" /\ snap'[w] = snap[w]
      PROVE  BatchesOK'
  BY <1>1 DEF BatchesOK
<1>2. ASSUME NEW w \in Writers, Begin(w) PROVE BatchesOK'
  <2>1. /\ ledger' = ledger /\ snap'[w] = ledger
        /\ \A v \in Writers \ {w} : snap'[v] = snap[v] /\ pc'[v] = pc[v]
    BY <1>2, BeginRows
  <2>2. \A v \in Writers : \A s \in snap'[v], r \in ledger : r.cmd = s.cmd => r \in snap'[v]
    BY <2>1 DEF BatchesOK
  <2>3. \A v \in Writers : pc'[v] = "tx" => \A r \in ledger : r.cmd.by = v => r \in snap'[v]
    BY <2>1 DEF BatchesOK
  <2>4. QED BY <2>1, <2>2, <2>3 DEF BatchesOK
<1>3. ASSUME NEW w \in Writers, CommitRows(w), pc'[w] # "tx",
             \A v \in Writers \ {w} : pc'[v] = pc[v]
      PROVE  BatchesOK'
  <2>1. /\ pc[w] = "tx" /\ ledger' = ledger \cup own[w] /\ snap'[w] = {}
        /\ \A v \in Writers \ {w} : snap'[v] = snap[v]
    BY <1>3, CommittedRows
  <2>2. \A r \in own[w] : r.cmd.by = w /\ \A s \in ledger : r.cmd # s.cmd
    BY <2>1, NewCommand DEF CommandsOK
  <2>3. IsFiniteSet(ledger \cup own[w])
    <3>1. IsFiniteSet(ledger) /\ IsFiniteSet(own[w])
      BY DEF BatchesOK, ChainInvariant
    <3>2. QED BY <3>1, FS_Union
  <2>4. ASSUME NEW v \in Writers, NEW s \in snap'[v], NEW r \in ledger', r.cmd = s.cmd
        PROVE  r \in snap'[v]
    <3>1. v # w /\ s \in snap[v] /\ s \in ledger
      BY <1>0, <2>1, <2>4
    <3>2. r \in ledger
      BY <2>1, <2>2, <2>4, <3>1
    <3>3. QED BY <2>1, <2>4, <3>1, <3>2 DEF BatchesOK
  <2>5. ASSUME NEW v \in Writers, pc'[v] = "tx", NEW r \in ledger', r.cmd.by = v
        PROVE  r \in snap'[v]
    <3>1. v # w /\ pc[v] = "tx"
      BY <1>3, <2>5
    <3>2. r \in ledger
      BY <2>1, <2>2, <2>5, <3>1
    <3>3. QED BY <2>1, <2>5, <3>1, <3>2 DEF BatchesOK
  <2>6. QED BY <2>1, <2>3, <2>4, <2>5 DEF BatchesOK
<1>4. ASSUME NEW w \in Writers, NEW a \in Aggregates, Load(w, a) \/ Construct(w, a)
      PROVE  BatchesOK'
  BY <1>0, <1>1, <1>4 DEF Load, Construct, TypeOK
<1>5. ASSUME NEW w \in Writers, RaiseEvents(w) \/ Refuse(w) \/ Respond(w) PROVE BatchesOK'
  BY <1>0, <1>1, <1>5 DEF RaiseEvents, Refuse, Respond, EndRequest, TypeOK
<1>6. ASSUME NEW w \in Writers, Insert(w) PROVE BatchesOK'
  BY <1>1, <1>6, InsertRows
<1>7. ASSUME NEW w \in Writers,
             VersionConflict(w) \/ SerializationFailure(w) \/ ConnectionLost(w)
      PROVE  BatchesOK'
  <2>1. /\ ledger' = ledger /\ pc'[w] \in {"save", "failed"} /\ Rollback(w)
        /\ \A v \in Writers \ {w} : pc'[v] = pc[v]
    BY <1>0, <1>7
    DEF VersionConflict, SerializationFailure, ConnectionLost, AfterConflict, command, TypeOK
  <2>2. snap'[w] = {} /\ \A v \in Writers \ {w} : snap'[v] = snap[v]
    BY <1>0, <2>1 DEF Rollback, TypeOK
  <2>3. QED BY <1>1, <2>1, <2>2
<1>8. ASSUME NEW w \in Writers, Commit(w) \/ CommitReplyLost(w) PROVE BatchesOK'
  BY <1>0, <1>3, <1>8 DEF Commit, CommitReplyLost, AfterLostReply, TypeOK
<1>9. CASE Crash
  BY <1>1, <1>9 DEF Crash
<1>10. CASE UNCHANGED vars
  BY <1>1, <1>10 DEF vars
<1>11. QED
  BY <1>2, <1>4, <1>5, <1>6, <1>7, <1>8, <1>9, <1>10 DEF Next, Step, Save

(* The image of a finite set of rows is a finite set of commands.           *)
LEMMA FiniteCommands ==
    ASSUME NEW rows, IsFiniteSet(rows) PROVE IsFiniteSet({r.cmd : r \in rows})
<1> DEFINE cmd == [r \in rows |-> r.cmd]
           T == {r.cmd : r \in rows}
<1>1. cmd \in Surjection(rows, T)
  BY DEF Surjection
<1>2. QED BY <1>1, FS_Surjection

(* More rows, no fewer winners.                                             *)
LEMMA WinnersGrow ==
    ASSUME NEW w, NEW rows, IsFiniteSet(rows), NEW fewer \in SUBSET rows
    PROVE  /\ IsFiniteSet(WinnersIn(rows, w)) /\ Cardinality(WinnersIn(rows, w)) \in Nat
           /\ Cardinality(WinnersIn(fewer, w)) \in Nat
           /\ Cardinality(WinnersIn(fewer, w)) <= Cardinality(WinnersIn(rows, w))
           /\ WinnersIn(fewer, w) \subseteq WinnersIn(rows, w)
<1> DEFINE of(R) == {s \in R : s.agg = target[w] /\ s.cmd.by # w}
<1>1. IsFiniteSet(of(rows))
  BY FS_Subset
<1>2. IsFiniteSet(WinnersIn(rows, w))
  BY <1>1, FiniteCommands DEF WinnersIn
<1>3. WinnersIn(fewer, w) \in SUBSET WinnersIn(rows, w)
  BY DEF WinnersIn
<1>4. QED BY <1>2, <1>3, FS_Subset, FS_CardinalityType

(* A version conflict has a winner the snapshot does not know.              *)
LEMMA ConflictHasWinner ==
    ASSUME ChainInvariant, BatchesOK, NEW w \in Writers, pc[w] = "tx", KeyCommitted(w)
    PROVE  Cardinality(WinnersIn(snap[w], w)) + 1 <= Cardinality(WinnersIn(ledger, w))
<1> DEFINE old == WinnersIn(snap[w], w)
           now == WinnersIn(ledger, w)
           n == Version(snap[w], target[w])
<1>0. snap[w] \in SUBSET ledger /\ IsFiniteSet(ledger)
  BY DEF ChainInvariant, TypeOK, BatchesOK
<1>1. PICK r \in ledger : r.agg = target[w] /\ r.ver = NextVersion(w)
  BY DEF KeyCommitted, Key, NextKey
<1>2. /\ n \in Nat /\ Cardinality(own[w]) \in Nat /\ ChainTo(snap[w], target[w], n)
      /\ NextVersion(w) = n + Cardinality(own[w]) + 1
  BY NewRowOK DEF ChainInvariant, OwnContinuesSnapshot, Chained
<1>3. r \notin snap[w]
  <2>1. SUFFICES ASSUME r \in snap[w] PROVE FALSE
    OBVIOUS
  <2>2. r.ver \in 1..n
    BY <1>1, <1>2, <2>1 DEF ChainTo, Stream
  <2>3. QED BY <1>1, <1>2, <2>2
<1>4. r.cmd.by # w
  BY <1>1, <1>3 DEF BatchesOK
<1>5. r.cmd \in now
  BY <1>1, <1>4 DEF WinnersIn
<1>6. r.cmd \notin old
  BY <1>1, <1>3 DEF WinnersIn, BatchesOK
<1>7. /\ IsFiniteSet(now) /\ old \subseteq now /\ Cardinality(old) \in Nat
      /\ IsFiniteSet(old)
  BY <1>0, WinnersGrow, FS_Subset
<1> HIDE DEF old, now
<1>8. IsFiniteSet(old \cup {r.cmd}) /\ Cardinality(old \cup {r.cmd}) = Cardinality(old) + 1
  BY <1>6, <1>7, FS_AddElement
<1>9. old \cup {r.cmd} \in SUBSET now
  BY <1>5, <1>7
<1>10. Cardinality(old) + 1 <= Cardinality(now)
  BY <1>7, <1>8, <1>9, FS_Subset
<1>11. QED BY <1>10 DEF old, now

(* Each failed attempt has a winner of its own.                             *)
LEMMA WinnersNext ==
    ASSUME ChainInvariant, BatchesOK, BatchesOK', WinnersOK, [Next]_vars PROVE WinnersOK'
<1>0. TypeOK /\ IsFiniteSet(ledger)
  BY DEF ChainInvariant, BatchesOK
<1>1. \A w \in Writers : attempt[w] \in Nat /\ snap[w] \in SUBSET ledger
  BY <1>0 DEF TypeOK
<1>2. ASSUME NEW v \in Writers \ Spurious, ledger \subseteq ledger', IsFiniteSet(ledger'),
             pc'[v] \in {"save", "tx"} =>
                 /\ pc'[v] = pc[v] /\ attempt'[v] = attempt[v] /\ target'[v] = target[v]
                 /\ pc'[v] = "tx" => snap'[v] = snap[v]
      PROVE  /\ pc'[v] = "save" => attempt'[v] <= Cardinality(WinnersIn(ledger, v)')
             /\ pc'[v] = "tx" => attempt'[v] <= Cardinality(WinnersIn(snap[v], v)') + 1
  <2>1. CASE pc'[v] = "save"
    <3>1. WinnersIn(ledger, v)' = WinnersIn(ledger', v)
      BY <1>2, <2>1 DEF WinnersIn
    <3>2. /\ Cardinality(WinnersIn(ledger', v)) \in Nat /\ Cardinality(WinnersIn(ledger, v)) \in Nat
          /\ Cardinality(WinnersIn(ledger, v)) <= Cardinality(WinnersIn(ledger', v))
      BY <1>2, WinnersGrow
    <3>3. attempt[v] <= Cardinality(WinnersIn(ledger, v)) /\ attempt'[v] = attempt[v]
      BY <1>2, <2>1 DEF WinnersOK
    <3>4. QED BY <1>1, <2>1, <3>1, <3>2, <3>3
  <2>2. CASE pc'[v] = "tx"
    <3>1. WinnersIn(snap[v], v)' = WinnersIn(snap[v], v)
      BY <1>2, <2>2 DEF WinnersIn
    <3>2. QED BY <1>2, <2>2, <3>1 DEF WinnersOK
  <2>3. QED BY <2>1, <2>2
<1>3. ASSUME ledger \subseteq ledger', IsFiniteSet(ledger'),
             \A v \in Writers : pc'[v] \in {"save", "tx"} =>
                 /\ pc'[v] = pc[v] /\ attempt'[v] = attempt[v] /\ target'[v] = target[v]
                 /\ pc'[v] = "tx" => snap'[v] = snap[v]
      PROVE  WinnersOK'
  BY <1>2, <1>3 DEF WinnersOK
<1>4. ASSUME NEW w \in Writers, ledger' = ledger,
             \A v \in Writers \ {w} : /\ pc'[v] = pc[v] /\ attempt'[v] = attempt[v]
                                     /\ target'[v] = target[v] /\ snap'[v] = snap[v],
             w \in Spurious
             \/ /\ pc'[w] = "save" => attempt'[w] <= Cardinality(WinnersIn(ledger, w)')
                /\ pc'[w] = "tx" => attempt'[w] <= Cardinality(WinnersIn(snap[w], w)') + 1
      PROVE  WinnersOK'
  <2>1. ASSUME NEW v \in Writers \ Spurious, v # w
        PROVE  /\ pc'[v] = "save" => attempt'[v] <= Cardinality(WinnersIn(ledger, v)')
               /\ pc'[v] = "tx" => attempt'[v] <= Cardinality(WinnersIn(snap[v], v)') + 1
    <3>1. /\ ledger \subseteq ledger' /\ IsFiniteSet(ledger') /\ v \in Writers \ {w}
          /\ pc'[v] = pc[v] /\ attempt'[v] = attempt[v] /\ target'[v] = target[v]
          /\ snap'[v] = snap[v]
      BY <1>0, <1>4, <2>1
    <3>2. QED BY <1>2, <2>1, <3>1
  <2>2. QED BY <1>4, <2>1 DEF WinnersOK
<1>5. ASSUME NEW w \in Writers, NEW a \in Aggregates, Load(w, a) \/ Construct(w, a)
      PROVE  WinnersOK'
  BY <1>0, <1>3, <1>5 DEF Load, Construct, TypeOK
<1>6. ASSUME NEW w \in Writers, Refuse(w) \/ Respond(w) PROVE WinnersOK'
  BY <1>0, <1>3, <1>6 DEF Refuse, Respond, EndRequest, TypeOK
<1>7. ASSUME NEW w \in Writers, RaiseEvents(w) PROVE WinnersOK'
  <2>1. /\ UNCHANGED <<ledger, target, snap>> /\ pc'[w] = "save" /\ attempt'[w] = 0
        /\ \A v \in Writers \ {w} : pc'[v] = pc[v] /\ attempt'[v] = attempt[v]
    BY <1>0, <1>7 DEF RaiseEvents, TypeOK
  <2>2. WinnersIn(ledger, w)' = WinnersIn(ledger, w) /\ Cardinality(WinnersIn(ledger, w)) \in Nat
    BY <1>0, <2>1, WinnersGrow DEF WinnersIn
  <2>3. 0 <= Cardinality(WinnersIn(ledger, w)')
    BY <2>2
  <2>4. QED BY <1>4, <2>1, <2>3
<1>8. ASSUME NEW w \in Writers, Begin(w) PROVE WinnersOK'
  <2>1. /\ UNCHANGED <<ledger, target>> /\ pc[w] = "save" /\ pc'[w] = "tx"
        /\ snap'[w] = ledger /\ attempt'[w] = attempt[w] + 1
        /\ \A v \in Writers \ {w} :
              snap'[v] = snap[v] /\ pc'[v] = pc[v] /\ attempt'[v] = attempt[v]
    BY <1>8, BeginRows
  <2>2. WinnersIn(snap[w], w)' = WinnersIn(ledger, w) /\ Cardinality(WinnersIn(ledger, w)) \in Nat
    BY <1>0, <2>1, WinnersGrow DEF WinnersIn
  <2>3. w \notin Spurious => attempt[w] <= Cardinality(WinnersIn(ledger, w))
    BY <2>1 DEF WinnersOK
  <2>4. w \notin Spurious => attempt'[w] <= Cardinality(WinnersIn(snap[w], w)') + 1
    BY <1>1, <2>1, <2>2, <2>3
  <2>5. QED BY <1>4, <2>1, <2>4
<1>9. ASSUME NEW w \in Writers, Insert(w) PROVE WinnersOK'
  BY <1>0, <1>3, <1>9, InsertRows
<1>10. ASSUME NEW w \in Writers, VersionConflict(w) PROVE WinnersOK'
  <2>1. /\ UNCHANGED <<ledger, target, attempt>> /\ pc[w] = "tx" /\ pc'[w] \in {"save", "failed"}
        /\ KeyCommitted(w) /\ Rollback(w) /\ \A v \in Writers \ {w} : pc'[v] = pc[v]
    BY <1>0, <1>10 DEF VersionConflict, AfterConflict, command, TypeOK
  <2>2. \A v \in Writers \ {w} : snap'[v] = snap[v]
    BY <1>0, <2>1 DEF Rollback, TypeOK
  <2>3. /\ WinnersIn(ledger, w)' = WinnersIn(ledger, w)
        /\ Cardinality(WinnersIn(ledger, w)) \in Nat /\ Cardinality(WinnersIn(snap[w], w)) \in Nat
    BY <1>0, <1>1, <2>1, WinnersGrow DEF WinnersIn
  <2>4. w \notin Spurious => attempt[w] <= Cardinality(WinnersIn(snap[w], w)) + 1
    BY <2>1 DEF WinnersOK
  <2>5. Cardinality(WinnersIn(snap[w], w)) + 1 <= Cardinality(WinnersIn(ledger, w))
    BY <2>1, ConflictHasWinner
  <2>6. w \notin Spurious => attempt'[w] <= Cardinality(WinnersIn(ledger, w)')
    BY <1>1, <2>1, <2>3, <2>4, <2>5
  <2>7. QED BY <1>4, <2>1, <2>2, <2>6
<1>11. ASSUME NEW w \in Writers, SerializationFailure(w) \/ ConnectionLost(w) PROVE WinnersOK'
  <2>1. /\ UNCHANGED <<ledger, target, attempt>> /\ pc'[w] \in {"save", "failed"}
        /\ (pc'[w] = "save" => w \in Spurious)
        /\ Rollback(w) /\ \A v \in Writers \ {w} : pc'[v] = pc[v]
    BY <1>0, <1>11 DEF SerializationFailure, ConnectionLost, AfterConflict, command, TypeOK
  <2>2. \A v \in Writers \ {w} : snap'[v] = snap[v]
    BY <1>0, <2>1 DEF Rollback, TypeOK
  <2>3. QED BY <1>4, <2>1, <2>2
<1>12. ASSUME NEW w \in Writers, Commit(w) \/ CommitReplyLost(w) PROVE WinnersOK'
  <2>1. CommitRows(w) /\ pc'[w] \in {"saved", "failed"}
        /\ \A v \in Writers \ {w} : pc'[v] = pc[v]
    BY <1>0, <1>12 DEF Commit, CommitReplyLost, AfterLostReply, TypeOK
  <2>2. /\ UNCHANGED <<target, attempt>> /\ ledger \subseteq ledger'
        /\ \A v \in Writers \ {w} : snap'[v] = snap[v]
    BY <2>1, CommittedRows
  <2>3. IsFiniteSet(ledger')
    BY DEF BatchesOK
  <2>4. QED BY <1>3, <2>1, <2>2, <2>3
<1>13. CASE Crash
  BY <1>0, <1>3, <1>13 DEF Crash
<1>14. CASE UNCHANGED vars
  BY <1>0, <1>3, <1>14 DEF vars
<1>15. QED
  BY <1>5, <1>6, <1>7, <1>8, <1>9, <1>10, <1>11, <1>12, <1>13, <1>14 DEF Next, Step, Save

(* Nobody has saved, nobody has been overtaken.                             *)
LEMMA CommandsInit == Init => CommandsOK /\ BatchesOK /\ WinnersOK
<1> SUFFICES ASSUME Init PROVE CommandsOK /\ BatchesOK /\ WinnersOK
  OBVIOUS
<1>1. /\ ledger = {} /\ \A w \in Writers : pc[w] = "idle" /\ handled[w] = 0
      /\ \A w \in Writers : snap[w] = {} /\ own[w] = {}
  BY DEF Init
<1>2. MaxCommands \in Nat
  BY LedgerAssumption
<1>3. QED BY <1>1, <1>2, FS_EmptySet DEF CommandsOK, BatchesOK, WinnersOK

-----------------------------------------------------------------------------
(* Streams as sequences of commands *)

\* LogOf is LogIn of the ledger.
LogOfRows(S) == [i \in 1..Cardinality(S) |-> CommandId(CHOOSE r \in S : r.ver = i)]
LogIn(rows, a) == LogOfRows(Stream(rows, a))

\* What a commit appends.
Extended(s, b, k) == s \o [i \in 1..k |-> b]
AllOf(rows, b) == \A r \in rows : CommandId(r) = b

(* A sequence of commands depends on the rows of its stream alone.          *)
LEMMA SameLog ==
    ASSUME NEW rows, NEW other, NEW a, Stream(rows, a) = Stream(other, a)
    PROVE  LogIn(rows, a) = LogIn(other, a)
BY DEF LogIn

(* A chain of n rows has n rows.                                            *)
LEMMA ChainLength ==
    ASSUME NEW rows, NEW a, NEW n \in Nat, ChainTo(rows, a, n)
    PROVE  IsFiniteSet(Stream(rows, a)) /\ Cardinality(Stream(rows, a)) = n
<1> DEFINE S == Stream(rows, a)
           row == [v \in 1..n |-> CHOOSE r \in S : r.ver = v]
<1>1. \A v \in 1..n : row[v] \in S /\ row[v].ver = v
  BY DEF ChainTo
<1>2. \A r \in S : r.ver \in 1..n /\ row[r.ver] = r
  <2>1. \A r \in S : r.ver \in 1..n
    BY DEF ChainTo
  <2>2. ASSUME NEW r \in S PROVE row[r.ver] = r
    <3>1. row[r.ver] \in S /\ row[r.ver].ver = r.ver
      BY <1>1, <2>1
    <3>2. QED BY <3>1 DEF ChainTo
  <2>3. QED BY <2>1, <2>2
<1> HIDE DEF S
<1>3. row \in [1..n -> S]
  BY <1>1
<1> HIDE DEF row
<1>4. row \in Bijection(1..n, S)
  BY <1>1, <1>2, <1>3 DEF Bijection, Injection, IsInjective, Surjection
<1>5. IsFiniteSet(1..n) /\ Cardinality(1..n) = n
  BY FS_Interval
<1>6. QED BY <1>4, <1>5, FS_Bijection DEF ExistsBijection, S

(* A stream that has got a batch is the stream and the batch.               *)
LEMMA LogGrows ==
    ASSUME NEW rows, NEW more, NEW a, NEW n \in Nat, NEW k \in Nat,
           ChainTo(rows, a, n), ChainTo(rows \cup more, a, n + k),
           NEW b, AllOf(more, b)
    PROVE  LogIn(rows \cup more, a) = Extended(LogIn(rows, a), b, k)
<1> DEFINE all == rows \cup more
           Row(R, i) == CHOOSE r \in Stream(R, a) : r.ver = i
<1>1. Cardinality(Stream(rows, a)) = n /\ Cardinality(Stream(all, a)) = n + k
  BY ChainLength
<1>2. Stream(rows, a) \subseteq Stream(all, a) /\ Stream(all, a) \subseteq Stream(rows, a) \cup more
  BY DEF Stream
<1>3. ASSUME NEW i \in 1..n PROVE Row(all, i) = Row(rows, i)
  <2>1. PICK r \in Stream(rows, a) : r.ver = i
    BY DEF ChainTo
  <2>2. \A s \in Stream(all, a) : s.ver = i => s = r
    BY <1>2, <2>1 DEF ChainTo
  <2>3. QED BY <1>2, <2>1, <2>2
<1>4. ASSUME NEW i \in (n + 1)..(n + k) PROVE CommandId(Row(all, i)) = b
  <2>0. i \in 1..(n + k)
    OBVIOUS
  <2>1. \E r \in Stream(all, a) : r.ver = i
    BY <2>0 DEF ChainTo
  <2>2. Row(all, i) \in Stream(all, a) /\ Row(all, i).ver = i
    BY <2>1
  <2> HIDE DEF Row
  <2>3. Row(all, i) \notin Stream(rows, a)
    BY <2>2 DEF ChainTo
  <2>4. QED BY <1>2, <2>2, <2>3 DEF AllOf
<1>5. LogIn(rows, a) = [i \in 1..n |-> CommandId(Row(rows, i))]
  BY <1>1 DEF LogIn, LogOfRows
<1>6. LogIn(all, a) = [i \in 1..(n + k) |-> CommandId(Row(all, i))]
  BY <1>1 DEF LogIn, LogOfRows
<1> HIDE DEF all, Row
<1> DEFINE old == [i \in 1..n |-> CommandId(Row(rows, i))]
           batch == [i \in 1..k |-> b]
<1>7. Len(old) = n /\ Len(batch) = k
  OBVIOUS
<1>8. old \o batch = [i \in 1..(n + k) |-> IF i <= n THEN old[i] ELSE batch[i - n]]
  BY <1>7
<1>9. \A i \in 1..(n + k) :
         CommandId(Row(all, i)) = IF i <= n THEN old[i] ELSE batch[i - n]
  BY <1>3, <1>4
<1>10. QED BY <1>5, <1>6, <1>8, <1>9 DEF all, Extended

(* A commit appends one batch to one stream.                                *)
LEMMA CommitAppends ==
    ASSUME ChainInvariant, CommandsOK, NEW w \in Writers, CommitRows(w)
    PROVE  LET a == target[w]
               b == [by |-> w, n |-> handled[w]]
           IN  /\ a \in Aggregates /\ b \in [by : Writers, n : 1..MaxCommands]
               /\ size[w] \in 1..MaxBatch
               /\ LogIn(ledger', a) = Extended(LogIn(ledger, a), b, size[w])
               /\ \A s \in Aggregates \ {a} : LogIn(ledger', s) = LogIn(ledger, s)
               /\ \A r \in ledger : CommandId(r) # b
<1> DEFINE a == target[w]
           b == [by |-> w, n |-> handled[w]]
           n == Version(ledger, a)
           k == size[w]
<1>0. TypeOK /\ ledger' = ledger \cup own[w] /\ pc[w] = "tx" /\ Cardinality(own[w]) = k
  BY CommittedRows DEF ChainInvariant, CommitRows
<1>1. a \in Aggregates /\ handled[w] \in Nat /\ pc[w] # "idle"
  BY <1>0 DEF TypeOK
<1>2. handled[w] \in 1..MaxCommands /\ k \in 1..MaxBatch
  BY <1>0, <1>1, LedgerAssumption DEF CommandsOK
<1>3. \A r \in own[w] : r.agg = a /\ CommandId(r) = b
  BY <1>0 DEF ChainInvariant, OwnContinuesSnapshot, CommandsOK, CommandId
<1>4. ASSUME NEW r \in ledger PROVE CommandId(r) # b
  <2>1. r.cmd.by = w => r.cmd.n < handled[w]
    BY <1>0 DEF CommandsOK
  <2>2. r.cmd.n \in Nat
    BY <1>0 DEF TypeOK, RowOK, Commands
  <2>3. QED BY <1>1, <2>1, <2>2 DEF CommandId
<1>5. n \in Nat /\ ChainTo(ledger, a, n)
  BY <1>1 DEF ChainInvariant, Chained
<1>6. ChainTo(ledger \cup own[w], a, n + k)
  <2> DEFINE m == Version(snap[w], a)
  <2>1. /\ m \in Nat /\ ChainTo(snap[w], a, m) /\ ChainTo(Visible(w), a, m + k)
    BY <1>0 DEF ChainInvariant, OwnContinuesSnapshot, Chained
  <2>2. own[w] # {}
    BY <1>0, <1>2, FS_EmptySet
  <2>3. Stream(ledger \cup own[w], a) = Stream(Visible(w), a)
    BY <1>0, <2>2, CommitStream
  <2>4. ChainTo(ledger \cup own[w], a, m + k)
    BY <2>1, <2>3, SameStream
  <2> HIDE DEF m, n
  <2>5. m = n
    <3>1. m <= n
      <4>1. CASE m = 0
        BY <1>5, <4>1
      <4>2. CASE m # 0
        <5>1. PICK r \in Stream(snap[w], a) : r.ver = m
          BY <2>1, <4>2 DEF ChainTo
        <5>2. r \in Stream(ledger, a)
          BY <1>0, <5>1 DEF Stream, TypeOK
        <5>3. QED BY <1>5, <5>1, <5>2 DEF ChainTo
      <4>3. QED BY <4>1, <4>2
    <3>2. n <= m
      <4>1. CASE n = 0
        BY <2>1, <4>1
      <4>2. CASE n # 0
        <5>1. PICK s \in Stream(ledger, a) : s.ver = n
          BY <1>5, <4>2 DEF ChainTo
        <5>2. s \in Stream(Visible(w), a) /\ s \in ledger
          BY <2>3, <5>1 DEF Stream
        <5>3. s \notin own[w]
          BY <5>2 DEF ChainInvariant, KeysDisjoint
        <5>4. s \in Stream(snap[w], a)
          BY <5>2, <5>3 DEF Stream, Visible
        <5>5. QED BY <2>1, <5>1, <5>4 DEF ChainTo
      <4>3. QED BY <4>1, <4>2
    <3>3. QED BY <1>5, <2>1, <3>1, <3>2
  <2>6. QED BY <2>4, <2>5
<1>7. ASSUME NEW s \in Aggregates \ {a} PROVE LogIn(ledger \cup own[w], s) = LogIn(ledger, s)
  <2>1. Stream(ledger \cup own[w], s) = Stream(ledger, s)
    BY <1>3 DEF Stream
  <2>2. QED BY <2>1, SameLog
<1>8. k \in Nat
  BY <1>2
<1> HIDE DEF a, b, n, k
<1>9. LogIn(ledger \cup own[w], a) = Extended(LogIn(ledger, a), b, k)
  <2>1. AllOf(own[w], b)
    BY <1>3 DEF AllOf
  <2>2. QED BY <1>5, <1>6, <1>8, <2>1, LogGrows
<1> USE DEF a, b, k
<1>10. QED BY <1>0, <1>1, <1>2, <1>4, <1>7, <1>9

(* Only a commit changes the ledger.                                        *)
LEMMA OnlyCommits ==
    ASSUME TypeOK, [Next]_vars, ledger' # ledger
    PROVE  \E w \in Writers : CommitRows(w)
<1>1. \A w \in Writers : ~Begin(w) /\ ~Insert(w)
  BY DEF Begin, Insert
<1>2. ~Undone /\ ~UNCHANGED <<ledger, seq, snap, own>>
  BY DEF Undone
<1>3. QED BY <1>1, <1>2, RowSteps

(* What is in a stream is a command with rows in the ledger.                *)
LEMMA LoggedIsSaved ==
    ASSUME ChainInvariant, NEW a \in Aggregates, NEW i \in 1..Len(LogIn(ledger, a))
    PROVE  \E r \in ledger : LogIn(ledger, a)[i] = CommandId(r)
<1> DEFINE n == Version(ledger, a)
           Row(j) == CHOOSE r \in Stream(ledger, a) : r.ver = j
<1>1. n \in Nat /\ ChainTo(ledger, a, n)
  BY DEF ChainInvariant, Chained
<1>2. Cardinality(Stream(ledger, a)) = n
  BY <1>1, ChainLength
<1> HIDE DEF n
<1>3. LogIn(ledger, a) = [j \in 1..n |-> CommandId(Row(j))]
  BY <1>2 DEF LogIn, LogOfRows
<1>4. Len(LogIn(ledger, a)) = n
  BY <1>1, <1>3
<1>5. i \in 1..n /\ \E r \in Stream(ledger, a) : r.ver = i
  BY <1>1, <1>4 DEF ChainTo
<1>6. Row(i) \in ledger
  BY <1>5 DEF Stream
<1> HIDE DEF Row
<1>7. QED BY <1>3, <1>5, <1>6

-----------------------------------------------------------------------------
(* The theorems *)

(* At every point of every interleaving, a committed stream is a chain, an *)
(* open transaction continues the chain it read, and its keys are its own. *)
THEOREM ChainInvariantHolds == Spec => []ChainInvariant
<1>1. Init => ChainInvariant
  BY InitChain
<1>2. ChainInvariant /\ [Next]_vars => ChainInvariant'
  BY StepChain
<1>3. QED BY <1>1, <1>2, PTL DEF Spec

(* The variables of the event store keep their types; a snapshot is always *)
(* a part of the committed ledger (rows are never updated or deleted).     *)
THEOREM TypeCorrect == Spec => []TypeOK
<1>1. ChainInvariant => TypeOK
  BY DEF ChainInvariant
<1>2. QED BY <1>1, ChainInvariantHolds, PTL

(* verify_hash_chain accepts every aggregate of the ledger, whatever the   *)
(* number of concurrent writers, their batches, their failed attempts and  *)
(* the crashes: optimistic retries of SaveWithAudit cannot corrupt it.     *)
THEOREM LedgerIntegrity == Spec => []LedgerVerifies
<1>1. ChainInvariant => LedgerVerifies
  <2>1. SUFFICES ASSUME ChainInvariant, NEW a \in Aggregates
                 PROVE  VerifyHashChain(ledger, a)
    BY DEF LedgerVerifies
  <2>2. Version(ledger, a) \in Nat /\ ChainTo(ledger, a, Version(ledger, a))
    BY <2>1 DEF ChainInvariant, Chained
  <2>3. QED BY <2>2, ChainVerifies
<1>2. QED BY <1>1, ChainInvariantHolds, PTL

(* The ids a reader sees of one aggregate grow: a row that becomes visible  *)
(* has a greater id than every visible row of its stream, so that a         *)
(* projection that follows ids never meets them out of version order.       *)
THEOREM StreamsGrowTheorem == Spec => StreamsGrowInIdOrder
<1> DEFINE Inv == ChainInvariant /\ IdsOK
<1>1. Init => Inv
  BY InitChain, IdsInit
<1>2. Inv /\ [Next]_vars => Inv'
  BY StepChain, IdsNext
<1>3. ASSUME Inv, [Next]_vars
      PROVE  [\A r \in ledger' \ ledger : \A s \in ledger : s.agg = r.agg => s.id < r.id]_ledger
  <2>1. SUFFICES ASSUME NEW r \in ledger' \ ledger, NEW s \in ledger, s.agg = r.agg
                 PROVE  s.id < r.id
    OBVIOUS
  <2>2. TypeOK
    BY <1>3 DEF ChainInvariant
  <2>3. ledger' # ledger
    BY <2>1
  <2>4. PICK w \in Writers : CommitRows(w)
    <3>1. \A w \in Writers : ~Begin(w) /\ ~Insert(w)
      BY <2>3 DEF Begin, Insert
    <3>2. ~Undone /\ ~UNCHANGED <<ledger, seq, snap, own>>
      BY <2>3 DEF Undone
    <3>3. QED BY <1>3, <2>2, <3>1, <3>2, RowSteps
  <2>5. pc[w] = "tx" /\ r \in own[w]
    BY <1>3, <2>1, <2>4, CommittedRows
  <2>6. QED BY <1>3, <2>1, <2>5, CommitInOrder
<1>4. QED BY <1>1, <1>2, <1>3, PTL DEF Spec, StreamsGrowInIdOrder

(* Ledger implements IdFeed: ids are handed out one by one at the insert,   *)
(* those of one transaction become visible together at its commit, and the  *)
(* ids of a rolled back one never do.                                       *)
THEOREM IdFeedTheorem == Spec => ImplementsIdFeed
<1> DEFINE Inv == ChainInvariant /\ IdsOK
<1>1. Init => Inv
  BY InitChain, IdsInit
<1>2. Inv /\ [Next]_vars => Inv'
  BY StepChain, IdsNext
<1>3. Init => Feed!FeedInit
  BY DEF Init, Feed!FeedInit
<1>4. ASSUME Inv, [Next]_vars PROVE [Feed!FeedNext]_(Feed!feed)
  <2>1. CASE UNCHANGED <<seq, InFlight, Shown>>
    BY <2>1 DEF Feed!feed, InFlight, Shown
  <2>2. CASE seq' = seq + 1 /\ InFlight' = InFlight \cup {seq + 1} /\ Shown' = Shown
    BY <2>2 DEF Feed!FeedNext, Feed!Assign, InFlight, Shown
  <2>3. CASE /\ seq' = seq
             /\ \E S \in SUBSET InFlight :
                   S # {} /\ InFlight' = InFlight \ S /\ Shown' = Shown \cup S
    BY <2>3 DEF Feed!FeedNext, Feed!Publish, InFlight, Shown
  <2>4. CASE seq' \in {seq, seq + 1} /\ InFlight' \subseteq InFlight /\ Shown' = Shown
    BY <2>4 DEF Feed!FeedNext, Feed!Drop, InFlight, Shown
  <2>5. QED BY <1>4, <2>1, <2>2, <2>3, <2>4, FeedStep
<1>5. QED BY <1>1, <1>2, <1>3, <1>4, PTL DEF Spec, ImplementsIdFeed, Feed!FeedSpec

(* Every failed attempt has a winner: a command that only version conflicts *)
(* can send back is at its n-th attempt because n - 1 other commands were   *)
(* saved to its aggregate, whatever the number of writers.                  *)
THEOREM WinnersTheorem == Spec => []EveryConflictHasAWinner
<1> DEFINE Inv == ChainInvariant /\ CommandsOK /\ BatchesOK /\ WinnersOK
<1>1. Init => Inv
  BY InitChain, CommandsInit
<1>2. Inv /\ [Next]_vars => Inv'
  BY StepChain, CommandsNext, BatchesNext, WinnersNext
<1>3. Inv => EveryConflictHasAWinner
  <2> SUFFICES ASSUME Inv, NEW w \in Writers \ Spurious, pc[w] \in {"save", "tx"}
               PROVE  attempt[w] <= Cardinality(Winners(w)) + 1
    BY DEF EveryConflictHasAWinner
  <2>1. IsFiniteSet(ledger) /\ snap[w] \in SUBSET ledger /\ attempt[w] \in Nat
    BY DEF BatchesOK, ChainInvariant, TypeOK
  <2>2. /\ Cardinality(WinnersIn(ledger, w)) \in Nat /\ Cardinality(WinnersIn(snap[w], w)) \in Nat
        /\ Cardinality(WinnersIn(snap[w], w)) <= Cardinality(WinnersIn(ledger, w))
    BY <2>1, WinnersGrow
  <2>3. Winners(w) = WinnersIn(ledger, w)
    BY DEF Winners, WinnersIn
  <2>4. \/ attempt[w] <= Cardinality(WinnersIn(ledger, w))
        \/ attempt[w] <= Cardinality(WinnersIn(snap[w], w)) + 1
    BY DEF WinnersOK
  <2>5. QED BY <2>1, <2>2, <2>3, <2>4
<1>4. QED BY <1>1, <1>2, <1>3, PTL DEF Spec

(* Ledger implements EventLog: every step appends one whole batch, of one   *)
(* command, to the end of one stream, or nothing; no command is appended    *)
(* twice, whatever is retried, lost or restarted.                           *)
THEOREM EventLogTheorem == Spec => ImplementsEventLog
<1> DEFINE Inv == ChainInvariant /\ CommandsOK
<1>1. Init => Inv
  BY InitChain, CommandsInit
<1>2. Inv /\ [Next]_vars => Inv'
  BY StepChain, CommandsNext
<1>3. Init => Log!LogInit
  <2>1. SUFFICES ASSUME Init, NEW a \in Aggregates PROVE LogOf(a) = <<>>
    BY DEF Log!LogInit
  <2>2. Stream(ledger, a) = {}
    BY <2>1 DEF Init, Stream
  <2>3. 1..Cardinality(Stream(ledger, a)) = {}
    BY <2>2, FS_EmptySet
  <2>4. QED BY <2>3 DEF LogOf
<1>4. ASSUME Inv, [Next]_vars PROVE [Log!LogNext]_([a \in Aggregates |-> LogOf(a)])
  <2>1. CASE ledger' = ledger
    BY <2>1 DEF LogOf, Stream
  <2>2. CASE ledger' # ledger
    <3>1. PICK w \in Writers : CommitRows(w)
      BY <1>4, <2>2, OnlyCommits DEF ChainInvariant
    <3> DEFINE t == target[w]
               b == [by |-> w, n |-> handled[w]]
    <3>2. /\ t \in Aggregates /\ b \in [by : Writers, n : 1..MaxCommands]
          /\ size[w] \in 1..MaxBatch
          /\ LogIn(ledger', t) = Extended(LogIn(ledger, t), b, size[w])
          /\ \A s \in Aggregates \ {t} : LogIn(ledger', s) = LogIn(ledger, s)
          /\ \A r \in ledger : CommandId(r) # b
      BY <1>4, <3>1, CommitAppends
    <3> HIDE DEF t, b
    <3>3. \A a \in Aggregates : LogOf(a) = LogIn(ledger, a) /\ LogOf(a)' = LogIn(ledger', a)
      BY DEF LogOf, LogIn, LogOfRows, Stream
    <3>4. b \notin Log!Appended
      BY <1>4, <3>2, <3>3, LoggedIsSaved DEF Log!Appended
    <3>5. [a \in Aggregates |-> LogOf(a)]'
             = [[a \in Aggregates |-> LogOf(a)] EXCEPT ![t] = @ \o [i \in 1..size[w] |-> b]]
      BY <3>2, <3>3 DEF Extended
    <3>6. Log!AppendBatch(t, b, size[w])
      BY <3>4, <3>5 DEF Log!AppendBatch
    <3>7. QED BY <3>2, <3>6 DEF Log!LogNext
  <2>3. QED BY <2>1, <2>2
<1>5. QED BY <1>1, <1>2, <1>3, <1>4, PTL DEF Spec, ImplementsEventLog, Log!LogSpec
=============================================================================
