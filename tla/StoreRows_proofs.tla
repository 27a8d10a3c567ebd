--------------------------- MODULE StoreRows_proofs ---------------------------
(***************************************************************************)
(* Lemmas about the store transactions of StoreRows: each leaves a row of  *)
(* the right type, and none leaves a row that claims of the server a       *)
(* revision above its own.                                                 *)
(***************************************************************************)
EXTENDS StoreRows, TLAPS

-----------------------------------------------------------------------------
(* Types *)

\* A row is its six fields.
LEMMA RowFields ==
    ASSUME NEW r \in Row
    PROVE  /\ r.rev \in Rev /\ r.synced \in Rev /\ r.sent \in Rev
           /\ r.rev.gen \in Nat /\ r.synced.gen \in Nat /\ r.sent.gen \in Nat
           /\ r.floor \in Nat /\ r.past \subseteq Content /\ r.seen \subseteq Edits
           /\ r.rev.hash # Tomb => r.rev.hash \in Content
    BY DEF Row, Rev

LEMMA VersionFields ==
    ASSUME NEW v \in Version
    PROVE  /\ v.rev \in Rev /\ v.rev.gen \in Nat /\ v.seen \subseteq Edits
           /\ ~VDeleted(v) => v.rev.hash \in Content
    BY DEF Version, Rev, VDeleted

LEMMA NoRevType == NoRev \in Rev /\ NoRev.gen = 0
    BY DEF NoRev, Rev

LEMMA NoRowType == NoRow \in Row
    BY NoRevType DEF NoRow, Row

LEMMA HigherType ==
    ASSUME NEW a \in Nat, NEW b \in Nat
    PROVE  Higher(a, b) \in Nat /\ Higher(a, b) >= a /\ Higher(a, b) >= b
    BY DEF Higher

LEMMA SnapshotType ==
    ASSUME NEW r \in Row, NEW kind
    PROVE  Snapshot(kind, r) \subseteq Content
    BY RowFields DEF Snapshot, Live, Deleted

LEMMA KeepRemoteType ==
    ASSUME NEW v \in Version, NEW past \in SUBSET Content
    PROVE  KeepRemote(past, v) \subseteq Content
    BY VersionFields DEF KeepRemote

LEMMA EditRowType ==
    ASSUME NEW r \in Row, NEW kind, NEW content \in Content, NEW edit \in Edits,
           NEW snapshots \in BOOLEAN
    PROVE  EditRow(kind, r, content, edit, snapshots) \in Row
  <1> DEFINE past == IF snapshots THEN Snapshot(kind, r) ELSE r.past
             rev == NextRev(r.rev, content)
             seen == r.seen \cup {edit}
  <1>1. past \in SUBSET Content /\ seen \in SUBSET Edits
    BY RowFields, SnapshotType
  <1>2. rev \in Rev
    BY RowFields DEF NextRev, Rev
  <1> HIDE DEF past, rev, seen
  <1>3. [r EXCEPT !.rev = rev, !.past = past, !.seen = seen] \in Row
    BY <1>1, <1>2 DEF Row
  <1> QED BY <1>3 DEF EditRow, past, rev, seen

LEMMA DeleteRowType ==
    ASSUME NEW r \in Row, NEW kind, NEW edit \in Edits, NEW ui \in BOOLEAN, Live(r)
    PROVE  DeleteRow(kind, r, edit, ui) \in Row
  <1> DEFINE past == IF ui THEN r.past \cup {r.rev.hash} ELSE Snapshot(kind, r)
             rev == NextRev(r.rev, Tomb)
             seen == r.seen \cup {edit}
  <1>1. past \in SUBSET Content /\ seen \in SUBSET Edits
    BY RowFields, SnapshotType DEF Live, Deleted
  <1>2. rev \in Rev
    BY RowFields DEF NextRev, Rev
  <1> HIDE DEF past, rev, seen
  <1>3. [r EXCEPT !.rev = rev, !.past = past, !.seen = seen] \in Row
    BY <1>1, <1>2 DEF Row
  <1> QED BY <1>3 DEF DeleteRow, past, rev, seen

LEMMA LearnedType ==
    ASSUME NEW r \in Row, NEW rev \in Rev
    PROVE  Learned(r, rev) \in Row
  <1>1. rev.gen \in Nat /\ r.floor \in Nat
    BY RowFields DEF Rev
  <1>2. PICK floor \in Nat : floor = Higher(r.floor, rev.gen)
    BY <1>1, HigherType
  <1>3. [r EXCEPT !.synced = rev, !.floor = floor, !.sent = NoRev] \in Row
    BY NoRevType DEF Row
  <1> QED BY <1>2, <1>3 DEF Learned

\* The floor is never below a generation learned.
LEMMA LearnedFloor ==
    ASSUME NEW r \in Row, NEW rev \in Rev
    PROVE  Learned(r, rev).floor \in Nat /\ Learned(r, rev).floor >= rev.gen
  <1>1. rev.gen \in Nat /\ r.floor \in Nat
    BY RowFields DEF Rev
  <1>2. Learned(r, rev).floor = Higher(r.floor, rev.gen)
    BY DEF Learned, Row
  <1> QED BY <1>1, <1>2, HigherType

LEMMA BookkeepingType ==
    ASSUME NEW r \in Row, NEW rev \in Rev
    PROVE  /\ MarkSent(r, rev) \in Row
           /\ MarkUnsynced(r) \in Row
           /\ MarkMissingRow(r) \in Row
           /\ BumpRevision(r) \in Row
           /\ ResetSync(r) \in Row
  <1>1. MarkSent(r, rev) \in Row
    BY DEF MarkSent, Row
  <1>2. MarkUnsynced(r) \in Row
    BY NoRevType DEF MarkUnsynced, Row
  <1>3. MarkMissingRow(r) \in Row
    BY <1>2 DEF MarkMissingRow
  <1>4. BumpRevision(r) \in Row
    <2>1. Rebased(r.rev, r.rev.gen) \in Rev
      BY RowFields DEF Rebased, Rev
    <2> QED BY <2>1 DEF BumpRevision, Row
  <1>5. ResetSync(r) \in Row
    <2> DEFINE synced == IF Deleted(r) THEN r.rev ELSE NoRev
    <2>1. synced \in Rev
      BY RowFields, NoRevType
    <2> HIDE DEF synced
    <2>2. [r EXCEPT !.synced = synced, !.floor = 0, !.sent = NoRev] \in Row
      BY <2>1, NoRevType DEF Row
    <2> QED BY <2>2 DEF ResetSync, synced
  <1> QED BY <1>1, <1>2, <1>3, <1>4, <1>5

-----------------------------------------------------------------------------
(* What a merge writes *)

\* Every content a merge makes of two live versions is a content.
LEMMA MergedType ==
    ASSUME NEW r \in Row, NEW v \in Version, NEW kind, Live(r), ~VDeleted(v)
    PROVE  DailyMerge(r, v) \in Content /\ Union(r, v) \in Content /\ Folded(kind, r, v) \in Content
  <1> DEFINE mine == r.rev.hash
             theirs == v.rev.hash
  <1>1. mine \in Content /\ theirs \in Content
    BY RowFields, VersionFields DEF Live, Deleted
  <1>2. AllBody(r, v) \in SUBSET Edits /\ AllFacts(r, v) \in SUBSET Edits
    BY <1>1 DEF AllBody, AllFacts, Content
  <1>3. Later(r, v) \in Times
    BY <1>1 DEF Later, Higher, Content
  <1>4. DailyMerge(r, v) \in Content
    BY <1>1, <1>2, <1>3 DEF DailyMerge, Content
  <1>5. Union(r, v) \in Content
    BY <1>2, <1>3 DEF Union, Content
  <1>6. Folded(kind, r, v) \in Content
    <2>1. Winner(kind, r, v) \in Content
      BY <1>1 DEF Winner
    <2> QED BY <2>1, <1>2 DEF Folded, Content
  <1> QED BY <1>4, <1>5, <1>6

\* The five ways apply_remote leaves a row.  A version at or below the floor
\* is stored only when this device never held its content, and otherwise
\* answered with the local content.
TakesRemote(kind, r, v, row) ==
    /\ row = StoreRemote(kind, r, v)
    /\ ~Exists(r) \/ v.rev.gen > r.floor \/ v.rev.hash \notin r.past

AnswersAbove(r, v, row) ==
    \E past \in SUBSET Content, content \in Content \cup {Tomb} :
      /\ row = StoreAbove(r, v, past, content)
      /\ v.rev.gen > r.floor \/ content = r.rev.hash

LearnsOwn(r, v, row) ==
    \/ r.synced = v.rev /\ row = r
    \/ r.rev = v.rev /\ row = [Learned(r, v.rev) EXCEPT !.seen = r.seen \cup v.seen]
    \/ r.sent = v.rev /\ row = Learned(r, v.rev)

\* apply_remote leaves a row in one of these ways, whatever the kind.
LEMMA ApplyRemoteWays ==
    ASSUME NEW r \in Row, NEW v \in Version, NEW kind
    PROVE  LET row == ApplyRemote(kind, r, v).row
           IN  TakesRemote(kind, r, v, row) \/ AnswersAbove(r, v, row) \/ LearnsOwn(r, v, row)
  <1> DEFINE row == ApplyRemote(kind, r, v).row
             Goal == TakesRemote(kind, r, v, row) \/ AnswersAbove(r, v, row) \/ LearnsOwn(r, v, row)
  <1>a. \A x, told : Outcome(x, told).row = x
    BY DEF Outcome
  <1>b. /\ r.past \in SUBSET Content
        /\ KeepRemote(r.past, v) \in SUBSET Content
        /\ KeepRemote(Snapshot(kind, r), v) \in SUBSET Content
        /\ r.rev.hash \in Content \cup {Tomb}
    BY RowFields, SnapshotType, KeepRemoteType
  <1>c. r.floor \in Nat /\ v.rev.gen \in Nat
    BY RowFields, VersionFields
  <1>1. CASE ~Exists(r)
    BY <1>1, <1>a DEF ApplyRemote, TakesRemote
  <1>2. CASE Exists(r) /\ (r.rev = v.rev \/ r.synced = v.rev \/ r.sent = v.rev)
    BY <1>2, <1>a DEF ApplyRemote, LearnsOwn
  <1> DEFINE New == Exists(r) /\ r.rev # v.rev /\ r.synced # v.rev /\ r.sent # v.rev
  <1>3. CASE New /\ v.rev.gen <= r.floor
    <2>1. row = ApplyStale(kind, r, v).row
      BY <1>3 DEF ApplyRemote
    <2>2. CASE NeverHeld(r, v) /\ Deleted(r) /\ kind # "review"
      BY <2>1, <2>2, <1>a DEF ApplyStale, TakesRemote, NeverHeld, HoldsContent
    <2>3. CASE ~(NeverHeld(r, v) /\ Deleted(r) /\ kind # "review")
      <3>1. \/ row = StoreAbove(r, v, KeepRemote(r.past, v), r.rev.hash)
            \/ row = StoreAbove(r, v, r.past, r.rev.hash)
        BY <2>1, <2>3, <1>a DEF ApplyStale, Rebase
      <3> QED BY <3>1, <1>b DEF AnswersAbove
    <2> QED BY <2>2, <2>3
  <1>4. CASE New /\ ~(v.rev.gen <= r.floor)
    <2>1. v.rev.gen > r.floor
      BY <1>4, <1>c
    <2>2. ASSUME BothLive(r, v)
          PROVE  /\ DailyMerge(r, v) \in Content \cup {Tomb}
                 /\ Union(r, v) \in Content \cup {Tomb}
                 /\ Folded(kind, r, v) \in Content \cup {Tomb}
      BY <2>2, MergedType DEF BothLive
    <2>3. CASE kind = "daily" /\ MadeApart(r, v)
      <3>1. row = ApplyDaily(kind, r, v).row
        BY <1>4, <2>3 DEF ApplyRemote
      <3>2. \/ row = StoreRemote(kind, r, v)
            \/ row = StoreAbove(r, v, KeepRemote(Snapshot(kind, r), v), DailyMerge(r, v))
        BY <3>1, <1>a DEF ApplyDaily
      <3> QED BY <3>2, <2>1, <2>2, <2>3, <1>b DEF AnswersAbove, TakesRemote, MadeApart
    <2>4. CASE /\ ~(kind = "daily" /\ MadeApart(r, v))
               /\ kind = "role" /\ MadeApart(r, v) /\ ~Given(r, v)
      <3>1. row = StoreRemote(kind, r, v)
        BY <1>4, <2>4, <1>a DEF ApplyRemote
      <3> QED BY <3>1, <2>1 DEF TakesRemote
    <2>5. CASE kind \in {"review", "canvas"} /\ Dirty(r) /\ BothLive(r, v)
      <3>1. row = ApplyUnion(kind, r, v).row
        BY <1>4, <2>5 DEF ApplyRemote
      <3>2. \/ row = StoreRemote(kind, r, v)
            \/ row = StoreAbove(r, v, KeepRemote(Snapshot(kind, r), v), Union(r, v))
            \/ row = StoreAbove(r, v, r.past, Union(r, v))
        BY <3>1, <1>a DEF ApplyUnion
      <3> QED BY <3>2, <2>1, <2>2, <2>5, <1>b DEF AnswersAbove, TakesRemote
    <2>6. CASE /\ ~(kind = "daily" /\ MadeApart(r, v))
               /\ ~(kind = "role" /\ MadeApart(r, v) /\ ~Given(r, v))
               /\ ~(kind \in {"review", "canvas"} /\ Dirty(r) /\ BothLive(r, v))
      <3>1. row = ApplyLastWriter(kind, r, v).row
        BY <1>4, <2>6 DEF ApplyRemote
      <3>2. \/ row = StoreRemote(kind, r, v)
            \/ row = StoreAbove(r, v, KeepRemote(r.past, v), r.rev.hash)
            \/ BothLive(r, v) /\ row = StoreAbove(r, v, KeepRemote(Snapshot(kind, r), v), Folded(kind, r, v))
        BY <3>1, <1>a DEF ApplyLastWriter, Rebase
      <3> QED BY <3>2, <2>1, <2>2, <1>b DEF AnswersAbove, TakesRemote
    <2> QED BY <2>3, <2>4, <2>5, <2>6
  <1> QED BY <1>1, <1>2, <1>3, <1>4

LEMMA StoreRemoteFields ==
    ASSUME NEW r \in Row, NEW v \in Version, NEW kind
    PROVE  LET row == StoreRemote(kind, r, v)
           IN  /\ row \in Row /\ row.rev = v.rev
               /\ row.synced = v.rev /\ row.floor >= v.rev.gen /\ row.sent = NoRev
  <1> DEFINE past == Snapshot(kind, r)
             taken == [r EXCEPT !.rev = v.rev, !.past = past, !.seen = v.seen]
  <1>1. past \in SUBSET Content /\ v.rev \in Rev /\ v.seen \in SUBSET Edits
    BY SnapshotType, VersionFields
  <1> HIDE DEF past
  <1>2. taken \in Row /\ taken.rev = v.rev
    BY <1>1 DEF Row
  <1> HIDE DEF taken
  <1>3. StoreRemote(kind, r, v) = Learned(taken, v.rev)
    BY DEF StoreRemote, taken, past
  <1>4. /\ Learned(taken, v.rev).rev = taken.rev
        /\ Learned(taken, v.rev).synced = v.rev
        /\ Learned(taken, v.rev).sent = NoRev
    BY <1>2 DEF Learned, Row
  <1>5. Learned(taken, v.rev) \in Row
    BY <1>1, <1>2, LearnedType
  <1>6. Learned(taken, v.rev).floor >= v.rev.gen
    BY <1>1, <1>2, LearnedFloor
  <1> QED BY <1>2, <1>3, <1>4, <1>5, <1>6

LEMMA StoreAboveFields ==
    ASSUME NEW r \in Row, NEW v \in Version,
           NEW past \in SUBSET Content, NEW content \in Content \cup {Tomb}
    PROVE  LET row == StoreAbove(r, v, past, content)
           IN  /\ row \in Row
               /\ row.rev.gen > r.rev.gen /\ row.rev.gen > v.rev.gen /\ row.rev.hash = content
               /\ row.synced = v.rev /\ row.floor >= v.rev.gen /\ row.sent = NoRev
  <1> DEFINE seen == r.seen \cup v.seen
             rev == [gen |-> Higher(r.rev.gen, v.rev.gen) + 1, hash |-> content]
             above == [r EXCEPT !.rev = rev, !.past = past, !.seen = seen]
  <1>a. PICK higher \in Nat : /\ higher = Higher(r.rev.gen, v.rev.gen)
                              /\ higher >= r.rev.gen /\ higher >= v.rev.gen
    BY RowFields, VersionFields, HigherType
  <1>b. rev = [gen |-> higher + 1, hash |-> content]
    BY <1>a
  <1>1. rev \in Rev /\ rev.gen > r.rev.gen /\ rev.gen > v.rev.gen /\ rev.hash = content
    <2>1. rev \in Rev /\ rev.gen = higher + 1 /\ rev.hash = content
      BY <1>b DEF Rev
    <2> QED BY <1>a, <2>1, RowFields, VersionFields
  <1>2. seen \in SUBSET Edits /\ v.rev \in Rev
    BY RowFields, VersionFields
  <1> HIDE DEF rev, seen
  <1>3. above \in Row /\ above.rev = rev
    BY <1>1, <1>2 DEF Row
  <1> HIDE DEF above
  <1>4. StoreAbove(r, v, past, content) = Learned(above, v.rev)
    BY DEF StoreAbove, above, rev, seen
  <1>5. /\ Learned(above, v.rev).rev = above.rev
        /\ Learned(above, v.rev).synced = v.rev
        /\ Learned(above, v.rev).sent = NoRev
    BY <1>3 DEF Learned, Row
  <1>6. Learned(above, v.rev) \in Row
    BY <1>2, <1>3, LearnedType
  <1>7. Learned(above, v.rev).floor >= v.rev.gen
    BY <1>2, <1>3, LearnedFloor
  <1> QED BY <1>1, <1>3, <1>4, <1>5, <1>6, <1>7

LEMMA ApplyRemoteType ==
    ASSUME NEW r \in Row, NEW v \in Version, NEW kind
    PROVE  ApplyRemote(kind, r, v).row \in Row
  <1> DEFINE row == ApplyRemote(kind, r, v).row
  <1>1. CASE TakesRemote(kind, r, v, row)
    BY <1>1, StoreRemoteFields DEF TakesRemote
  <1>2. CASE AnswersAbove(r, v, row)
    BY <1>2, StoreAboveFields DEF AnswersAbove
  <1>3. CASE LearnsOwn(r, v, row)
    <2>1. Learned(r, v.rev) \in Row
      BY VersionFields, LearnedType
    <2>2. r.seen \cup v.seen \in SUBSET Edits
      BY RowFields, VersionFields
    <2>3. [Learned(r, v.rev) EXCEPT !.seen = r.seen \cup v.seen] \in Row
      BY <2>1, <2>2 DEF Row
    <2> QED BY <1>3, <2>1, <2>3 DEF LearnsOwn
  <1> QED BY <1>1, <1>2, <1>3, ApplyRemoteWays

-----------------------------------------------------------------------------
(* Generations *)

LEMMA UptoHigher ==
    ASSUME NEW a \in Rev, NEW b \in Rev, NEW c \in Rev, Upto(a, b), b.gen < c.gen
    PROVE  Upto(a, c)
    BY DEF Upto, Rev

\* A pending row is pushed on a base below it.
LEMMA PendingBase ==
    ASSUME NEW r \in Row, RowInv(r), Pending(r)
    PROVE  PushBase(r).gen < r.rev.gen
    BY RowFields, NoRevType DEF RowInv, Pending, Exists, PushBase, Upto

\* Every transaction keeps RowInv.
LEMMA NoRowInv == RowInv(NoRow)
    BY DEF RowInv, NoRow, Upto

\* One that gives the row a higher revision and learns nothing.
LEMMA RaisedInv ==
    ASSUME NEW r \in Row, RowInv(r), NEW q \in Row,
           q.rev.gen > r.rev.gen, q.synced = r.synced, q.sent = r.sent
    PROVE  RowInv(q)
  <1>1. Upto(q.synced, q.rev) /\ Upto(q.sent, q.rev)
    BY RowFields, UptoHigher DEF RowInv
  <1>2. q.rev.gen # 0
    BY RowFields
  <1> QED BY <1>1, <1>2 DEF RowInv

LEMMA EditRowInv ==
    ASSUME NEW r \in Row, RowInv(r), NEW kind, NEW content \in Content, NEW edit \in Edits,
           NEW snapshots \in BOOLEAN
    PROVE  LET q == EditRow(kind, r, content, edit, snapshots)
           IN  RowInv(q) /\ q.rev.gen > r.rev.gen
  <1> DEFINE q == EditRow(kind, r, content, edit, snapshots)
  <1>1. q.rev.gen = r.rev.gen + 1 /\ q.synced = r.synced /\ q.sent = r.sent
    BY DEF EditRow, NextRev, Row
  <1>2. q.rev.gen > r.rev.gen
    BY <1>1, RowFields
  <1>3. q \in Row
    BY EditRowType
  <1> HIDE DEF q
  <1>4. RowInv(q)
    BY <1>1, <1>2, <1>3, RaisedInv
  <1> QED BY <1>2, <1>4 DEF q

LEMMA DeleteRowInv ==
    ASSUME NEW r \in Row, RowInv(r), NEW kind, NEW edit \in Edits, NEW ui \in BOOLEAN, Live(r)
    PROVE  LET q == DeleteRow(kind, r, edit, ui)
           IN  RowInv(q) /\ q.rev.gen > r.rev.gen
  <1> DEFINE q == DeleteRow(kind, r, edit, ui)
  <1>1. q.rev.gen = r.rev.gen + 1 /\ q.synced = r.synced /\ q.sent = r.sent
    BY DEF DeleteRow, NextRev, Row
  <1>2. q.rev.gen > r.rev.gen
    BY <1>1, RowFields
  <1>3. q \in Row
    BY DeleteRowType
  <1> HIDE DEF q
  <1>4. RowInv(q)
    BY <1>1, <1>2, <1>3, RaisedInv
  <1> QED BY <1>2, <1>4 DEF q

LEMMA BumpRevisionInv ==
    ASSUME NEW r \in Row, RowInv(r)
    PROVE  LET q == BumpRevision(r)
           IN  RowInv(q) /\ q.rev.gen > r.rev.gen /\ q.rev.hash = r.rev.hash
  <1> DEFINE q == BumpRevision(r)
  <1>1. q.rev.gen = r.rev.gen + 1 /\ q.rev.hash = r.rev.hash /\ q.synced = r.synced /\ q.sent = r.sent
    BY DEF BumpRevision, Rebased, Row
  <1>2. q.rev.gen > r.rev.gen
    BY <1>1, RowFields
  <1>3. q \in Row
    BY BookkeepingType, NoRevType
  <1> HIDE DEF q
  <1>4. RowInv(q)
    BY <1>1, <1>2, <1>3, RaisedInv
  <1> QED BY <1>1, <1>2, <1>4 DEF q

\* The server's acceptance of a revision on the way to the row's own.
LEMMA LearnedInv ==
    ASSUME NEW r \in Row, RowInv(r), NEW rev \in Rev, rev.gen > 0, Upto(rev, r.rev)
    PROVE  LET q == Learned(r, rev)
           IN  RowInv(q) /\ q.rev = r.rev
  <1> DEFINE q == Learned(r, rev)
  <1>1. q.rev = r.rev /\ q.synced = rev /\ q.sent = NoRev
    BY DEF Learned, Row
  <1> HIDE DEF q
  <1>2. r.rev.gen > 0
    BY RowFields DEF Upto, Rev
  <1>3. Upto(NoRev, r.rev)
    BY <1>2, NoRevType, RowFields DEF Upto
  <1>4. RowInv(q)
    BY <1>1, <1>2, <1>3, RowFields DEF RowInv
  <1> QED BY <1>1, <1>4 DEF q

LEMMA MarkSentInv ==
    ASSUME NEW r \in Row, RowInv(r), NEW rev \in Rev, rev.gen > 0, Upto(rev, r.rev)
    PROVE  LET q == MarkSent(r, rev)
           IN  RowInv(q) /\ q.rev = r.rev
  <1>1. r.rev.gen > 0
    BY RowFields DEF Upto, Rev
  <1> QED BY <1>1, RowFields DEF MarkSent, RowInv, Row

LEMMA MarkUnsyncedInv ==
    ASSUME NEW r \in Row, RowInv(r)
    PROVE  LET q == MarkUnsynced(r)
           IN  RowInv(q) /\ q.rev = r.rev
  <1>1. CASE r.rev.gen = 0
    <2>1. r.rev = NoRev /\ r.past = {}
      BY <1>1 DEF RowInv
    <2>2. LET q == MarkUnsynced(r) IN q.rev = NoRev /\ q.synced = NoRev /\ q.sent = NoRev /\ q.past = {}
      BY <2>1 DEF MarkUnsynced, Row
    <2> QED BY <2>1, <2>2 DEF RowInv, Upto
  <1>2. CASE r.rev.gen # 0
    BY <1>2, RowFields, NoRevType DEF RowInv, MarkUnsynced, Upto, Row
  <1> QED BY <1>1, <1>2

LEMMA MarkMissingRowInv ==
    ASSUME NEW r \in Row, RowInv(r)
    PROVE  LET q == MarkMissingRow(r)
           IN  RowInv(q) /\ q.rev = r.rev
    BY MarkUnsyncedInv DEF MarkMissingRow

LEMMA ResetSyncInv ==
    ASSUME NEW r \in Row, RowInv(r)
    PROVE  RowInv(ResetSync(r))
  <1>1. CASE r.rev.gen = 0
    <2>1. r.rev = NoRev /\ r.past = {}
      BY <1>1 DEF RowInv
    <2>2. LET q == ResetSync(r) IN q.rev = NoRev /\ q.synced = NoRev /\ q.sent = NoRev /\ q.past = {}
      BY <2>1 DEF ResetSync, Row
    <2> QED BY <2>1, <2>2 DEF RowInv, Upto
  <1>2. CASE r.rev.gen # 0
    BY <1>2, RowFields, NoRevType DEF RowInv, ResetSync, Upto, Row
  <1> QED BY <1>1, <1>2

\* Whatever version of whatever document arrives, apply_remote keeps RowInv.
LEMMA ApplyRemoteInv ==
    ASSUME NEW r \in Row, RowInv(r), NEW v \in Version, v.rev.gen > 0, NEW kind
    PROVE  RowInv(ApplyRemote(kind, r, v).row)
  <1> DEFINE row == ApplyRemote(kind, r, v).row
  <1>1. CASE TakesRemote(kind, r, v, row)
    <2>1. row.rev = v.rev /\ row.synced = v.rev /\ row.sent = NoRev
      BY <1>1, StoreRemoteFields DEF TakesRemote
    <2> QED BY <2>1, VersionFields, NoRevType DEF RowInv, Upto
  <1>2. CASE AnswersAbove(r, v, row)
    <2>1. /\ row.rev.gen > v.rev.gen /\ row.synced = v.rev /\ row.sent = NoRev
          /\ row.rev.gen \in Nat
      BY <1>2, StoreAboveFields, ApplyRemoteType, RowFields DEF AnswersAbove
    <2> QED BY <2>1, VersionFields, NoRevType DEF RowInv, Upto
  <1>3. CASE LearnsOwn(r, v, row)
    <2>1. CASE row = r
      BY <2>1
    <2>2. CASE r.rev = v.rev /\ row = [Learned(r, v.rev) EXCEPT !.seen = r.seen \cup v.seen]
      <3>1. row.rev = r.rev /\ row.synced = v.rev /\ row.sent = NoRev
        BY <2>2 DEF Learned, Row
      <3> QED BY <2>2, <3>1, VersionFields, NoRevType DEF RowInv, Upto
    <2>3. CASE r.sent = v.rev /\ row = Learned(r, v.rev)
      BY <2>3, VersionFields, LearnedInv DEF RowInv
    <2> QED BY <1>3, <2>1, <2>2, <2>3 DEF LearnsOwn
  <1> QED BY <1>1, <1>2, <1>3, ApplyRemoteWays

\* A content of the row's own history only comes back above the floor.
LEMMA ApplyRemoteNeverReverts ==
    ASSUME NEW r \in Row, RowInv(r), NEW v \in Version, NEW kind
    PROVE  LET q == ApplyRemote(kind, r, v).row
           IN  q.rev.hash \in r.past /\ q.rev.hash # r.rev.hash => q.rev.gen > r.floor
  <1> DEFINE q == ApplyRemote(kind, r, v).row
  <1> SUFFICES ASSUME q.rev.hash \in r.past, q.rev.hash # r.rev.hash
               PROVE  q.rev.gen > r.floor
      OBVIOUS
  <1>1. CASE TakesRemote(kind, r, v, q)
    <2>1. q.rev = v.rev
      BY <1>1, StoreRemoteFields DEF TakesRemote
    <2>2. Exists(r)
      BY DEF RowInv, Exists
    <2> QED BY <1>1, <2>1, <2>2 DEF TakesRemote
  <1>2. CASE AnswersAbove(r, v, q)
    <2>1. q.rev.gen > v.rev.gen /\ v.rev.gen > r.floor
      BY <1>2, StoreAboveFields DEF AnswersAbove
    <2>2. q.rev.gen \in Nat /\ v.rev.gen \in Nat /\ r.floor \in Nat
      BY RowFields, VersionFields, ApplyRemoteType
    <2> QED BY <2>1, <2>2
  <1>3. CASE LearnsOwn(r, v, q)
    <2>1. Learned(r, v.rev).rev = r.rev
      BY DEF Learned, Row
    <2>2. q.rev = r.rev
      <3>1. CASE q = [Learned(r, v.rev) EXCEPT !.seen = r.seen \cup v.seen]
        <4>1. Learned(r, v.rev) \in Row
          BY VersionFields, LearnedType
        <4> QED BY <3>1, <4>1, <2>1 DEF Row
      <3> QED BY <1>3, <2>1, <3>1 DEF LearnsOwn
    <2> QED BY <2>2
  <1> QED BY <1>1, <1>2, <1>3, ApplyRemoteWays

-----------------------------------------------------------------------------
(* The base of the next push *)

\* A row whose floor is 0 learned nothing from this account: what it calls
\* synced is nothing, or the tombstone reset_sync keeps off the account.
RowBase(r) == r.floor = 0 => r.synced = NoRev \/ r.synced.hash = Tomb

\* What apply_remote leaves knows of the version it was given.
LEMMA ApplyRemoteBase ==
    ASSUME NEW r \in Row, RowInv(r), RowBase(r), NEW v \in Version, v.rev.gen > 0, NEW kind
    PROVE  LET q == ApplyRemote(kind, r, v).row
           IN  q.synced = v.rev /\ Exists(q) /\ RowBase(q)
  <1> DEFINE q == ApplyRemote(kind, r, v).row
  <1>a. v.rev \in Rev /\ v.rev.gen \in Nat /\ r.rev.gen \in Nat /\ q \in Row
    BY RowFields, VersionFields, ApplyRemoteType
  <1>b. q.rev.gen \in Nat /\ q.floor \in Nat
    BY <1>a, RowFields
  <1>1. CASE TakesRemote(kind, r, v, q)
    <2>1. q.rev = v.rev /\ q.synced = v.rev /\ q.floor >= v.rev.gen
      BY <1>1, StoreRemoteFields DEF TakesRemote
    <2> QED BY <2>1, <1>a, <1>b DEF Exists, RowBase
  <1>2. CASE AnswersAbove(r, v, q)
    <2>1. q.rev.gen > v.rev.gen /\ q.synced = v.rev /\ q.floor >= v.rev.gen
      BY <1>2, StoreAboveFields DEF AnswersAbove
    <2> QED BY <2>1, <1>a, <1>b DEF Exists, RowBase
  <1>3. CASE LearnsOwn(r, v, q)
    <2>1. CASE r.synced = v.rev /\ q = r
      BY <2>1, <1>a DEF RowInv, Upto, Exists
    <2> DEFINE own == Learned(r, v.rev)
    <2>2. own \in Row /\ own.rev = r.rev /\ own.synced = v.rev /\ own.floor >= v.rev.gen
      <3>1. own.rev = r.rev /\ own.synced = v.rev
        BY DEF Learned, Row
      <3> QED BY <3>1, <1>a, LearnedType, LearnedFloor
    <2> HIDE DEF own
    <2>3. ASSUME Upto(v.rev, r.rev), q.rev = r.rev, q.synced = v.rev, q.floor >= v.rev.gen
          PROVE  q.synced = v.rev /\ Exists(q) /\ RowBase(q)
      BY <2>3, <1>a, <1>b DEF Upto, Exists, RowBase
    <2>4. CASE r.rev = v.rev /\ q = [own EXCEPT !.seen = r.seen \cup v.seen]
      <3>1. q.rev = r.rev /\ q.synced = v.rev /\ q.floor = own.floor
        BY <2>2, <2>4 DEF Row
      <3> QED BY <2>2, <2>3, <2>4, <3>1 DEF Upto
    <2>5. CASE r.sent = v.rev /\ q = own
      BY <2>2, <2>3, <2>5 DEF RowInv
    <2> QED BY <1>3, <2>1, <2>4, <2>5 DEF LearnsOwn, own
  <1> QED BY <1>1, <1>2, <1>3, ApplyRemoteWays

-----------------------------------------------------------------------------
(* What apply_remote keeps of the local version *)

\* The outcomes that the engine flags outside a re-merge.
Conflicts == {"RemoteWon", "LocalWon", "StaleConflict"}

\* A content in the place of the row's: of a pending row's, of a live row's,
\* and of a daily note's that never reached this account.
PendingOutlives(kind, r, content, flagged) ==
    Exists(r) /\ Dirty(r) =>
      /\ kind = "review" /\ Deleted(r) => content = Tomb
      /\ kind # "review" /\ Live(r) => content # Tomb
      /\ Live(r) /\ content # r.rev.hash =>
           flagged \/ (kind \in {"daily", "role"} /\ r.rev.hash.body \subseteq content.body)
      /\ Live(r) /\ content # Tomb /\ kind \notin {"plain", "role"} /\ (kind = "daily" => r.floor # 0)
           => r.rev.hash.facts \subseteq content.facts

ReplacedInPast(kind, r, content, past) ==
    Live(r) /\ content # r.rev.hash /\ kind # "review" => r.rev.hash \in past

LinesMerged(kind, r, content) ==
    kind = "daily" /\ Live(r) /\ r.floor = 0 /\ r.synced = NoRev /\ content # Tomb =>
      r.rev.hash.body \subseteq content.body

Keeps(kind, r, content, past, flagged) ==
    /\ PendingOutlives(kind, r, content, flagged)
    /\ ReplacedInPast(kind, r, content, past)
    /\ LinesMerged(kind, r, content)

LEMMA KeepsOwn ==
    ASSUME NEW r, NEW kind, NEW past, NEW flagged
    PROVE  Keeps(kind, r, r.rev.hash, past, flagged)
    BY DEF Keeps, PendingOutlives, ReplacedInPast, LinesMerged, Live, Deleted

LEMMA StoreRemotePast ==
    ASSUME NEW r \in Row, NEW v \in Version, NEW kind
    PROVE  LET row == StoreRemote(kind, r, v)
           IN  row.rev.hash = v.rev.hash /\ row.past = Snapshot(kind, r)
  <1>1. StoreRemote(kind, r, v).past = Snapshot(kind, r)
    BY DEF StoreRemote, Learned, Row
  <1> QED BY <1>1, StoreRemoteFields

LEMMA StoreAbovePast ==
    ASSUME NEW r \in Row, NEW v \in Version,
           NEW past \in SUBSET Content, NEW content \in Content \cup {Tomb}
    PROVE  LET row == StoreAbove(r, v, past, content)
           IN  row.rev.hash = content /\ row.past = past
  <1>1. StoreAbove(r, v, past, content).past = past
    BY DEF StoreAbove, Learned, Row
  <1> QED BY <1>1, StoreAboveFields

\* What each merge of two live versions holds of both.
LEMMA MergedHolds ==
    ASSUME NEW r \in Row, NEW v \in Version, NEW kind, Live(r), ~VDeleted(v)
    PROVE  /\ r.rev.hash.body \subseteq DailyMerge(r, v).body
           /\ r.rev.hash.body \subseteq Union(r, v).body
           /\ r.rev.hash.facts \subseteq Union(r, v).facts
           /\ r.rev.hash.facts \subseteq Folded(kind, r, v).facts
           /\ Tomb \notin {DailyMerge(r, v), Union(r, v), Folded(kind, r, v)}
  <1> DEFINE mine == r.rev.hash
             theirs == v.rev.hash
  <1>1. mine \in Content /\ theirs \in Content
    BY RowFields, VersionFields DEF Live, Deleted
  <1>2. Winner(kind, r, v) \in Content
    BY <1>1 DEF Winner
  <1>3. DailyMerge(r, v).body = AllBody(r, v)
    BY <1>1 DEF DailyMerge, Content
  <1>4. Folded(kind, r, v).facts = AllFacts(r, v)
    BY <1>2 DEF Folded, Content
  <1>5. Union(r, v).body = AllBody(r, v) /\ Union(r, v).facts = AllFacts(r, v)
    BY DEF Union
  <1>6. Tomb \notin Content
    BY DEF Tomb, Content, Times
  <1> QED BY <1>3, <1>4, <1>5, <1>6, MergedType DEF AllBody, AllFacts

LEMMA SnapshotKeeps ==
    ASSUME NEW r, NEW kind, NEW v, Live(r), kind # "review"
    PROVE  /\ r.rev.hash \in Snapshot(kind, r)
           /\ r.rev.hash \in KeepRemote(Snapshot(kind, r), v)
    BY DEF Snapshot, KeepRemote

\* Whatever version arrives above generation 0, apply_remote keeps of the local
\* one what it owes it.
LEMMA ApplyRemoteKeeps ==
    ASSUME NEW r \in Row, NEW v \in Version, NEW kind \in Kinds, Exists(r), v.rev.gen > 0
    PROVE  LET o == ApplyRemote(kind, r, v)
           IN  Keeps(kind, r, o.row.rev.hash, o.row.past, o.told \in Conflicts)
  <1> DEFINE o == ApplyRemote(kind, r, v)
             Goal == Keeps(kind, r, o.row.rev.hash, o.row.past, o.told \in Conflicts)
  <1>a. \A x, told : Outcome(x, told).row = x /\ Outcome(x, told).told = told
    BY DEF Outcome
  <1>b. r.floor \in Nat /\ v.rev.gen \in Nat /\ v.rev \in Rev
    BY RowFields, VersionFields
  <1>c. ASSUME o.row.rev.hash = r.rev.hash
        PROVE  Goal
    BY <1>c, KeepsOwn
  <1>d. ASSUME NEW told, o = Outcome(StoreRemote(kind, r, v), told),
               Keeps(kind, r, v.rev.hash, Snapshot(kind, r), told \in Conflicts)
        PROVE  Goal
    BY <1>a, <1>d, StoreRemotePast
  <1>e. ASSUME NEW past \in SUBSET Content, NEW content \in Content \cup {Tomb},
               o = Outcome(StoreAbove(r, v, past, content), "LocalWon"),
               Keeps(kind, r, content, past, TRUE)
        PROVE  Goal
    <2>1. o.told = "LocalWon" /\ o.row = StoreAbove(r, v, past, content)
      BY <1>a, <1>e
    <2>2. (o.told \in Conflicts) = TRUE
      BY <2>1 DEF Conflicts
    <2>3. o.row.rev.hash = content /\ o.row.past = past
      BY <2>1, StoreAbovePast
    <2> QED BY <1>e, <2>2, <2>3
  <1>f. /\ r.past \in SUBSET Content /\ KeepRemote(r.past, v) \in SUBSET Content
        /\ KeepRemote(Snapshot(kind, r), v) \in SUBSET Content
        /\ r.rev.hash \in Content \cup {Tomb}
    BY RowFields, SnapshotType, KeepRemoteType
  <1>g. ASSUME NEW past \in SUBSET Content, NEW told, o = Outcome(Rebase(r, v, past), told)
        PROVE  Goal
    BY <1>a, <1>c, <1>f, <1>g, StoreAbovePast DEF Rebase
  <1>1. CASE r.rev = v.rev \/ r.synced = v.rev \/ r.sent = v.rev
    <2>1. Learned(r, v.rev).rev = r.rev /\ Learned(r, v.rev) \in Row
      BY <1>b, LearnedType DEF Learned, Row
    <2>2. [Learned(r, v.rev) EXCEPT !.seen = r.seen \cup v.seen].rev = r.rev
      BY <2>1 DEF Row
    <2>3. o.row.rev = r.rev
      BY <1>1, <1>a, <2>1, <2>2 DEF ApplyRemote
    <2> QED BY <2>3, <1>c
  <1> DEFINE New == r.rev # v.rev /\ r.synced # v.rev /\ r.sent # v.rev
  <1>2. CASE New /\ v.rev.gen <= r.floor
    <2>1. o = ApplyStale(kind, r, v)
      BY <1>2 DEF ApplyRemote
    <2>2. CASE NeverHeld(r, v) /\ Deleted(r) /\ kind # "review"
      <3>1. o = Outcome(StoreRemote(kind, r, v), "RemoteWon")
        BY <2>1, <2>2 DEF ApplyStale
      <3>2. Keeps(kind, r, v.rev.hash, Snapshot(kind, r), "RemoteWon" \in Conflicts)
        BY <2>2 DEF Keeps, PendingOutlives, ReplacedInPast, LinesMerged, Live
      <3> QED BY <3>1, <3>2, <1>d
    <2>3. CASE ~(NeverHeld(r, v) /\ Deleted(r) /\ kind # "review")
      BY <2>1, <2>3, <1>f, <1>g DEF ApplyStale
    <2> QED BY <2>2, <2>3
  <1> DEFINE Above == New /\ ~(v.rev.gen <= r.floor)
  <1>3. CASE Above /\ kind = "daily" /\ MadeApart(r, v)
    <2>1. o = ApplyDaily(kind, r, v)
      BY <1>3 DEF ApplyRemote
    <2>2. Live(r) /\ ~VDeleted(v) /\ r.floor = 0 /\ kind = "daily"
      BY <1>3 DEF MadeApart, BothLive
    <2>3. CASE r.rev.hash.body \subseteq v.rev.hash.body
      <3>1. o = Outcome(StoreRemote(kind, r, v), "Applied")
        BY <2>1, <2>3 DEF ApplyDaily
      <3>2. Keeps(kind, r, v.rev.hash, Snapshot(kind, r), "Applied" \in Conflicts)
        BY <2>2, <2>3, SnapshotKeeps DEF Keeps, PendingOutlives, ReplacedInPast, LinesMerged, VDeleted
      <3> QED BY <3>1, <3>2, <1>d
    <2>4. CASE ~(r.rev.hash.body \subseteq v.rev.hash.body)
      <3>1. o = Outcome(StoreAbove(r, v, KeepRemote(Snapshot(kind, r), v), DailyMerge(r, v)), "LocalWon")
        BY <2>1, <2>4 DEF ApplyDaily
      <3>2. Keeps(kind, r, DailyMerge(r, v), KeepRemote(Snapshot(kind, r), v), TRUE)
        BY <2>2, SnapshotKeeps, MergedHolds DEF Keeps, PendingOutlives, ReplacedInPast, LinesMerged
      <3> QED BY <3>1, <3>2, <2>2, <1>e, <1>f, MergedType
    <2> QED BY <2>3, <2>4
  <1>4. CASE Above /\ kind = "role" /\ MadeApart(r, v) /\ ~Given(r, v)
    <2>1. o = Outcome(StoreRemote(kind, r, v), "Applied")
      BY <1>4 DEF ApplyRemote
    <2>2. Live(r) /\ ~VDeleted(v) /\ kind = "role"
      BY <1>4 DEF MadeApart, BothLive
    <2>3. r.rev.hash.body \subseteq v.rev.hash.body
      BY <1>4 DEF Given
    <2>4. Keeps(kind, r, v.rev.hash, Snapshot(kind, r), "Applied" \in Conflicts)
      BY <2>2, <2>3, SnapshotKeeps DEF Keeps, PendingOutlives, ReplacedInPast, LinesMerged, VDeleted
    <2> QED BY <2>1, <2>4, <1>d
  <1> DEFINE Apart == \/ kind = "daily" /\ MadeApart(r, v)
                      \/ kind = "role" /\ MadeApart(r, v) /\ ~Given(r, v)
  <1>5. CASE Above /\ ~Apart /\ kind \in {"review", "canvas"} /\ Dirty(r) /\ BothLive(r, v)
    <2>1. o = ApplyUnion(kind, r, v)
      BY <1>5 DEF ApplyRemote
    <2>2. Live(r) /\ ~VDeleted(v) /\ kind \in {"review", "canvas"}
      BY <1>5 DEF BothLive
    <2>3. CASE Union(r, v) = v.rev.hash
      <3>1. o = Outcome(StoreRemote(kind, r, v), "RemoteWon")
        BY <2>1, <2>3 DEF ApplyUnion
      <3>2. Keeps(kind, r, v.rev.hash, Snapshot(kind, r), "RemoteWon" \in Conflicts)
        BY <2>2, <2>3, SnapshotKeeps, MergedHolds
           DEF Keeps, PendingOutlives, ReplacedInPast, LinesMerged, VDeleted, Live, Conflicts
      <3> QED BY <3>1, <3>2, <1>d
    <2>4. CASE Union(r, v) # v.rev.hash
      <3> DEFINE past == IF kind = "canvas" THEN KeepRemote(Snapshot(kind, r), v) ELSE r.past
      <3>1. o = Outcome(StoreAbove(r, v, past, Union(r, v)), "LocalWon")
        BY <2>1, <2>4 DEF ApplyUnion
      <3>2. past \in SUBSET Content
        BY <1>f
      <3>3. kind # "review" => r.rev.hash \in past
        BY <2>2, SnapshotKeeps
      <3> HIDE DEF past
      <3>4. Keeps(kind, r, Union(r, v), past, TRUE)
        BY <2>2, <3>3, MergedHolds DEF Keeps, PendingOutlives, ReplacedInPast, LinesMerged, Live
      <3> QED BY <3>1, <3>2, <3>4, <2>2, <1>e, MergedType
    <2> QED BY <2>3, <2>4
  <1>6. CASE Above /\ ~Apart /\ ~(kind \in {"review", "canvas"} /\ Dirty(r) /\ BothLive(r, v))
    <2>1. o = ApplyLastWriter(kind, r, v)
      BY <1>6 DEF ApplyRemote
    <2> DEFINE Folds == Dirty(r) /\ kind \in {"note", "canvas", "daily", "role"} /\ BothLive(r, v)
    <2>2. CASE Folds /\ Folded(kind, r, v) # Winner(kind, r, v)
      <3>1. o = Outcome(StoreAbove(r, v, KeepRemote(Snapshot(kind, r), v), Folded(kind, r, v)), "LocalWon")
        BY <2>1, <2>2 DEF ApplyLastWriter
      <3>2. Live(r) /\ ~VDeleted(v) /\ kind # "review"
        BY <2>2 DEF BothLive
      <3>3. ~(kind = "daily" /\ r.floor = 0 /\ r.synced = NoRev)
        BY <1>6, <2>2 DEF MadeApart
      <3>4. Keeps(kind, r, Folded(kind, r, v), KeepRemote(Snapshot(kind, r), v), TRUE)
        BY <3>2, <3>3, SnapshotKeeps, MergedHolds
           DEF Keeps, PendingOutlives, ReplacedInPast, LinesMerged, Live
      <3> QED BY <3>1, <3>2, <3>4, <1>e, <1>f, MergedType
    <2> DEFINE Whole == ~(Folds /\ Folded(kind, r, v) # Winner(kind, r, v))
    <2>3. CASE Whole /\ RemoteWins(kind, r, v)
      <3> DEFINE told == IF Dirty(r) THEN "RemoteWon" ELSE "Applied"
      <3>1. o = Outcome(StoreRemote(kind, r, v), told)
        BY <2>1, <2>3 DEF ApplyLastWriter
      <3>2. PendingOutlives(kind, r, v.rev.hash, told \in Conflicts)
        <4> SUFFICES ASSUME Dirty(r) PROVE PendingOutlives(kind, r, v.rev.hash, TRUE)
            BY DEF PendingOutlives, Conflicts
        <4>1. CASE Live(r) /\ ~VDeleted(v)
          <5>1. kind \notin {"review", "canvas"}
            BY <1>6, <4>1 DEF BothLive
          <5>2. kind \in {"note", "daily"} => r.rev.hash.facts \subseteq v.rev.hash.facts
            <6>1. kind \in {"note", "daily"} => Folded(kind, r, v) = Winner(kind, r, v)
              BY <2>3, <4>1 DEF BothLive
            <6>2. Winner(kind, r, v) = v.rev.hash
              BY <2>3 DEF Winner
            <6> QED BY <4>1, <6>1, <6>2, MergedHolds
          <5> QED BY <4>1, <5>1, <5>2 DEF PendingOutlives, VDeleted, Live, Deleted, Kinds
        <4>2. CASE Deleted(r)
          BY <4>2, <2>3 DEF PendingOutlives, RemoteWins, BothLive, Live, VDeleted
        <4>3. CASE Live(r) /\ VDeleted(v)
          BY <4>3, <2>3 DEF PendingOutlives, RemoteWins, BothLive, Live, VDeleted
        <4> QED BY <4>1, <4>2, <4>3 DEF Live
      <3>3. LinesMerged(kind, r, v.rev.hash)
        BY <1>6, <1>b DEF LinesMerged, MadeApart, BothLive, VDeleted
      <3>4. ReplacedInPast(kind, r, v.rev.hash, Snapshot(kind, r))
        BY SnapshotKeeps DEF ReplacedInPast
      <3> QED BY <3>1, <3>2, <3>3, <3>4, <1>d DEF Keeps
    <2>4. CASE Whole /\ ~RemoteWins(kind, r, v)
      BY <2>1, <2>4, <1>f, <1>g DEF ApplyLastWriter
    <2> QED BY <2>2, <2>3, <2>4
  <1> QED BY <1>1, <1>2, <1>3, <1>4, <1>5, <1>6

\* apply_remote leaves a floor that is not below the version it was given, or
\* the row as it was.
LEMMA ApplyRemoteFloor ==
    ASSUME NEW r \in Row, NEW v \in Version, NEW kind
    PROVE  LET q == ApplyRemote(kind, r, v).row
           IN  (q.floor \in Nat /\ q.floor >= v.rev.gen) \/ (q = r /\ r.synced = v.rev)
  <1> DEFINE q == ApplyRemote(kind, r, v).row
  <1>1. q.floor \in Nat
    BY ApplyRemoteType, RowFields
  <1>2. CASE TakesRemote(kind, r, v, q)
    BY <1>1, <1>2, StoreRemoteFields DEF TakesRemote
  <1>3. CASE AnswersAbove(r, v, q)
    BY <1>1, <1>3, StoreAboveFields DEF AnswersAbove
  <1>4. CASE LearnsOwn(r, v, q)
    <2>1. Learned(r, v.rev) \in Row /\ Learned(r, v.rev).floor >= v.rev.gen
      BY VersionFields, LearnedType, LearnedFloor
    <2>2. [Learned(r, v.rev) EXCEPT !.seen = r.seen \cup v.seen].floor = Learned(r, v.rev).floor
      BY <2>1 DEF Row
    <2> QED BY <1>1, <1>4, <2>1, <2>2 DEF LearnsOwn
  <1> QED BY <1>2, <1>3, <1>4, ApplyRemoteWays
=============================================================================
