-------------------------- MODULE AccountSync_proofs --------------------------
(***************************************************************************)
(* Type correctness, GenerationsGrow and ReplayNeverReverts, for any       *)
(* number of devices and documents and any bounds.                         *)
(***************************************************************************)
EXTENDS AccountSyncProperties, StoreRows_proofs, FiniteSetTheorems, TLAPS

-----------------------------------------------------------------------------
(* Types of what the actions write *)

LEMMA NoValuesType ==
    /\ NoServerRow \in ServerRow /\ NoPush \in Push /\ NoAnswer \in Answer
    /\ NoPage \in [Docs -> ServerRow]
    /\ NoBatch \in [Docs -> Push]
    /\ NoAnswers \in [Docs -> Answer]
  <1>1. NoServerRow \in ServerRow /\ NoPush \in Push
    BY NoRevType DEF NoServerRow, ServerRow, Forms, NoPush, Push
  <1>2. NoAnswer \in Answer
    BY <1>1 DEF NoAnswer, Answer, Statuses
  <1> QED BY <1>1, <1>2 DEF NoPage, NoBatch, NoAnswers

LEMMA EditsOfType ==
    ASSUME NEW kind \in Kinds, NEW content \in Content, NEW edit \in Edits, NEW at \in Times
    PROVE  EditsOf(kind, content, edit, at) \subseteq Content
  <1>1. [content EXCEPT !.body = {edit}, !.at = at] \in Content
    BY DEF Content
  <1>2. [content EXCEPT !.body = @ \cup {edit}, !.at = at] \in Content
    BY DEF Content
  <1>3. [content EXCEPT !.facts = @ \cup {edit}, !.at = at] \in Content
    BY DEF Content
  <1> QED BY <1>1, <1>2, <1>3 DEF EditsOf, Kinds

LEMMA FirstContentsType ==
    ASSUME NEW kind \in Kinds, NEW edit \in Edits, NEW at \in Times
    PROVE  FirstContents(kind, edit, at) \subseteq Content
  <1> DEFINE empty == [body |-> {}, at |-> at, facts |-> {}]
  <1>1. empty \in Content
    BY DEF Content
  <1>2. [empty EXCEPT !.body = {edit}] \in Content
    BY DEF Content
  <1>3. [empty EXCEPT !.facts = {edit}] \in Content
    BY DEF Content
  <1> QED BY <1>1, <1>2, <1>3 DEF FirstContents, Kinds

\* SetRow changes one document's row on one device.
LEMMA SetRowRows ==
    ASSUME NEW d \in Devices, NEW doc \in Docs, NEW row,
           rows \in [Devices -> [Docs -> Row]], SetRow(d, doc, row)
    PROVE  /\ \A e \in Devices, o \in Docs :
                rows'[e][o] = IF e = d /\ o = doc THEN row ELSE rows[e][o]
           /\ row \in Row => rows' \in [Devices -> [Docs -> Row]]
    BY DEF SetRow

\* One push: accepted documents get sequence numbers, and the account counts them.
LEMMA AcceptPushType ==
    ASSUME ServerTypeOK, NEW push \in [Docs -> Push], NEW author \in Devices,
           AcceptPush(push, author)
    PROVE  ServerTypeOK'
  <1> DEFINE accepted == Accepts(push)
  <1>1. accepted \subseteq Docs /\ IsFiniteSet(accepted)
    BY DocsAssumption, FS_Subset DEF Accepts, Pushed
  <1>2. Cardinality(accepted) \in Nat
    BY <1>1, FS_CardinalityType
  <1>3. PICK order \in [accepted -> 1..Cardinality(accepted)] :
          srv' = [doc \in Docs |->
                    IF doc \in accepted
                      THEN [rev  |-> push[doc].rev, seq |-> lastSeq + order[doc],
                            form |-> "sealed", by |-> author, seen |-> push[doc].seen]
                      ELSE srv[doc]]
    BY DEF AcceptPush, Orders
  <1>4. ASSUME NEW doc \in accepted
        PROVE  [rev  |-> push[doc].rev, seq |-> lastSeq + order[doc], form |-> "sealed",
                by |-> author, seen |-> push[doc].seen] \in ServerRow
    <2>1. push[doc] \in Push
      BY <1>1
    <2>2. lastSeq + order[doc] \in Nat
      BY <1>2 DEF ServerTypeOK
    <2> QED BY <2>1, <2>2 DEF Push, ServerRow, Forms
  <1>5. srv' \in [Docs -> ServerRow]
    BY <1>3, <1>4 DEF ServerTypeOK
  <1>6. lastSeq' \in Nat
    BY <1>2 DEF AcceptPush, ServerTypeOK
  <1> QED BY <1>5, <1>6 DEF AcceptPush, ServerTypeOK

\* A push of pending rows is a push.
LEMMA PushOfType ==
    ASSUME NEW r \in Row
    PROVE  PushOf(r) \in Push
    BY RowFields, NoRevType DEF PushOf, PushBase, Push

LEMMA AsVersionType ==
    ASSUME NEW row \in ServerRow
    PROVE  AsVersion(row) \in Version /\ AsVersion(row).rev = row.rev
    BY DEF AsVersion, Version, ServerRow

LEMMA EngineApplyType ==
    ASSUME StoreTypeOK, RunTypeOK, NEW d \in Devices, NEW doc \in Docs, NEW v \in Version,
           EngineApply(d, doc, v)
    PROVE  rows' \in [Devices -> [Docs -> Row]] /\ report' \in [Devices -> SUBSET Docs]
  <1>1. ApplyRemote(Kind[doc], rows[d][doc], v).row \in Row
    BY ApplyRemoteType DEF StoreTypeOK
  <1>2. rows' \in [Devices -> [Docs -> Row]]
    BY <1>1, SetRowRows DEF EngineApply, StoreTypeOK
  <1>3. report' \in [Devices -> SUBSET Docs]
    BY DEF EngineApply, RunTypeOK
  <1> QED BY <1>2, <1>3

-----------------------------------------------------------------------------
(* Type correctness *)

LEMMA TypeInit == Init => TypeOK
  <1> SUFFICES ASSUME Init PROVE TypeOK
      OBVIOUS
  <1>1. ServerTypeOK
    <2>1. [doc \in Docs |-> NoServerRow] \in [Docs -> ServerRow]
      BY NoValuesType
    <2>2. EmptyBackup \in [srv : [Docs -> ServerRow], lastSeq : Nat]
      BY <2>1 DEF EmptyBackup
    <2>3. ServerInit
      BY DEF Init
    <2>4. srv \in [Docs -> ServerRow] /\ backup = EmptyBackup
      BY <2>1, <2>3 DEF ServerInit, EmptyBackup
    <2>5. lastSeq \in Nat /\ epoch \in Nat \ {0}
      BY <2>3 DEF ServerInit
    <2>6. rotationDue \in BOOLEAN
      BY <2>3, Zenon DEF ServerInit
    <2> QED BY <2>2, <2>4, <2>5, <2>6, Zenon DEF ServerTypeOK
  <1>2. StoreTypeOK
    BY NoRowType DEF Init, Each, StoreTypeOK, NoEpoch
  <1>3. PullTypeOK
    BY NoValuesType DEF Init, Each, PullTypeOK, NoEpoch
  <1>4. PushTypeOK
    BY NoValuesType DEF Init, Each, PushTypeOK
  <1>5. RunTypeOK
    BY DEF Init, Each, RunTypeOK, Steps
  <1>6. BoundsTypeOK
    BY DEF Init, BoundsTypeOK
  <1> QED BY <1>1, <1>2, <1>3, <1>4, <1>5, <1>6 DEF TypeOK

LEMMA TypeWrite ==
    ASSUME TypeOK, NEW d \in Devices, NEW doc \in Docs, Write(d, doc) \/ Delete(d, doc)
    PROVE  TypeOK'
  <1> USE DEF TypeOK
  <1>1. Kind[doc] \in Kinds /\ rows[d][doc] \in Row
    BY SyncAssumption DEF StoreTypeOK
  <1>2. /\ edits' \in Nat
        /\ edits < MaxEdits => edits + 1 \in Edits
    BY BoundsAssumption DEF Write, Delete, BoundsTypeOK, Edits
  <1>3. edits' \in Edits
    BY <1>2 DEF Write, Delete
  <1>4. rows' \in [Devices -> [Docs -> Row]]
    <2>1. CASE Write(d, doc)
      <3>1. PICK at \in Times, snapshots \in Snapshots :
              \E content \in IF Live(rows[d][doc])
                               THEN EditsOf(Kind[doc], rows[d][doc].rev.hash, edits', at)
                               ELSE FirstContents(Kind[doc], edits', at) :
                SetRow(d, doc, EditRow(Kind[doc], rows[d][doc], content, edits', snapshots))
        BY <2>1 DEF Write
      <3>2. PICK content \in Content :
              SetRow(d, doc, EditRow(Kind[doc], rows[d][doc], content, edits', snapshots))
        <4>1. Live(rows[d][doc]) => rows[d][doc].rev.hash \in Content
          BY <1>1, RowFields DEF Live, Deleted
        <4> QED BY <3>1, <4>1, <1>1, <1>3, EditsOfType, FirstContentsType
      <3>3. EditRow(Kind[doc], rows[d][doc], content, edits', snapshots) \in Row
        BY <1>1, <1>3, EditRowType, SyncAssumption
      <3> QED BY <3>2, <3>3, SetRowRows DEF StoreTypeOK
    <2>2. CASE Delete(d, doc)
      <3>1. PICK ui \in BOOLEAN : SetRow(d, doc, DeleteRow(Kind[doc], rows[d][doc], edits', ui))
        BY <2>2 DEF Delete
      <3>2. DeleteRow(Kind[doc], rows[d][doc], edits', ui) \in Row
        BY <2>2, <1>1, <1>3, DeleteRowType DEF Delete
      <3> QED BY <3>1, <3>2, SetRowRows DEF StoreTypeOK
    <2> QED BY <2>1, <2>2
  <1>5. LocalOnly
    BY DEF Write, Delete
  <1>6. ServerTypeOK' /\ PullTypeOK' /\ PushTypeOK' /\ RunTypeOK'
    BY <1>5 DEF LocalOnly, serverVars, pageVars, runVars, pushVars, ServerTypeOK, PullTypeOK,
                PushTypeOK, RunTypeOK
  <1>7. StoreTypeOK'
    BY <1>4, <1>5 DEF LocalOnly, StoreTypeOK
  <1>8. BoundsTypeOK'
    BY <1>2, <1>5 DEF LocalOnly, otherBounds, BoundsTypeOK, Write, Delete
  <1> QED BY <1>6, <1>7, <1>8

LEMMA TakenElsewhereType ==
    ASSUME NEW r \in Row
    PROVE  TakenElsewhere(r) \in Row
  BY LearnedType, RowFields DEF TakenElsewhere

LEMMA TypeBind ==
    ASSUME TypeOK, NEW d \in Devices, BindAdd(d) \/ BindReplace(d)
    PROVE  TypeOK'
  <1> USE DEF TypeOK
  <1>1. Bound(d)
    BY DEF BindAdd, BindReplace
  <1>2. rows' \in [Devices -> [Docs -> Row]]
    <2>1. CASE BindAdd(d)
      <3>1. \A doc \in Docs : rows[d][doc] \in Row /\ TakenElsewhere(rows[d][doc]) \in Row
        BY TakenElsewhereType DEF StoreTypeOK
      <3>2. \A r \in Row : ResetSync(r) \in Row
        BY BookkeepingType, NoRevType
      <3>3. PICK taken \in SUBSET Docs :
              rows' = [rows EXCEPT ![d] = [doc \in Docs |->
                ResetSync(IF doc \in taken THEN TakenElsewhere(rows[d][doc]) ELSE rows[d][doc])]]
        BY <2>1 DEF BindAdd
      <3>4. [doc \in Docs |->
              ResetSync(IF doc \in taken THEN TakenElsewhere(rows[d][doc]) ELSE rows[d][doc])]
              \in [Docs -> Row]
        BY <3>1, <3>2
      <3> QED BY <3>3, <3>4 DEF StoreTypeOK
    <2>2. [doc \in Docs |-> NoRow] \in [Docs -> Row]
      BY NoRowType
    <2>3. CASE BindReplace(d)
      BY <2>2, <2>3 DEF BindReplace, StoreTypeOK
    <2> QED BY <2>1, <2>3
  <1>3. StoreTypeOK'
    BY <1>1, <1>2 DEF Bound, StoreTypeOK, NoEpoch
  <1>4. ServerTypeOK' /\ PullTypeOK' /\ PushTypeOK' /\ RunTypeOK'
    BY <1>1 DEF Bound, serverVars, pageVars, runVars, pushVars, ServerTypeOK, PullTypeOK,
                PushTypeOK, RunTypeOK
  <1>5. BoundsTypeOK'
    BY <1>1 DEF Bound, BoundsTypeOK
  <1> QED BY <1>3, <1>4, <1>5

\* The steps of a pull.
LEMMA TypePull ==
    ASSUME TypeOK, NEW d \in Devices,
           \/ ReadLengths(d) \/ ReadRows(d) \/ AdoptEpoch(d) \/ RewindCursor(d) \/ MarkRemerging(d)
           \/ SaveCursor(d) \/ MarkMissing(d) \/ FinishRemerge(d)
           \/ \E doc \in Docs : ApplyEntry(d, doc) \/ UndecryptableEntry(d, doc)
    PROVE  TypeOK'
  <1> USE DEF TypeOK
  <1>1. CASE ReadLengths(d)
    <2>1. upto' \in [Devices -> Nat]
      <3>1. FirstSeqs(cursor[d], PageSize) \subseteq Nat
        BY DEF FirstSeqs, After, ServerTypeOK, ServerRow
      <3>2. cursor[d] \in Nat
        BY DEF StoreTypeOK
      <3> QED BY <1>1, <3>1, <3>2 DEF ReadLengths, PullTypeOK
    <2>2. PullTypeOK'
      BY <1>1, <2>1 DEF ReadLengths, PullTypeOK, runVars
    <2>3. ServerTypeOK' /\ StoreTypeOK' /\ PushTypeOK' /\ BoundsTypeOK'
      BY <1>1 DEF ReadLengths, storeVars, pushVars, bounds, otherBounds, serverVars,
                  ServerTypeOK, StoreTypeOK, PushTypeOK, BoundsTypeOK
    <2>4. RunTypeOK'
      BY <1>1 DEF ReadLengths, Goto, RunTypeOK, Steps
    <2> QED BY <2>2, <2>3, <2>4
  <1>2. CASE ReadRows(d)
    <2>1. RowsBetween(cursor[d], upto[d]) \in [Docs -> ServerRow]
      BY NoValuesType DEF RowsBetween, ServerTypeOK
    <2>2. PullTypeOK'
      BY <1>2, <2>1 DEF ReadRows, PullTypeOK, StoreTypeOK, ServerTypeOK
    <2>3. ServerTypeOK' /\ StoreTypeOK' /\ PushTypeOK' /\ BoundsTypeOK'
      BY <1>2 DEF ReadRows, storeVars, pushVars, bounds, otherBounds, serverVars,
                  ServerTypeOK, StoreTypeOK, PushTypeOK, BoundsTypeOK
    <2>4. RunTypeOK'
      BY <1>2 DEF ReadRows, FirstPageStep, Goto, RunTypeOK, Steps
    <2> QED BY <2>2, <2>3, <2>4
  <1>3. CASE AdoptEpoch(d) \/ FinishRemerge(d)
    <2>1. StoreTypeOK' /\ PullTypeOK'
      BY <1>3 DEF AdoptEpoch, FinishRemerge, pageVars, runVars, StoreTypeOK, PullTypeOK
    <2>2. ServerTypeOK' /\ PushTypeOK' /\ BoundsTypeOK'
      BY <1>3 DEF AdoptEpoch, FinishRemerge, pushVars, bounds, otherBounds, serverVars,
                  ServerTypeOK, PushTypeOK, BoundsTypeOK
    <2>3. RunTypeOK'
      BY <1>3 DEF AdoptEpoch, FinishRemerge, Goto, RunTypeOK, Steps
    <2> QED BY <2>1, <2>2, <2>3
  <1>4. CASE RewindCursor(d) \/ MarkRemerging(d)
    <2>1. StoreTypeOK' /\ PullTypeOK'
      <3>1. CASE RewindCursor(d)
        BY <3>1 DEF RewindCursor, pageVars, runVars, StoreTypeOK, PullTypeOK
      <3>2. CASE MarkRemerging(d)
        BY <3>2 DEF MarkRemerging, pageVars, StoreTypeOK, PullTypeOK
      <3> QED BY <1>4, <3>1, <3>2
    <2>2. ServerTypeOK' /\ PushTypeOK' /\ BoundsTypeOK'
      BY <1>4 DEF RewindCursor, MarkRemerging, pushVars, bounds, otherBounds, serverVars,
                  ServerTypeOK, PushTypeOK, BoundsTypeOK
    <2>3. RunTypeOK'
      BY <1>4 DEF RewindCursor, MarkRemerging, Goto, RunTypeOK, Steps
    <2> QED BY <2>1, <2>2, <2>3
  <1>5. CASE SaveCursor(d)
    <2>1. StoreTypeOK' /\ PullTypeOK'
      <3>1. cursor' \in [Devices -> Nat]
        <4>1. cursor[d] \in Nat /\ last[d] \in Nat
          BY DEF StoreTypeOK, PullTypeOK
        <4>2. Higher(cursor[d], last[d]) \in Nat
          BY <4>1, HigherType
        <4> QED BY <1>5, <4>2 DEF SaveCursor, StoreTypeOK
      <3>2. page' \in [Devices -> [Docs -> ServerRow]]
        BY <1>5, NoValuesType DEF SaveCursor, PullTypeOK
      <3> QED BY <1>5, <3>1, <3>2 DEF SaveCursor, runVars, StoreTypeOK, PullTypeOK
    <2>2. ServerTypeOK' /\ PushTypeOK' /\ BoundsTypeOK'
      BY <1>5 DEF SaveCursor, pushVars, bounds, otherBounds, serverVars,
                  ServerTypeOK, PushTypeOK, BoundsTypeOK
    <2>3. RunTypeOK'
      BY <1>5 DEF SaveCursor, Goto, RunTypeOK, Steps
    <2> QED BY <2>1, <2>2, <2>3
  <1>6. CASE MarkMissing(d)
    <2>1. [doc \in Docs |-> IF doc \in present[d] THEN rows[d][doc] ELSE MarkMissingRow(rows[d][doc])]
            \in [Docs -> Row]
      BY BookkeepingType, NoRevType DEF StoreTypeOK
    <2>2. StoreTypeOK' /\ PullTypeOK'
      BY <1>6, <2>1 DEF MarkMissing, pageVars, runVars, StoreTypeOK, PullTypeOK
    <2>3. ServerTypeOK' /\ PushTypeOK' /\ BoundsTypeOK'
      BY <1>6 DEF MarkMissing, pushVars, bounds, otherBounds, serverVars,
                  ServerTypeOK, PushTypeOK, BoundsTypeOK
    <2>4. RunTypeOK'
      BY <1>6 DEF MarkMissing, Goto, RunTypeOK, Steps
    <2> QED BY <2>2, <2>3, <2>4
  <1>7. ASSUME NEW doc \in Docs, ApplyEntry(d, doc) \/ UndecryptableEntry(d, doc)
        PROVE  TypeOK'
    <2>1. EntryDone(d, doc) /\ page[d][doc] \in ServerRow
      BY <1>7 DEF ApplyEntry, UndecryptableEntry, PullTypeOK
    <2>2. rows' \in [Devices -> [Docs -> Row]] /\ report' \in [Devices -> SUBSET Docs]
      <3>1. CASE ApplyEntry(d, doc)
        BY <3>1, <2>1, AsVersionType, EngineApplyType DEF ApplyEntry
      <3>2. CASE UndecryptableEntry(d, doc)
        <4>1. BumpRevision(rows[d][doc]) \in Row
          BY BookkeepingType, NoRevType DEF StoreTypeOK
        <4> QED BY <3>2, <4>1, SetRowRows DEF UndecryptableEntry, StoreTypeOK, RunTypeOK
      <3> QED BY <1>7, <3>1, <3>2
    <2>3. StoreTypeOK' /\ RunTypeOK'
      BY <2>1, <2>2 DEF EntryDone, StoreTypeOK, RunTypeOK
    <2>4. PullTypeOK'
      <3>1. present' \in [Devices -> SUBSET Docs]
        <4>1. present[d] \cup {doc} \in SUBSET Docs
          BY DEF PullTypeOK
        <4>2. present' = [present EXCEPT ![d] = present[d] \cup {doc}] \/ present' = present
          <5>1. [present EXCEPT ![d] = present[d]] = present
            BY DEF PullTypeOK
          <5> QED BY <1>7, <5>1 DEF ApplyEntry, UndecryptableEntry
        <4> QED BY <4>1, <4>2 DEF PullTypeOK
      <3>2. page' \in [Devices -> [Docs -> ServerRow]] /\ last' \in [Devices -> Nat]
        BY <2>1, NoValuesType DEF EntryDone, PullTypeOK, ServerRow
      <3> QED BY <2>1, <3>1, <3>2 DEF EntryDone, PullTypeOK
    <2>5. ServerTypeOK' /\ PushTypeOK' /\ BoundsTypeOK'
      BY <2>1 DEF EntryDone, pushVars, bounds, otherBounds, serverVars,
                  ServerTypeOK, PushTypeOK, BoundsTypeOK
    <2> QED BY <2>3, <2>4, <2>5
  <1> QED BY <1>1, <1>2, <1>3, <1>4, <1>5, <1>6, <1>7

\* The steps of a push.
LEMMA TypePush ==
    ASSUME TypeOK, NEW d \in Devices,
           PickPending(d) \/ SendPush(d) \/ ServerAnswers(d) \/ EndRound(d)
    PROVE  TypeOK'
  <1> USE DEF TypeOK
  <1>1. CASE PickPending(d)
    <2>1. [doc \in Docs |-> IF ToPush(d, doc) THEN PushOf(rows[d][doc]) ELSE NoPush] \in [Docs -> Push]
      BY PushOfType, NoValuesType DEF StoreTypeOK
    <2>2. PushTypeOK'
      BY <1>1, <2>1 DEF PickPending, PushTypeOK
    <2>3. ServerTypeOK' /\ StoreTypeOK' /\ PullTypeOK' /\ BoundsTypeOK'
      BY <1>1 DEF PickPending, storeVars, pageVars, runVars, bounds, otherBounds, serverVars,
                  ServerTypeOK, StoreTypeOK, PullTypeOK, BoundsTypeOK
    <2>4. RunTypeOK'
      BY <1>1 DEF PickPending, Goto, RunTypeOK, Steps
    <2> QED BY <2>2, <2>3, <2>4
  <1>2. CASE SendPush(d)
    <2>1. [doc \in Docs |-> IF doc \in Pushed(batch[d]) THEN MarkSent(rows[d][doc], batch[d][doc].rev)
                                                       ELSE rows[d][doc]] \in [Docs -> Row]
      <3>1. ASSUME NEW doc \in Docs
            PROVE  rows[d][doc] \in Row /\ MarkSent(rows[d][doc], batch[d][doc].rev) \in Row
        <4>1. rows[d][doc] \in Row /\ batch[d][doc].rev \in Rev
          BY DEF StoreTypeOK, PushTypeOK, Push
        <4> QED BY <4>1, BookkeepingType
      <3> QED BY <3>1
    <2>2. StoreTypeOK'
      BY <1>2, <2>1 DEF SendPush, StoreTypeOK
    <2>3. ServerTypeOK' /\ PullTypeOK' /\ PushTypeOK' /\ BoundsTypeOK'
      BY <1>2 DEF SendPush, pageVars, runVars, pushVars, bounds, otherBounds, serverVars,
                  ServerTypeOK, PullTypeOK, PushTypeOK, BoundsTypeOK
    <2>4. RunTypeOK'
      BY <1>2 DEF SendPush, Goto, RunTypeOK, Steps
    <2> QED BY <2>2, <2>3, <2>4
  <1>3. CASE ServerAnswers(d)
    <2>1. ServerTypeOK'
      BY <1>3, AcceptPushType DEF ServerAnswers, PushTypeOK
    <2>2. PICK behind \in SUBSET {doc \in Pushed(batch[d]) \ Accepts(batch[d]) : srv[doc].rev # NoRev} :
            /\ behinds' = behinds + Cardinality(behind)
            /\ answer' = [answer EXCEPT ![d] = [doc \in Docs |->
                            IF doc \in Pushed(batch[d])
                              THEN [status |-> StatusOf(doc, Accepts(batch[d]), behind), row |-> srv[doc]]
                              ELSE NoAnswer]]
      BY <1>3 DEF ServerAnswers
    <2>3. PushTypeOK'
      <3>1. ASSUME NEW doc \in Docs
            PROVE  StatusOf(doc, Accepts(batch[d]), behind) \in Statuses
        <4>1. srv[doc].form \in Forms
          BY DEF ServerTypeOK, ServerRow
        <4> QED BY <4>1 DEF StatusOf, Statuses, Forms
      <3>2. [doc \in Docs |->
               IF doc \in Pushed(batch[d])
                 THEN [status |-> StatusOf(doc, Accepts(batch[d]), behind), row |-> srv[doc]]
                 ELSE NoAnswer] \in [Docs -> Answer]
        BY <3>1, NoValuesType DEF ServerTypeOK, Answer
      <3>3. answer' \in [Devices -> [Docs -> Answer]]
        BY <2>2, <3>2 DEF PushTypeOK
      <3> QED BY <1>3, <3>3 DEF ServerAnswers, PushTypeOK
    <2>4. BoundsTypeOK'
      <3>1. Cardinality(behind) \in Nat
        <4>1. behind \subseteq Docs
          BY DEF Pushed
        <4> QED BY <4>1, DocsAssumption, FS_Subset, FS_CardinalityType
      <3> QED BY <1>3, <2>2, <3>1 DEF ServerAnswers, otherBounds, BoundsTypeOK
    <2>5. StoreTypeOK' /\ PullTypeOK'
      BY <1>3 DEF ServerAnswers, storeVars, pageVars, runVars, StoreTypeOK, PullTypeOK
    <2>6. RunTypeOK'
      BY <1>3 DEF ServerAnswers, Goto, RunTypeOK, Steps
    <2> QED BY <2>1, <2>3, <2>4, <2>5, <2>6
  <1>4. CASE EndRound(d)
    <2>1. PushTypeOK'
      BY <1>4, NoValuesType DEF EndRound, PushTypeOK
    <2>2. ServerTypeOK' /\ StoreTypeOK' /\ PullTypeOK' /\ BoundsTypeOK'
      BY <1>4 DEF EndRound, storeVars, pageVars, runVars, bounds, otherBounds, serverVars,
                  ServerTypeOK, StoreTypeOK, PullTypeOK, BoundsTypeOK
    <2>3. RunTypeOK'
      BY <1>4 DEF EndRound, Goto, RunTypeOK, Steps
    <2> QED BY <2>1, <2>2, <2>3
  <1> QED BY <1>1, <1>2, <1>3, <1>4

\* The answer to one document of a push.
AnyResult(d, doc) ==
    \/ ResultOk(d, doc) \/ ResultConflict(d, doc) \/ ResultLost(d, doc)
    \/ ResultBehind(d, doc) \/ ResultBroken(d, doc) \/ ResultNewer(d, doc)

LEMMA TypeResult ==
    ASSUME TypeOK, NEW d \in Devices, NEW doc \in Docs, AnyResult(d, doc)
    PROVE  TypeOK'
  <1> USE DEF TypeOK
  <1>1. Processed(d, doc)
    BY DEF AnyResult, ResultOk, ResultConflict, ResultLost, ResultBehind, ResultBroken, ResultNewer
  <1>2. rows[d][doc] \in Row /\ batch[d][doc].rev \in Rev /\ answer[d][doc].row \in ServerRow
    BY DEF StoreTypeOK, PushTypeOK, Push, Answer
  <1>3. rows' \in [Devices -> [Docs -> Row]] /\ report' \in [Devices -> SUBSET Docs]
    <2>1. CASE ResultOk(d, doc)
      BY <2>1, <1>2, LearnedType, SetRowRows DEF ResultOk, StoreTypeOK, RunTypeOK
    <2>2. CASE ResultConflict(d, doc)
      BY <2>2, <1>2, AsVersionType, EngineApplyType DEF ResultConflict
    <2>3. CASE ResultLost(d, doc)
      BY <2>3, <1>2, BookkeepingType, SetRowRows DEF ResultLost, StoreTypeOK, RunTypeOK
    <2>4. CASE ResultBehind(d, doc) \/ ResultNewer(d, doc)
      BY <2>4 DEF ResultBehind, ResultNewer, StoreTypeOK, RunTypeOK
    <2>5. CASE ResultBroken(d, doc)
      BY <2>5, <1>2, BookkeepingType, SetRowRows DEF ResultBroken, StoreTypeOK, RunTypeOK
    <2> QED BY <2>1, <2>2, <2>3, <2>4, <2>5 DEF AnyResult
  <1>4. StoreTypeOK' /\ RunTypeOK'
    BY <1>1, <1>3 DEF Processed, StoreTypeOK, RunTypeOK
  <1>5. PushTypeOK'
    <2>1. answer' \in [Devices -> [Docs -> Answer]]
      BY <1>1, NoValuesType DEF Processed, PushTypeOK
    <2>2. /\ again' \in [Devices -> BOOLEAN] /\ needPull' \in [Devices -> BOOLEAN]
      BY DEF AnyResult, ResultOk, ResultConflict, ResultLost, ResultBehind, ResultBroken,
             ResultNewer, PushTypeOK
    <2>3. held' \in [Devices -> SUBSET Docs]
      <3>1. held[d] \cup {doc} \in SUBSET Docs
        BY DEF PushTypeOK
      <3>2. held' = held \/ held' = [held EXCEPT ![d] = held[d] \cup {doc}]
        BY DEF AnyResult, ResultOk, ResultConflict, ResultLost, ResultBehind, ResultBroken, ResultNewer
      <3> QED BY <3>1, <3>2 DEF PushTypeOK
    <2> QED BY <1>1, <2>1, <2>2, <2>3 DEF Processed, PushTypeOK
  <1>6. ServerTypeOK' /\ PullTypeOK' /\ BoundsTypeOK'
    BY <1>1 DEF Processed, pageVars, runVars, bounds, otherBounds, serverVars,
                ServerTypeOK, PullTypeOK, BoundsTypeOK
  <1> QED BY <1>4, <1>5, <1>6

\* The end of a sync, however it comes.
LEMMA TypeEnd ==
    ASSUME TypeOK, NEW d \in Devices, FinishSync(d) \/ Interrupt(d) \/ PageRefused(d)
    PROVE  TypeOK'
  <1> USE DEF TypeOK
  <1>1. ForgetRun(d)
    BY DEF FinishSync, Interrupt, PageRefused
  <1>2. late' \in [Devices -> SUBSET [Docs -> Push]]
    <2>1. late[d] \cup {batch[d]} \in SUBSET [Docs -> Push]
      BY DEF RunTypeOK, PushTypeOK
    <2>2. late' = late \/ late' = [late EXCEPT ![d] = late[d] \cup {batch[d]}]
      BY DEF FinishSync, Interrupt, PageRefused
    <2> QED BY <2>1, <2>2 DEF RunTypeOK
  <1>3. interrupts' \in Nat
    BY DEF FinishSync, Interrupt, PageRefused, BoundsTypeOK
  <1>4. PullTypeOK'
    BY <1>1, NoValuesType DEF ForgetRun, PullTypeOK, NoEpoch
  <1>5. PushTypeOK'
    BY <1>1, NoValuesType DEF ForgetRun, PushTypeOK
  <1>6. RunTypeOK'
    BY <1>1, <1>2 DEF ForgetRun, RunTypeOK, Steps
  <1>7. BoundsTypeOK'
    BY <1>1, <1>3 DEF ForgetRun, otherBounds, BoundsTypeOK
  <1>8. ServerTypeOK' /\ StoreTypeOK'
    BY <1>1 DEF ForgetRun, serverVars, storeVars, ServerTypeOK, StoreTypeOK
  <1> QED BY <1>4, <1>5, <1>6, <1>7, <1>8

\* What happens to the account apart from its devices.
AnyServerStep ==
    \/ TakeBackup \/ RestoreServer \/ RotateServerEpoch
    \/ \E doc \in Docs : DamageRow(doc) \/ NewerAppWrites(doc)

LEMMA TypeServer ==
    ASSUME TypeOK, AnyServerStep \/ \E d \in Devices : RunLate(d)
    PROVE  TypeOK'
  <1> USE DEF TypeOK
  <1>1. ASSUME NEW d \in Devices, RunLate(d)
        PROVE  TypeOK'
    <2>1. PICK push \in late[d] : AcceptPush(push, d) /\ late' = [late EXCEPT ![d] = @ \ {push}]
      BY <1>1 DEF RunLate
    <2>2. push \in [Docs -> Push]
      BY DEF RunTypeOK
    <2>3. ServerTypeOK'
      BY <2>1, <2>2, AcceptPushType
    <2>4. late' \in [Devices -> SUBSET [Docs -> Push]]
      BY <2>1 DEF RunTypeOK
    <2>5. DevicesUnchanged /\ UNCHANGED bounds
      BY <1>1 DEF RunLate
    <2>6. RunTypeOK'
      BY <2>4, <2>5 DEF DevicesUnchanged, RunTypeOK
    <2>7. StoreTypeOK' /\ PullTypeOK' /\ PushTypeOK' /\ BoundsTypeOK'
      BY <2>5 DEF DevicesUnchanged, storeVars, pageVars, runVars, pushVars, bounds, otherBounds,
                  StoreTypeOK, PullTypeOK, PushTypeOK, BoundsTypeOK
    <2> QED BY <2>3, <2>6, <2>7
  <1>2. ASSUME AnyServerStep
        PROVE  TypeOK'
    <2>1. DevicesUnchanged /\ late' = late
      BY <1>2 DEF AnyServerStep, TakeBackup, RestoreServer, RotateServerEpoch, DamageRow, NewerAppWrites
    <2>2. StoreTypeOK' /\ PullTypeOK' /\ PushTypeOK' /\ RunTypeOK'
      BY <2>1 DEF DevicesUnchanged, storeVars, pageVars, runVars, pushVars,
                  StoreTypeOK, PullTypeOK, PushTypeOK, RunTypeOK
    <2>3. BoundsTypeOK'
      BY <1>2 DEF AnyServerStep, TakeBackup, RestoreServer, RotateServerEpoch, DamageRow,
                  NewerAppWrites, bounds, otherBounds, BoundsTypeOK
    <2>4. ServerTypeOK'
      <3>1. CASE TakeBackup
        BY <3>1 DEF TakeBackup, Backup, ServerTypeOK
      <3>2. CASE RestoreServer
        BY <3>2 DEF RestoreServer, Restore, ServerTypeOK
      <3>3. CASE RotateServerEpoch
        <4>1. epoch' \in Nat \ {0}
          BY <3>3 DEF RotateServerEpoch, RotateEpoch, ServerTypeOK
        <4>2. rotationDue' \in BOOLEAN
          BY <3>3, Zenon DEF RotateServerEpoch, RotateEpoch
        <4> QED BY <3>3, <4>1, <4>2 DEF RotateServerEpoch, RotateEpoch, ServerTypeOK
      <3>4. ASSUME NEW doc \in Docs, DamageRow(doc)
            PROVE  ServerTypeOK'
        <4>1. [srv[doc] EXCEPT !.form = "broken"] \in ServerRow
          BY DEF ServerTypeOK, ServerRow, Forms
        <4> QED BY <3>4, <4>1 DEF DamageRow, Damage, ServerTypeOK
      <3>5. ASSUME NEW doc \in Docs, NewerAppWrites(doc)
            PROVE  ServerTypeOK'
        <4>1. edits' \in Edits /\ Kind[doc] \in Kinds /\ MaxTime \in Times
          BY <3>5, BoundsAssumption, SyncAssumption DEF NewerAppWrites, BoundsTypeOK, Edits, Times
        <4>2. PICK content \in Content : PushNewerFormat(doc, content, edits')
          BY <3>5, <4>1, FirstContentsType DEF NewerAppWrites
        <4>3. NextRev(srv[doc].rev, content) \in Rev /\ srv[doc].seen \cup {edits'} \in SUBSET Edits
          BY <4>1 DEF NextRev, Rev, ServerTypeOK, ServerRow
        <4>4. lastSeq + 1 \in Nat
          BY DEF ServerTypeOK
        <4>5. [rev |-> NextRev(srv[doc].rev, content), seq |-> lastSeq + 1, form |-> "newer",
               by |-> Nobody, seen |-> srv[doc].seen \cup {edits'}] \in ServerRow
          BY <4>3, <4>4 DEF ServerRow, Forms
        <4> QED BY <4>2, <4>4, <4>5 DEF PushNewerFormat, ServerTypeOK
      <3> QED BY <1>2, <3>1, <3>2, <3>3, <3>4, <3>5 DEF AnyServerStep
    <2> QED BY <2>2, <2>3, <2>4
  <1> QED BY <1>1, <1>2

LEMMA TypeStep == TypeOK /\ [Next]_vars => TypeOK'
  <1> SUFFICES ASSUME TypeOK, [Next]_vars
               PROVE  TypeOK'
      OBVIOUS
  <1>1. ASSUME NEW d \in Devices, Engine(d)
        PROVE  TypeOK'
    BY <1>1, TypePull, TypePush, TypeResult, TypeEnd DEF Engine, AnyResult
  <1>2. CASE UNCHANGED vars
    BY <1>2 DEF vars, storeVars, pageVars, runVars, pushVars, bounds, otherBounds, serverVars, TypeOK,
                ServerTypeOK, StoreTypeOK, PullTypeOK, PushTypeOK, RunTypeOK, BoundsTypeOK
  <1> QED BY <1>1, <1>2, TypeWrite, TypeBind, TypeEnd, TypeServer DEF Next, AnyServerStep

\* Every reachable state is made of rows, pages, requests and answers of the
\* shapes the code's structs and tables have.
THEOREM TypeCorrect == Spec => []TypeOK
    BY TypeInit, TypeStep, PTL DEF Spec

-----------------------------------------------------------------------------
(* Generations *)

LEMMA NoServerRowRev == NoServerRow.rev = NoRev /\ NoPush.rev = NoRev /\ NoAnswer.status = "none"
    BY DEF NoServerRow, NoPush, NoAnswer

LEMMA GenerationsInit == Init => GenerationsInv
  <1> SUFFICES ASSUME Init PROVE GenerationsInv
      OBVIOUS
  <1>1. StoredInv
    <2>1. \A d \in Devices, doc \in Docs : rows[d][doc] = NoRow /\ page[d][doc] = NoServerRow
      BY DEF Init, Each, NoPage
    <2>2. \A doc \in Docs : srv[doc] = NoServerRow /\ backup.srv[doc] = NoServerRow
      BY DEF Init, ServerInit, EmptyBackup
    <2> QED BY <2>1, <2>2, NoRowInv DEF StoredInv, ServerRowInv
  <1>2. PushesInv
    BY DEF Init, Each, NoBatch, PushesInv, PushInv
  <1>3. AnswersInv
    <2>1. \A d \in Devices, doc \in Docs :
            pc[d] = "idle" /\ answer[d][doc].status = "none" /\ batch[d][doc] = NoPush
      BY NoServerRowRev DEF Init, Each, NoAnswers, NoBatch
    <2> QED BY <2>1 DEF AnswersInv
  <1> QED BY <1>1, <1>2, <1>3 DEF GenerationsInv

\* A push of the invariant moves the server's rows to higher generations.
LEMMA AcceptPushInv ==
    ASSUME ServerTypeOK, NEW push \in [Docs -> Push], NEW author \in Devices,
           AcceptPush(push, author),
           \A doc \in Docs : PushInv(push[doc]) /\ ServerRowInv(srv[doc])
    PROVE  /\ \A doc \in Docs : ServerRowInv(srv'[doc])
           /\ \A doc \in Docs : srv'[doc].rev # srv[doc].rev => srv'[doc].rev.gen > srv[doc].rev.gen
           /\ backup' = backup
  <1> DEFINE accepted == Accepts(push)
  <1>1. PICK order \in Orders(accepted) :
          srv' = [doc \in Docs |->
                    IF doc \in accepted
                      THEN [rev  |-> push[doc].rev, seq |-> lastSeq + order[doc],
                            form |-> "sealed", by |-> author, seen |-> push[doc].seen]
                      ELSE srv[doc]]
    BY DEF AcceptPush
  <1>2. ASSUME NEW doc \in Docs
        PROVE  /\ ServerRowInv(srv'[doc])
               /\ srv'[doc].rev # srv[doc].rev => srv'[doc].rev.gen > srv[doc].rev.gen
    <2>1. CASE doc \in accepted
      <3>1. srv'[doc].rev = push[doc].rev
        BY <1>1, <2>1
      <3>2. push[doc] # NoPush /\ srv[doc].rev = push[doc].base
        BY <2>1 DEF Accepts, Pushed
      <3>3. push[doc].rev.gen > srv[doc].rev.gen
        BY <3>2 DEF PushInv
      <3>4. push[doc].rev.gen \in Nat /\ srv[doc].rev.gen \in Nat
        BY DEF Push, Rev, ServerTypeOK, ServerRow
      <3> QED BY <3>1, <3>3, <3>4 DEF ServerRowInv
    <2>2. CASE doc \notin accepted
      <3>1. srv'[doc] = srv[doc]
        BY <1>1, <2>2
      <3> QED BY <3>1
    <2> QED BY <2>1, <2>2
  <1> QED BY <1>2 DEF AcceptPush

LEMMA GenerationsWrite ==
    ASSUME TypeOK, GenerationsInv, NEW d \in Devices, NEW doc \in Docs,
           Write(d, doc) \/ Delete(d, doc)
    PROVE  GenerationsInv'
  <1> DEFINE r == rows[d][doc]
  <1>1. LocalOnly
    BY DEF Write, Delete
  <1>2. edits' \in Edits /\ Kind[doc] \in Kinds /\ r \in Row
    <2>1. edits < MaxEdits /\ edits' = edits + 1
      BY DEF Write, Delete
    <2> QED BY <2>1, BoundsAssumption, SyncAssumption DEF TypeOK, BoundsTypeOK, Edits, StoreTypeOK
  <1>3. RowInv(r)
    BY DEF GenerationsInv, StoredInv
  <1>4. PICK q \in Row : SetRow(d, doc, q) /\ RowInv(q) /\ q.rev.gen > r.rev.gen
    <2>1. CASE Write(d, doc)
      <3>1. PICK at \in Times, snapshots \in Snapshots :
              \E content \in IF Live(r) THEN EditsOf(Kind[doc], r.rev.hash, edits', at)
                                        ELSE FirstContents(Kind[doc], edits', at) :
                SetRow(d, doc, EditRow(Kind[doc], r, content, edits', snapshots))
        BY <2>1 DEF Write
      <3>2. PICK content \in Content : SetRow(d, doc, EditRow(Kind[doc], r, content, edits', snapshots))
        <4>1. Live(r) => r.rev.hash \in Content
          BY <1>2, RowFields DEF Live, Deleted
        <4> QED BY <3>1, <4>1, <1>2, EditsOfType, FirstContentsType
      <3>3. snapshots \in BOOLEAN
        BY SyncAssumption
      <3> QED BY <3>2, <3>3, <1>2, <1>3, EditRowInv, EditRowType
    <2>2. CASE Delete(d, doc)
      <3>1. PICK ui \in BOOLEAN : SetRow(d, doc, DeleteRow(Kind[doc], r, edits', ui))
        BY <2>2 DEF Delete
      <3>2. Live(r)
        BY <2>2 DEF Delete
      <3> QED BY <3>1, <3>2, <1>2, <1>3, DeleteRowInv, DeleteRowType
    <2> QED BY <2>1, <2>2
  <1>5. \A e \in Devices, o \in Docs :
          rows'[e][o] = IF e = d /\ o = doc THEN q ELSE rows[e][o]
    BY <1>4, SetRowRows DEF TypeOK, StoreTypeOK
  <1>6. StoredInv'
    BY <1>1, <1>4, <1>5 DEF LocalOnly, pageVars, serverVars, GenerationsInv, StoredInv
  <1>7. PushesInv'
    BY <1>1 DEF LocalOnly, pushVars, GenerationsInv, PushesInv
  <1>8. AnswersInv'
    <2>1. UNCHANGED <<pc, answer, batch>>
      BY <1>1 DEF LocalOnly, pushVars
    <2>2. \A e \in Devices, o \in Docs :
            Upto(batch[e][o].rev, rows[e][o].rev) => Upto(batch[e][o].rev, rows'[e][o].rev)
      <3>1. batch[d][doc].rev \in Rev /\ r.rev \in Rev /\ q.rev \in Rev
        BY <1>2, <1>4, RowFields DEF TypeOK, PushTypeOK, Push
      <3>2. Upto(batch[d][doc].rev, r.rev) => Upto(batch[d][doc].rev, q.rev)
        BY <3>1, <1>4, UptoHigher
      <3> QED BY <3>2, <1>5
    <2> QED BY <2>1, <2>2 DEF GenerationsInv, AnswersInv
  <1> QED BY <1>6, <1>7, <1>8 DEF GenerationsInv

LEMMA TakenElsewhereInv ==
    ASSUME NEW r \in Row, RowInv(r)
    PROVE  RowInv(TakenElsewhere(r))
  <1>1. CASE Exists(r)
    <2>1. r.rev \in Rev /\ r.rev.gen > 0
      BY <1>1, RowFields DEF Exists, Rev
    <2>2. RowInv(Learned(r, r.rev))
      BY <2>1, LearnedInv DEF Upto
    <2> QED BY <1>1, <2>2 DEF TakenElsewhere
  <1>2. CASE ~Exists(r)
    BY <1>2 DEF TakenElsewhere
  <1> QED BY <1>1, <1>2

LEMMA GenerationsBind ==
    ASSUME TypeOK, GenerationsInv, NEW d \in Devices, BindAdd(d) \/ BindReplace(d)
    PROVE  GenerationsInv'
  <1>1. Bound(d)
    BY DEF BindAdd, BindReplace
  <1>2. \A o \in Docs : RowInv(rows'[d][o])
    <2>1. CASE BindAdd(d)
      <3> DEFINE left(o, taken) == IF o \in taken THEN TakenElsewhere(rows[d][o]) ELSE rows[d][o]
      <3>1. PICK taken \in SUBSET Docs : \A o \in Docs : rows'[d][o] = ResetSync(left(o, taken))
        <4>1. PICK taken \in SUBSET Docs :
                rows' = [rows EXCEPT ![d] = [o \in Docs |-> ResetSync(left(o, taken))]]
          BY <2>1 DEF BindAdd
        <4>2. rows \in [Devices -> [Docs -> Row]]
          BY DEF TypeOK, StoreTypeOK
        <4> HIDE DEF left
        <4>3. rows'[d] = [o \in Docs |-> ResetSync(left(o, taken))]
          BY <4>1, <4>2
        <4> QED BY <4>3
      <3>2. \A o \in Docs : rows[d][o] \in Row /\ RowInv(rows[d][o])
        BY DEF GenerationsInv, StoredInv, TypeOK, StoreTypeOK
      <3>3. \A o \in Docs : left(o, taken) \in Row /\ RowInv(left(o, taken))
        BY <3>2, TakenElsewhereType, TakenElsewhereInv
      <3> QED BY <3>1, <3>3, ResetSyncInv
    <2>2. CASE BindReplace(d)
      <3>1. \A o \in Docs : rows'[d][o] = NoRow
        BY <2>2 DEF BindReplace, TypeOK, StoreTypeOK
      <3> QED BY <3>1, NoRowInv
    <2> QED BY <2>1, <2>2
  <1>3. \A e \in Devices \ {d} : rows'[e] = rows[e]
    BY DEF BindAdd, BindReplace, TypeOK, StoreTypeOK
  <1>4. StoredInv'
    BY <1>1, <1>2, <1>3 DEF Bound, pageVars, serverVars, GenerationsInv, StoredInv
  <1>5. PushesInv'
    BY <1>1 DEF Bound, pushVars, GenerationsInv, PushesInv
  <1>6. AnswersInv'
    <2>1. pc[d] = "idle" /\ UNCHANGED <<pc, answer, batch>>
      BY <1>1 DEF Bound, pushVars
    <2> QED BY <2>1, <1>3 DEF GenerationsInv, AnswersInv
  <1> QED BY <1>4, <1>5, <1>6 DEF GenerationsInv

\* A device's step outside the push keeps what the invariant says of pushes.
LEMMA GenerationsOutsidePush ==
    ASSUME TypeOK, GenerationsInv, NEW d \in Devices, NEW step \in Steps \ {"send", "wait", "results"},
           Goto(d, step) \/ pc' = pc, pc[d] \notin {"send", "wait", "results"},
           UNCHANGED <<batch, answer, late>>,
           \A e \in Devices \ {d}, o \in Docs : rows'[e][o] = rows[e][o]
    PROVE  PushesInv' /\ AnswersInv'
  <1>1. PushesInv'
    BY DEF GenerationsInv, PushesInv
  <1>2. pc'[d] \notin {"send", "wait", "results"} /\ \A e \in Devices \ {d} : pc'[e] = pc[e]
    BY DEF Goto, TypeOK, RunTypeOK
  <1>3. AnswersInv'
    <2> SUFFICES ASSUME NEW e \in Devices, NEW o \in Docs
                 PROVE  /\ pc'[e] # "results" => answer[e][o].status = "none"
                        /\ answer[e][o].status \in {"conflict", "broken"} => answer[e][o].row.rev.gen > 0
                        /\ answer[e][o].status = "ok" => batch[e][o] # NoPush
                        /\ (pc'[e] \in {"send", "wait"} \/ answer[e][o].status = "ok") /\ batch[e][o] # NoPush
                             => Upto(batch[e][o].rev, rows'[e][o].rev)
        BY DEF AnswersInv
    <2>1. CASE e = d
      BY <2>1, <1>2 DEF GenerationsInv, AnswersInv
    <2>2. CASE e # d
      BY <2>2, <1>2 DEF GenerationsInv, AnswersInv
    <2> QED BY <2>1, <2>2
  <1> QED BY <1>1, <1>3

LEMMA GenerationsPull ==
    ASSUME TypeOK, GenerationsInv, NEW d \in Devices,
           \/ ReadLengths(d) \/ ReadRows(d) \/ AdoptEpoch(d) \/ RewindCursor(d) \/ MarkRemerging(d)
           \/ SaveCursor(d) \/ MarkMissing(d) \/ FinishRemerge(d)
    PROVE  GenerationsInv'
  <1>1. PICK step \in Steps \ {"send", "wait", "results"} : Goto(d, step)
    BY DEF ReadLengths, ReadRows, FirstPageStep, AdoptEpoch, RewindCursor, MarkRemerging, SaveCursor,
           MarkMissing, FinishRemerge, Steps
  <1>2. pc[d] \notin {"send", "wait", "results"}
    BY DEF ReadLengths, ReadRows, AdoptEpoch, RewindCursor, MarkRemerging, SaveCursor, MarkMissing,
           FinishRemerge
  <1>3. UNCHANGED <<batch, answer, late, srv, backup>>
    BY DEF ReadLengths, ReadRows, AdoptEpoch, RewindCursor, MarkRemerging, SaveCursor, MarkMissing,
           FinishRemerge, pushVars, serverVars
  <1>4. \A e \in Devices, o \in Docs : RowInv(rows'[e][o]) /\ (e # d => rows'[e][o] = rows[e][o])
    <2>1. CASE MarkMissing(d)
      <3>1. \A e \in Devices, o \in Docs :
              rows'[e][o] = IF e = d /\ o \notin present[d] THEN MarkMissingRow(rows[e][o]) ELSE rows[e][o]
        BY <2>1 DEF MarkMissing, TypeOK, StoreTypeOK
      <3> QED BY <3>1, MarkMissingRowInv DEF GenerationsInv, StoredInv, TypeOK, StoreTypeOK
    <2>2. CASE ~MarkMissing(d)
      <3>1. rows' = rows
        BY <2>2 DEF ReadLengths, ReadRows, AdoptEpoch, RewindCursor, MarkRemerging, SaveCursor,
                    FinishRemerge, storeVars
      <3> QED BY <3>1 DEF GenerationsInv, StoredInv
    <2> QED BY <2>1, <2>2
  <1>5. \A e \in Devices, o \in Docs : ServerRowInv(page'[e][o])
    <2>1. CASE ReadRows(d)
      <3>1. \A e \in Devices, o \in Docs :
              page'[e][o] = IF e = d THEN RowsBetween(cursor[d], upto[d])[o] ELSE page[e][o]
        BY <2>1 DEF ReadRows, TypeOK, PullTypeOK
      <3>2. \A o \in Docs : RowsBetween(cursor[d], upto[d])[o] \in {srv[o], NoServerRow}
        BY DEF RowsBetween
      <3> QED BY <3>1, <3>2 DEF GenerationsInv, StoredInv, ServerRowInv
    <2>2. CASE SaveCursor(d)
      <3>1. \A e \in Devices, o \in Docs : page'[e][o] = IF e = d THEN NoServerRow ELSE page[e][o]
        BY <2>2 DEF SaveCursor, NoPage, TypeOK, PullTypeOK
      <3> QED BY <3>1 DEF GenerationsInv, StoredInv, ServerRowInv
    <2>3. CASE ~ReadRows(d) /\ ~SaveCursor(d)
      <3>1. page' = page
        BY <2>3 DEF ReadLengths, AdoptEpoch, RewindCursor, MarkRemerging, MarkMissing, FinishRemerge,
                    pageVars
      <3> QED BY <3>1 DEF GenerationsInv, StoredInv
    <2> QED BY <2>1, <2>2, <2>3
  <1>6. StoredInv'
    BY <1>3, <1>4, <1>5 DEF GenerationsInv, StoredInv
  <1> QED BY <1>1, <1>2, <1>3, <1>4, <1>6, GenerationsOutsidePush DEF GenerationsInv

LEMMA GenerationsEntry ==
    ASSUME TypeOK, GenerationsInv, NEW d \in Devices, NEW doc \in Docs,
           ApplyEntry(d, doc) \/ UndecryptableEntry(d, doc)
    PROVE  GenerationsInv'
  <1> DEFINE r == rows[d][doc]
             got == page[d][doc]
  <1>1. pc[d] = "entries" /\ pc' = pc /\ UNCHANGED <<batch, answer, late, srv, backup>> /\ got # NoServerRow
    BY DEF ApplyEntry, UndecryptableEntry, EntryDone, NextEntry, pushVars, serverVars
  <1>2. r \in Row /\ RowInv(r) /\ got \in ServerRow /\ got.rev.gen > 0
    BY <1>1 DEF GenerationsInv, StoredInv, ServerRowInv, TypeOK, StoreTypeOK, PullTypeOK
  <1>3. \A e \in Devices, o \in Docs : RowInv(rows'[e][o]) /\ (e # d => rows'[e][o] = rows[e][o])
    <2>1. CASE ApplyEntry(d, doc)
      <3>1. SetRow(d, doc, ApplyRemote(Kind[doc], r, AsVersion(got)).row)
        BY <2>1 DEF ApplyEntry, EngineApply
      <3>2. PICK q : RowInv(q) /\ SetRow(d, doc, q)
        BY <3>1, <1>2, AsVersionType, ApplyRemoteInv
      <3> QED BY <3>2, SetRowRows DEF GenerationsInv, StoredInv, TypeOK, StoreTypeOK
    <2>2. CASE UndecryptableEntry(d, doc)
      <3>1. rows' = rows \/ SetRow(d, doc, BumpRevision(r))
        BY <2>2 DEF UndecryptableEntry
      <3>2. RowInv(BumpRevision(r))
        BY <1>2, BumpRevisionInv
      <3>3. CASE rows' = rows
        BY <3>3 DEF GenerationsInv, StoredInv
      <3>4. CASE SetRow(d, doc, BumpRevision(r))
        BY <3>2, <3>4, SetRowRows DEF GenerationsInv, StoredInv, TypeOK, StoreTypeOK
      <3> QED BY <3>1, <3>3, <3>4
    <2> QED BY <2>1, <2>2
  <1>4. \A e \in Devices, o \in Docs : page'[e][o] \in {page[e][o], NoServerRow}
    BY DEF ApplyEntry, UndecryptableEntry, EntryDone, TypeOK, PullTypeOK
  <1>5. StoredInv'
    BY <1>1, <1>3, <1>4 DEF GenerationsInv, StoredInv, ServerRowInv
  <1>6. "entries" \in Steps \ {"send", "wait", "results"}
    BY DEF Steps
  <1> QED BY <1>1, <1>3, <1>5, <1>6, GenerationsOutsidePush DEF GenerationsInv

LEMMA GenerationsPick ==
    ASSUME TypeOK, GenerationsInv, NEW d \in Devices, PickPending(d)
    PROVE  GenerationsInv'
  <1>1. /\ pc[d] = "pick" /\ Goto(d, "send")
        /\ UNCHANGED <<rows, page, answer, late, srv, backup>>
    BY DEF PickPending, storeVars, pageVars, serverVars
  <1>2. \A e \in Devices, o \in Docs :
          batch'[e][o] = IF e = d THEN (IF ToPush(d, o) THEN PushOf(rows[d][o]) ELSE NoPush)
                                  ELSE batch[e][o]
    BY DEF PickPending, TypeOK, PushTypeOK
  <1>3. ASSUME NEW o \in Docs, ToPush(d, o)
        PROVE  PushOf(rows[d][o]).rev = rows[d][o].rev /\ PushInv(PushOf(rows[d][o]))
    <2>1. rows[d][o] \in Row /\ RowInv(rows[d][o]) /\ Pending(rows[d][o])
      BY <1>3 DEF ToPush, GenerationsInv, StoredInv, TypeOK, StoreTypeOK
    <2>2. PushBase(rows[d][o]).gen < rows[d][o].rev.gen
      BY <2>1, PendingBase
    <2>3. rows[d][o].rev.gen \in Nat /\ PushBase(rows[d][o]).gen \in Nat
      BY <2>1, RowFields, NoRevType DEF PushBase
    <2> QED BY <2>2, <2>3 DEF PushOf, PushInv
  <1>4. StoredInv'
    BY <1>1 DEF GenerationsInv, StoredInv
  <1>5. PushesInv'
    BY <1>1, <1>2, <1>3 DEF GenerationsInv, PushesInv, PushInv
  <1>6. AnswersInv'
    <2> SUFFICES ASSUME NEW e \in Devices, NEW o \in Docs
                 PROVE  /\ pc'[e] # "results" => answer[e][o].status = "none"
                        /\ answer[e][o].status \in {"conflict", "broken"} => answer[e][o].row.rev.gen > 0
                        /\ answer[e][o].status = "ok" => batch'[e][o] # NoPush
                        /\ (pc'[e] \in {"send", "wait"} \/ answer[e][o].status = "ok") /\ batch'[e][o] # NoPush
                             => Upto(batch'[e][o].rev, rows[e][o].rev)
        BY <1>1 DEF AnswersInv
    <2>1. CASE e = d
      <3>1. answer[e][o].status = "none"
        BY <2>1, <1>1 DEF GenerationsInv, AnswersInv
      <3>2. batch'[e][o] # NoPush => batch'[e][o].rev = rows[e][o].rev
        BY <2>1, <1>2, <1>3
      <3> QED BY <3>1, <3>2 DEF Upto
    <2>2. CASE e # d
      <3>1. pc'[e] = pc[e] /\ batch'[e][o] = batch[e][o]
        BY <2>2, <1>1, <1>2 DEF Goto, TypeOK, RunTypeOK
      <3> QED BY <3>1 DEF GenerationsInv, AnswersInv
    <2> QED BY <2>1, <2>2
  <1> QED BY <1>4, <1>5, <1>6 DEF GenerationsInv

LEMMA GenerationsSend ==
    ASSUME TypeOK, GenerationsInv, NEW d \in Devices, SendPush(d)
    PROVE  GenerationsInv'
  <1>1. /\ pc[d] = "send" /\ Goto(d, "wait")
        /\ UNCHANGED <<page, batch, answer, late, srv, backup>>
    BY DEF SendPush, pageVars, pushVars, serverVars
  <1>2. \A e \in Devices, o \in Docs : RowInv(rows'[e][o]) /\ rows'[e][o].rev = rows[e][o].rev
    <2> SUFFICES ASSUME NEW e \in Devices, NEW o \in Docs
                 PROVE  RowInv(rows'[e][o]) /\ rows'[e][o].rev = rows[e][o].rev
        OBVIOUS
    <2>1. rows'[e][o] = IF e = d /\ o \in Pushed(batch[d]) THEN MarkSent(rows[e][o], batch[d][o].rev)
                                                         ELSE rows[e][o]
      BY DEF SendPush, TypeOK, StoreTypeOK
    <2>2. rows[e][o] \in Row /\ RowInv(rows[e][o])
      BY DEF GenerationsInv, StoredInv, TypeOK, StoreTypeOK
    <2>3. CASE e = d /\ o \in Pushed(batch[d])
      <3>1. batch[d][o] # NoPush
        BY <2>3 DEF Pushed
      <3>2. Upto(batch[d][o].rev, rows[d][o].rev)
        BY <3>1, <1>1 DEF GenerationsInv, AnswersInv
      <3>3. batch[d][o].rev.gen > batch[d][o].base.gen
        BY <3>1 DEF GenerationsInv, PushesInv, PushInv
      <3>4. batch[d][o].rev \in Rev /\ batch[d][o].rev.gen \in Nat /\ batch[d][o].base.gen \in Nat
        BY DEF TypeOK, PushTypeOK, Push, Rev
      <3>5. batch[d][o].rev.gen > 0
        BY <3>3, <3>4
      <3> QED BY <2>1, <2>2, <2>3, <3>2, <3>4, <3>5, MarkSentInv
    <2>4. CASE ~(e = d /\ o \in Pushed(batch[d]))
      BY <2>1, <2>2, <2>4
    <2> QED BY <2>3, <2>4
  <1>3. StoredInv'
    BY <1>1, <1>2 DEF GenerationsInv, StoredInv
  <1>4. PushesInv'
    BY <1>1 DEF GenerationsInv, PushesInv
  <1>5. AnswersInv'
    <2>1. \A e \in Devices : pc'[e] = IF e = d THEN "wait" ELSE pc[e]
      BY <1>1 DEF Goto, TypeOK, RunTypeOK
    <2> QED BY <1>1, <1>2, <2>1 DEF GenerationsInv, AnswersInv
  <1> QED BY <1>3, <1>4, <1>5 DEF GenerationsInv

LEMMA GenerationsAnswer ==
    ASSUME TypeOK, GenerationsInv, NEW d \in Devices, ServerAnswers(d)
    PROVE  GenerationsInv' /\ GenerationStep
  <1>1. /\ pc[d] = "wait" /\ Goto(d, "results") /\ AcceptPush(batch[d], d)
        /\ UNCHANGED <<rows, page, batch, late>>
    BY DEF ServerAnswers, storeVars, pageVars
  <1>2. /\ \A o \in Docs : ServerRowInv(srv'[o])
        /\ \A o \in Docs : srv'[o].rev # srv[o].rev => srv'[o].rev.gen > srv[o].rev.gen
        /\ backup' = backup
    <2>1. ServerTypeOK /\ batch[d] \in [Docs -> Push]
      BY DEF TypeOK, PushTypeOK
    <2>2. \A o \in Docs : PushInv(batch[d][o]) /\ ServerRowInv(srv[o])
      BY DEF GenerationsInv, PushesInv, StoredInv
    <2> QED BY <1>1, <2>1, <2>2, AcceptPushInv
  <1>3. PICK behind \in SUBSET {o \in Pushed(batch[d]) \ Accepts(batch[d]) : srv[o].rev # NoRev} :
          answer' = [answer EXCEPT ![d] = [o \in Docs |->
                       IF o \in Pushed(batch[d])
                         THEN [status |-> StatusOf(o, Accepts(batch[d]), behind), row |-> srv[o]]
                         ELSE NoAnswer]]
    BY DEF ServerAnswers
  <1>4. \A e \in Devices, o \in Docs :
          answer'[e][o] = IF e # d THEN answer[e][o]
                          ELSE IF o \in Pushed(batch[d])
                            THEN [status |-> StatusOf(o, Accepts(batch[d]), behind), row |-> srv[o]]
                            ELSE NoAnswer
    BY <1>3 DEF TypeOK, PushTypeOK
  <1>5. StoredInv'
    BY <1>1, <1>2 DEF GenerationsInv, StoredInv
  <1>6. PushesInv'
    BY <1>1 DEF GenerationsInv, PushesInv
  <1>7. AnswersInv'
    <2> SUFFICES ASSUME NEW e \in Devices, NEW o \in Docs
                 PROVE  /\ pc'[e] # "results" => answer'[e][o].status = "none"
                        /\ answer'[e][o].status \in {"conflict", "broken"} => answer'[e][o].row.rev.gen > 0
                        /\ answer'[e][o].status = "ok" => batch[e][o] # NoPush
                        /\ (pc'[e] \in {"send", "wait"} \/ answer'[e][o].status = "ok") /\ batch[e][o] # NoPush
                             => Upto(batch[e][o].rev, rows[e][o].rev)
        BY <1>1 DEF AnswersInv
    <2>1. pc'[e] = IF e = d THEN "results" ELSE pc[e]
      BY <1>1 DEF Goto, TypeOK, RunTypeOK
    <2>2. CASE e # d
      BY <2>1, <2>2, <1>4 DEF GenerationsInv, AnswersInv
    <2>3. CASE e = d /\ o \notin Pushed(batch[d])
      BY <2>1, <2>3, <1>4, NoServerRowRev
    <2>4. CASE e = d /\ o \in Pushed(batch[d])
      <3>1. answer'[e][o].row = srv[o] /\ answer'[e][o].status = StatusOf(o, Accepts(batch[d]), behind)
        <4> DEFINE status == StatusOf(o, Accepts(batch[d]), behind)
                   row == srv[o]
        <4>1. answer'[e][o] = [status |-> status, row |-> row]
          BY <2>4, <1>4
        <4> HIDE DEF status, row
        <4>2. answer'[e][o].row = row /\ answer'[e][o].status = status
          BY <4>1
        <4> QED BY <4>2 DEF status, row
      <3>2. batch[e][o] # NoPush
        BY <2>4 DEF Pushed
      <3>3. Upto(batch[e][o].rev, rows[e][o].rev)
        BY <2>4, <1>1, <3>2 DEF GenerationsInv, AnswersInv
      <3>4. answer'[e][o].status \in {"conflict", "broken"} => srv[o].rev # NoRev
        BY <3>1 DEF StatusOf
      <3>5. srv[o].rev # NoRev => srv[o].rev.gen > 0
        BY NoServerRowRev DEF GenerationsInv, StoredInv, ServerRowInv
      <3> QED BY <2>1, <2>4, <3>1, <3>2, <3>3, <3>4, <3>5
    <2> QED BY <2>2, <2>3, <2>4
  <1>8. GenerationStep
    BY <1>2 DEF GenerationStep
  <1> QED BY <1>5, <1>6, <1>7, <1>8 DEF GenerationsInv

LEMMA GenerationsResult ==
    ASSUME TypeOK, GenerationsInv, NEW d \in Devices, NEW doc \in Docs, AnyResult(d, doc)
    PROVE  GenerationsInv'
  <1> DEFINE r == rows[d][doc]
             given == answer[d][doc]
  <1>1. pc[d] = "results" /\ UNCHANGED <<pc, page, batch, late, srv, backup>>
    BY DEF AnyResult, ResultOk, ResultConflict, ResultLost, ResultBehind, ResultBroken, ResultNewer,
           Result, Processed, pageVars, serverVars
  <1>2. \A e \in Devices, o \in Docs :
          answer'[e][o] = IF e = d /\ o = doc THEN NoAnswer ELSE answer[e][o]
    BY DEF AnyResult, ResultOk, ResultConflict, ResultLost, ResultBehind, ResultBroken, ResultNewer,
           Processed, TypeOK, PushTypeOK
  <1>3. r \in Row /\ RowInv(r) /\ given.row \in ServerRow /\ batch[d][doc].rev \in Rev
    BY DEF GenerationsInv, StoredInv, TypeOK, StoreTypeOK, PushTypeOK, Push, Answer
  <1>4. PICK q : RowInv(q) /\ (SetRow(d, doc, q) \/ (rows' = rows /\ q = r))
    <2>1. CASE ResultOk(d, doc)
      <3>1. given.status = "ok"
        BY <2>1 DEF ResultOk, Result
      <3>2. batch[d][doc] # NoPush /\ Upto(batch[d][doc].rev, r.rev)
        BY <3>1 DEF GenerationsInv, AnswersInv
      <3>3. batch[d][doc].rev.gen > 0
        <4>1. batch[d][doc].rev.gen > batch[d][doc].base.gen
          BY <3>2 DEF GenerationsInv, PushesInv, PushInv
        <4>2. batch[d][doc].rev.gen \in Nat /\ batch[d][doc].base.gen \in Nat
          BY DEF TypeOK, PushTypeOK, Push, Rev
        <4> QED BY <4>1, <4>2
      <3>4. RowInv(Learned(r, batch[d][doc].rev))
        BY <1>3, <3>2, <3>3, LearnedInv
      <3> QED BY <2>1, <3>4 DEF ResultOk
    <2>2. CASE ResultConflict(d, doc)
      <3>1. given.row.rev.gen > 0
        BY <2>2 DEF ResultConflict, Result, GenerationsInv, AnswersInv
      <3>2. RowInv(ApplyRemote(Kind[doc], r, AsVersion(given.row)).row)
        BY <1>3, <3>1, AsVersionType, ApplyRemoteInv
      <3> QED BY <2>2, <3>2 DEF ResultConflict, EngineApply
    <2>3. CASE ResultLost(d, doc)
      <3>1. RowInv(MarkUnsynced(r))
        BY <1>3, MarkUnsyncedInv
      <3> QED BY <2>3, <3>1 DEF ResultLost
    <2>4. CASE ResultBroken(d, doc)
      <3>1. RowInv(BumpRevision(r))
        BY <1>3, BumpRevisionInv
      <3>2. rows' = rows \/ SetRow(d, doc, BumpRevision(r))
        BY <2>4 DEF ResultBroken
      <3> QED BY <1>3, <3>1, <3>2
    <2>5. CASE ResultBehind(d, doc) \/ ResultNewer(d, doc)
      BY <2>5, <1>3 DEF ResultBehind, ResultNewer
    <2> QED BY <2>1, <2>2, <2>3, <2>4, <2>5 DEF AnyResult
  <1>5. \A e \in Devices, o \in Docs : rows'[e][o] = IF e = d /\ o = doc THEN q ELSE rows[e][o]
    <2>1. CASE SetRow(d, doc, q)
      BY <2>1, SetRowRows DEF TypeOK, StoreTypeOK
    <2>2. CASE rows' = rows /\ q = r
      BY <2>2
    <2> QED BY <1>4, <2>1, <2>2
  <1>6. StoredInv'
    BY <1>1, <1>4, <1>5 DEF GenerationsInv, StoredInv
  <1>7. PushesInv'
    BY <1>1 DEF GenerationsInv, PushesInv
  <1>8. AnswersInv'
    <2> SUFFICES ASSUME NEW e \in Devices, NEW o \in Docs
                 PROVE  /\ pc[e] # "results" => answer'[e][o].status = "none"
                        /\ answer'[e][o].status \in {"conflict", "broken"} => answer'[e][o].row.rev.gen > 0
                        /\ answer'[e][o].status = "ok" => batch[e][o] # NoPush
                        /\ (pc[e] \in {"send", "wait"} \/ answer'[e][o].status = "ok") /\ batch[e][o] # NoPush
                             => Upto(batch[e][o].rev, rows'[e][o].rev)
        BY <1>1 DEF AnswersInv
    <2>1. CASE e = d /\ o = doc
      BY <2>1, <1>1, <1>2, NoServerRowRev
    <2>2. CASE ~(e = d /\ o = doc)
      BY <2>2, <1>2, <1>5 DEF GenerationsInv, AnswersInv
    <2> QED BY <2>1, <2>2
  <1> QED BY <1>6, <1>7, <1>8 DEF GenerationsInv

LEMMA GenerationsRoundEnd ==
    ASSUME TypeOK, GenerationsInv, NEW d \in Devices, EndRound(d)
    PROVE  GenerationsInv'
  <1>1. /\ \A o \in Docs : answer[d][o].status = "none"
        /\ UNCHANGED <<rows, page, answer, late, srv, backup>>
    BY NoServerRowRev DEF EndRound, NoAnswers, storeVars, pageVars, serverVars
  <1>2. \A e \in Devices, o \in Docs : batch'[e][o] = IF e = d THEN NoPush ELSE batch[e][o]
    BY DEF EndRound, NoBatch, TypeOK, PushTypeOK
  <1>3. \A e \in Devices \ {d} : pc'[e] = pc[e]
    BY DEF EndRound, Goto, TypeOK, RunTypeOK
  <1>4. StoredInv'
    BY <1>1 DEF GenerationsInv, StoredInv
  <1>5. PushesInv'
    BY <1>1, <1>2 DEF GenerationsInv, PushesInv, PushInv
  <1>6. AnswersInv'
    BY <1>1, <1>2, <1>3 DEF GenerationsInv, AnswersInv
  <1> QED BY <1>4, <1>5, <1>6 DEF GenerationsInv

LEMMA GenerationsEnd ==
    ASSUME TypeOK, GenerationsInv, NEW d \in Devices, FinishSync(d) \/ Interrupt(d) \/ PageRefused(d)
    PROVE  GenerationsInv'
  <1>1. ForgetRun(d)
    BY DEF FinishSync, Interrupt, PageRefused
  <1>2. \A e \in Devices : \A push \in late'[e] : push \in late[e] \/ push = batch[e]
    <2>1. late' = late \/ late' = [late EXCEPT ![d] = late[d] \cup {batch[d]}]
      BY DEF FinishSync, Interrupt, PageRefused
    <2> QED BY <2>1 DEF TypeOK, RunTypeOK
  <1>3. \A e \in Devices, o \in Docs :
          /\ page'[e][o] = IF e = d THEN NoServerRow ELSE page[e][o]
          /\ batch'[e][o] = IF e = d THEN NoPush ELSE batch[e][o]
          /\ answer'[e][o] = IF e = d THEN NoAnswer ELSE answer[e][o]
    BY <1>1 DEF ForgetRun, NoPage, NoBatch, NoAnswers, TypeOK, PullTypeOK, PushTypeOK
  <1>4. \A e \in Devices : pc'[e] = IF e = d THEN "idle" ELSE pc[e]
    BY <1>1 DEF ForgetRun, TypeOK, RunTypeOK
  <1>5. UNCHANGED <<rows, srv, backup>>
    BY <1>1 DEF ForgetRun, storeVars, serverVars
  <1>6. StoredInv'
    BY <1>3, <1>5 DEF GenerationsInv, StoredInv, ServerRowInv
  <1>7. PushesInv'
    <2>1. \A e \in Devices, o \in Docs : PushInv(batch[e][o])
      BY DEF GenerationsInv, PushesInv
    <2>2. \A e \in Devices : \A push \in late[e], o \in Docs : PushInv(push[o])
      BY DEF GenerationsInv, PushesInv
    <2>3. \A e \in Devices : \A push \in late'[e], o \in Docs : PushInv(push[o])
      BY <1>2, <2>1, <2>2
    <2>4. \A e \in Devices, o \in Docs : PushInv(batch'[e][o])
      BY <1>3, <2>1 DEF PushInv
    <2> QED BY <2>3, <2>4 DEF PushesInv
  <1>8. AnswersInv'
    BY <1>3, <1>4, <1>5, NoServerRowRev DEF GenerationsInv, AnswersInv
  <1> QED BY <1>6, <1>7, <1>8 DEF GenerationsInv

LEMMA GenerationsLate ==
    ASSUME TypeOK, GenerationsInv, NEW d \in Devices, RunLate(d)
    PROVE  GenerationsInv' /\ GenerationStep
  <1>1. PICK push \in late[d] : AcceptPush(push, d) /\ late' = [late EXCEPT ![d] = @ \ {push}]
    BY DEF RunLate
  <1>2. /\ \A o \in Docs : ServerRowInv(srv'[o])
        /\ \A o \in Docs : srv'[o].rev # srv[o].rev => srv'[o].rev.gen > srv[o].rev.gen
        /\ backup' = backup
    <2>1. ServerTypeOK /\ push \in [Docs -> Push]
      BY DEF TypeOK, RunTypeOK
    <2>2. \A o \in Docs : PushInv(push[o]) /\ ServerRowInv(srv[o])
      BY DEF GenerationsInv, PushesInv, StoredInv
    <2> QED BY <1>1, <2>1, <2>2, AcceptPushInv
  <1>3. UNCHANGED <<rows, pc, page, batch, answer>>
    BY DEF RunLate, DevicesUnchanged, storeVars, pageVars, pushVars
  <1>4. StoredInv'
    BY <1>2, <1>3 DEF GenerationsInv, StoredInv
  <1>5. PushesInv'
    <2>1. \A e \in Devices : late'[e] \subseteq late[e]
      BY <1>1 DEF TypeOK, RunTypeOK
    <2> QED BY <1>3, <2>1 DEF GenerationsInv, PushesInv
  <1>6. AnswersInv'
    BY <1>3 DEF GenerationsInv, AnswersInv
  <1> QED BY <1>2, <1>4, <1>5, <1>6 DEF GenerationsInv, GenerationStep

LEMMA GenerationsServer ==
    ASSUME TypeOK, GenerationsInv, AnyServerStep
    PROVE  GenerationsInv' /\ GenerationStep
  <1>1. UNCHANGED <<rows, pc, page, batch, answer, late>>
    BY DEF AnyServerStep, TakeBackup, RestoreServer, RotateServerEpoch, DamageRow, NewerAppWrites,
           DevicesUnchanged, storeVars, pageVars, pushVars
  <1>2. PushesInv' /\ AnswersInv'
    BY <1>1 DEF GenerationsInv, PushesInv, AnswersInv
  <1>3. (\A o \in Docs : ServerRowInv(srv'[o]) /\ ServerRowInv(backup'.srv[o])) /\ GenerationStep
    <2>1. CASE TakeBackup
      <3>1. srv' = srv /\ backup'.srv = srv
        BY <2>1 DEF TakeBackup, Backup
      <3> QED BY <3>1 DEF GenerationsInv, StoredInv, GenerationStep
    <2>2. CASE RestoreServer
      <3>1. srv' = backup.srv /\ backup' = backup /\ restores' # restores
        BY <2>2 DEF RestoreServer, Restore, TypeOK, BoundsTypeOK
      <3> QED BY <3>1 DEF GenerationsInv, StoredInv, GenerationStep
    <2>3. CASE RotateServerEpoch
      BY <2>3 DEF RotateServerEpoch, RotateEpoch, GenerationsInv, StoredInv, GenerationStep
    <2>4. ASSUME NEW doc \in Docs, DamageRow(doc)
          PROVE  (\A o \in Docs : ServerRowInv(srv'[o]) /\ ServerRowInv(backup'.srv[o])) /\ GenerationStep
      <3>1. backup' = backup /\ \A o \in Docs : srv'[o].rev = srv[o].rev
        BY <2>4 DEF DamageRow, Damage, TypeOK, ServerTypeOK, ServerRow
      <3>2. \A o \in Docs : srv'[o] = srv[o] \/ srv[o] # NoServerRow
        BY <2>4, NoServerRowRev DEF DamageRow, Damage, TypeOK, ServerTypeOK
      <3> QED BY <3>1, <3>2 DEF GenerationsInv, StoredInv, ServerRowInv, GenerationStep
    <2>5. ASSUME NEW doc \in Docs, NewerAppWrites(doc)
          PROVE  (\A o \in Docs : ServerRowInv(srv'[o]) /\ ServerRowInv(backup'.srv[o])) /\ GenerationStep
      <3>1. PICK content : PushNewerFormat(doc, content, edits')
        BY <2>5 DEF NewerAppWrites
      <3>2. backup' = backup /\ \A o \in Docs \ {doc} : srv'[o] = srv[o]
        BY <3>1 DEF PushNewerFormat, TypeOK, ServerTypeOK
      <3>3. srv'[doc].rev.gen = srv[doc].rev.gen + 1
        BY <3>1 DEF PushNewerFormat, NextRev, TypeOK, ServerTypeOK
      <3>4. srv[doc].rev.gen \in Nat
        BY DEF TypeOK, ServerTypeOK, ServerRow, Rev
      <3> QED BY <3>2, <3>3, <3>4 DEF GenerationsInv, StoredInv, ServerRowInv, GenerationStep
    <2> QED BY <2>1, <2>2, <2>3, <2>4, <2>5 DEF AnyServerStep
  <1>4. StoredInv'
    BY <1>1, <1>3 DEF GenerationsInv, StoredInv
  <1> QED BY <1>2, <1>3, <1>4 DEF GenerationsInv

LEMMA GenerationsKept == TypeOK /\ GenerationsInv /\ [Next]_vars => GenerationsInv' /\ [GenerationStep]_vars
  <1> SUFFICES ASSUME TypeOK, GenerationsInv, [Next]_vars
               PROVE  GenerationsInv' /\ GenerationStep
      OBVIOUS
  <1>1. ASSUME srv' = srv
        PROVE  GenerationStep
    BY <1>1 DEF GenerationStep
  <1>2. CASE UNCHANGED vars
    BY <1>1, <1>2 DEF vars, storeVars, pageVars, pushVars, serverVars, GenerationsInv, StoredInv,
                PushesInv, AnswersInv
  <1>3. ASSUME NEW d \in Devices, NEW doc \in Docs, Write(d, doc) \/ Delete(d, doc)
        PROVE  GenerationsInv' /\ GenerationStep
    <2>1. srv' = srv
      BY <1>3 DEF Write, Delete, LocalOnly, serverVars
    <2> QED BY <1>1, <1>3, <2>1, GenerationsWrite
  <1>4. ASSUME NEW d \in Devices, BindAdd(d) \/ BindReplace(d)
        PROVE  GenerationsInv' /\ GenerationStep
    <2>1. srv' = srv
      BY <1>4 DEF BindAdd, BindReplace, Bound, serverVars
    <2> QED BY <1>1, <1>4, <2>1, GenerationsBind
  <1>5. ASSUME NEW d \in Devices,
               FinishSync(d) \/ Interrupt(d) \/ PageRefused(d) \/ EndRound(d) \/ PickPending(d) \/ SendPush(d)
        PROVE  GenerationsInv' /\ GenerationStep
    <2>1. srv' = srv
      BY <1>5 DEF FinishSync, Interrupt, PageRefused, ForgetRun, EndRound, PickPending, SendPush, serverVars
    <2> QED BY <1>1, <1>5, <2>1, GenerationsEnd, GenerationsRoundEnd, GenerationsPick, GenerationsSend
  <1>6. ASSUME NEW d \in Devices,
               \/ ReadLengths(d) \/ ReadRows(d) \/ AdoptEpoch(d) \/ RewindCursor(d) \/ MarkRemerging(d)
               \/ SaveCursor(d) \/ MarkMissing(d) \/ FinishRemerge(d)
        PROVE  GenerationsInv' /\ GenerationStep
    <2>1. srv' = srv
      BY <1>6 DEF ReadLengths, ReadRows, AdoptEpoch, RewindCursor, MarkRemerging, SaveCursor,
                  MarkMissing, FinishRemerge, serverVars
    <2> QED BY <1>1, <1>6, <2>1, GenerationsPull
  <1>7. ASSUME NEW d \in Devices, NEW doc \in Docs,
               ApplyEntry(d, doc) \/ UndecryptableEntry(d, doc) \/ AnyResult(d, doc)
        PROVE  GenerationsInv' /\ GenerationStep
    <2>1. srv' = srv
      BY <1>7 DEF ApplyEntry, UndecryptableEntry, EntryDone, AnyResult, ResultOk, ResultConflict,
                  ResultLost, ResultBehind, ResultBroken, ResultNewer, Processed, serverVars
    <2> QED BY <1>1, <1>7, <2>1, GenerationsEntry, GenerationsResult
  <1>8. ASSUME NEW d \in Devices, Engine(d)
        PROVE  GenerationsInv' /\ GenerationStep
    BY <1>5, <1>6, <1>7, <1>8, GenerationsAnswer DEF Engine, AnyResult
  <1>9. ASSUME NEW d \in Devices, Interrupt(d) \/ RunLate(d)
        PROVE  GenerationsInv' /\ GenerationStep
    BY <1>5, <1>9, GenerationsLate
  <1> QED BY <1>2, <1>3, <1>4, <1>8, <1>9, GenerationsServer DEF Next, AnyServerStep

\* The inductive invariant holds.
THEOREM GenerationsCorrect == Spec => []GenerationsInv
    BY TypeCorrect, GenerationsInit, GenerationsKept, PTL DEF Spec

\* M2, for any devices, documents and bounds: whatever the interleaving, the
\* crashes, the lost and late requests and the repairs, the server, which only
\* compares revisions for equality, is never given a generation that does not
\* rise.
THEOREM GenerationsRise == Spec => GenerationsGrow
    BY TypeCorrect, GenerationsCorrect, GenerationsKept, PTL DEF Spec, GenerationsGrow

-----------------------------------------------------------------------------
(* The replay floor *)

\* What a step of a sync makes of a row: its content stays, and what it claims
\* of the account until it learns of it, or a version of the document went
\* through apply_remote and was flagged if it had to be.
ContentStays(r, q) ==
    /\ q.rev.hash = r.rev.hash
    /\ q.floor = 0 => r.floor = 0 /\ q.synced \in {r.synced, NoRev}

Applies(d, doc, v, r, q) ==
    /\ v.rev.gen > 0
    /\ q = ApplyRemote(Kind[doc], r, v).row
    /\ Flagged(d, Kind[doc], r, v) => doc \in report'[d]

SyncsRow(d, doc) ==
    LET r == rows[d][doc]
        q == rows'[d][doc]
    IN  ContentStays(r, q) \/ \E v \in Version : Applies(d, doc, v, r, q)

\* What the engine applies of a page, or of an answer, is a version.
LEMMA AppliedVersions ==
    ASSUME TypeOK, GenerationsInv, NEW d \in Devices, NEW doc \in Docs
    PROVE  /\ ApplyEntry(d, doc) => AsVersion(page[d][doc]).rev.gen > 0
           /\ Result(d, doc, "conflict") => AsVersion(answer[d][doc].row).rev.gen > 0
           /\ Result(d, doc, "ok") => batch[d][doc].rev \in Rev /\ batch[d][doc].rev.gen > 0
           /\ AsVersion(page[d][doc]) \in Version /\ AsVersion(answer[d][doc].row) \in Version
  <1>1. ApplyEntry(d, doc) => AsVersion(page[d][doc]).rev.gen > 0
    BY DEF ApplyEntry, NextEntry, AsVersion, GenerationsInv, StoredInv, ServerRowInv
  <1>2. Result(d, doc, "conflict") => AsVersion(answer[d][doc].row).rev.gen > 0
    BY DEF Result, AsVersion, GenerationsInv, AnswersInv
  <1>3. Result(d, doc, "ok") => batch[d][doc].rev \in Rev /\ batch[d][doc].rev.gen > 0
    <2>1. Result(d, doc, "ok") => batch[d][doc] # NoPush
      BY DEF Result, GenerationsInv, AnswersInv
    <2>2. batch[d][doc] \in Push /\ PushInv(batch[d][doc])
      BY DEF TypeOK, PushTypeOK, GenerationsInv, PushesInv
    <2>3. /\ batch[d][doc].rev \in Rev
          /\ batch[d][doc].rev.gen \in Nat /\ batch[d][doc].base.gen \in Nat
      BY <2>2 DEF Push, Rev
    <2> QED BY <2>1, <2>2, <2>3 DEF PushInv
  <1>4. AsVersion(page[d][doc]) \in Version /\ AsVersion(answer[d][doc].row) \in Version
    BY AsVersionType DEF TypeOK, PullTypeOK, PushTypeOK, Answer
  <1> QED BY <1>1, <1>2, <1>3, <1>4

LEMMA RowSteps ==
    ASSUME TypeOK, GenerationsInv, Next, SyncStep, NEW d \in Devices, NEW doc \in Docs
    PROVE  SyncsRow(d, doc)
  <1> DEFINE Goal == SyncsRow(d, doc)
  <1>a. \A e \in Devices, o \in Docs : rows[e][o] \in Row /\ RowInv(rows[e][o])
    BY DEF TypeOK, StoreTypeOK, GenerationsInv, StoredInv
  <1>1. ASSUME rows' = rows
        PROVE  Goal
    BY <1>1 DEF SyncsRow, ContentStays
  <1>2. ASSUME NEW e \in Devices, NEW o \in Docs, NEW q, SetRow(e, o, q), ContentStays(rows[e][o], q)
        PROVE  Goal
    <2>1. rows'[d][doc] = IF d = e /\ doc = o THEN q ELSE rows[d][doc]
      BY <1>2, SetRowRows DEF TypeOK, StoreTypeOK
    <2> QED BY <1>2, <2>1 DEF SyncsRow, ContentStays
  <1>3. ASSUME NEW e \in Devices, NEW o \in Docs, NEW v \in Version, v.rev.gen > 0, EngineApply(e, o, v)
        PROVE  Goal
    <2> DEFINE q == ApplyRemote(Kind[o], rows[e][o], v).row
    <2>1. rows'[d][doc] = IF d = e /\ doc = o THEN q ELSE rows[d][doc]
      BY <1>3, SetRowRows DEF EngineApply, TypeOK, StoreTypeOK
    <2>2. CASE d = e /\ doc = o
      <3>1. Flagged(d, Kind[doc], rows[d][doc], v) => doc \in report'[d]
        BY <1>3, <2>2 DEF EngineApply, TypeOK, RunTypeOK
      <3>2. Applies(d, doc, v, rows[d][doc], rows'[d][doc])
        BY <1>3, <2>1, <2>2, <3>1 DEF Applies
      <3> QED BY <3>2 DEF SyncsRow
    <2>3. CASE ~(d = e /\ doc = o)
      BY <2>1, <2>3 DEF SyncsRow, ContentStays
    <2> QED BY <2>2, <2>3
  <1>4. ASSUME NEW e \in Devices, NEW o \in Docs, SetRow(e, o, BumpRevision(rows[e][o]))
        PROVE  Goal
    <2>1. BumpRevision(rows[e][o]).rev.hash = rows[e][o].rev.hash
      BY <1>a, BumpRevisionInv
    <2>2. /\ BumpRevision(rows[e][o]).floor = rows[e][o].floor
          /\ BumpRevision(rows[e][o]).synced = rows[e][o].synced
      BY <1>a DEF BumpRevision, Row
    <2> QED BY <1>2, <1>4, <2>1, <2>2 DEF ContentStays
  <1>5. ASSUME NEW e \in Devices, NEW o \in Docs, ApplyEntry(e, o) \/ UndecryptableEntry(e, o)
        PROVE  Goal
    <2>1. CASE ApplyEntry(e, o)
      BY <2>1, <1>3, AppliedVersions DEF ApplyEntry
    <2>2. CASE UndecryptableEntry(e, o)
      BY <2>2, <1>1, <1>4 DEF UndecryptableEntry
    <2> QED BY <1>5, <2>1, <2>2
  <1>b. \A r \in Row : /\ MarkUnsynced(r).rev = r.rev /\ MarkUnsynced(r).floor = r.floor
                       /\ MarkUnsynced(r).synced = NoRev
    BY DEF MarkUnsynced, Row
  <1>6. ASSUME NEW e \in Devices, NEW o \in Docs, AnyResult(e, o)
        PROVE  Goal
    <2>1. rows[e][o] \in Row
      BY <1>a
    <2>2. CASE ResultOk(e, o)
      <3>1. batch[e][o].rev \in Rev /\ batch[e][o].rev.gen > 0
        BY <2>2, AppliedVersions DEF ResultOk
      <3> DEFINE q == Learned(rows[e][o], batch[e][o].rev)
      <3>2. q.rev = rows[e][o].rev
        BY <2>1 DEF Learned, Row
      <3>3. q.floor \in Nat /\ q.floor >= batch[e][o].rev.gen /\ batch[e][o].rev.gen \in Nat
        BY <2>1, <3>1, LearnedFloor DEF Rev
      <3>4. ContentStays(rows[e][o], q)
        BY <3>1, <3>2, <3>3 DEF ContentStays
      <3> QED BY <2>2, <3>4, <1>2 DEF ResultOk
    <2>3. CASE ResultConflict(e, o)
      BY <2>3, <1>3, AppliedVersions DEF ResultConflict
    <2>4. CASE ResultLost(e, o)
      BY <2>1, <2>4, <1>2, <1>b DEF ResultLost, ContentStays
    <2>5. CASE ResultBehind(e, o) \/ ResultNewer(e, o)
      BY <2>5, <1>1 DEF ResultBehind, ResultNewer
    <2>6. CASE ResultBroken(e, o)
      BY <2>6, <1>1, <1>4 DEF ResultBroken
    <2> QED BY <1>6, <2>2, <2>3, <2>4, <2>5, <2>6 DEF AnyResult
  <1>7. ASSUME NEW e \in Devices, MarkMissing(e)
        PROVE  Goal
    <2>1. rows'[d][doc] \in {rows[d][doc], MarkMissingRow(rows[d][doc])}
      BY <1>7 DEF MarkMissing, TypeOK, StoreTypeOK
    <2>2. rows'[d][doc] \in {rows[d][doc], MarkUnsynced(rows[d][doc])}
      BY <2>1 DEF MarkMissingRow
    <2> QED BY <2>2, <1>a, <1>b DEF SyncsRow, ContentStays
  <1>8. ASSUME NEW e \in Devices, SendPush(e)
        PROVE  Goal
    <2>1. rows'[d][doc] \in {rows[d][doc], MarkSent(rows[d][doc], batch[e][doc].rev)}
      BY <1>8 DEF SendPush, TypeOK, StoreTypeOK
    <2>2. LET q == MarkSent(rows[d][doc], batch[e][doc].rev)
          IN  q.rev = rows[d][doc].rev /\ q.floor = rows[d][doc].floor /\ q.synced = rows[d][doc].synced
      BY <1>a DEF MarkSent, Row
    <2> QED BY <2>1, <2>2 DEF SyncsRow, ContentStays
  <1>9. ASSUME NEW e \in Devices,
               \/ ReadLengths(e) \/ ReadRows(e) \/ AdoptEpoch(e) \/ RewindCursor(e) \/ MarkRemerging(e)
               \/ SaveCursor(e) \/ FinishRemerge(e) \/ PickPending(e) \/ ServerAnswers(e) \/ EndRound(e)
               \/ FinishSync(e) \/ Interrupt(e) \/ PageRefused(e) \/ RunLate(e)
        PROVE  Goal
    <2>1. rows' = rows
      BY <1>9 DEF ReadLengths, ReadRows, AdoptEpoch, RewindCursor, MarkRemerging, SaveCursor,
                  FinishRemerge, PickPending, ServerAnswers, EndRound, FinishSync, Interrupt,
                  PageRefused, ForgetRun, RunLate, DevicesUnchanged, storeVars
    <2> QED BY <1>1, <2>1
  <1>10. ASSUME AnyServerStep
         PROVE  Goal
    <2>1. rows' = rows
      BY <1>10 DEF AnyServerStep, TakeBackup, RestoreServer, RotateServerEpoch, DamageRow,
                   NewerAppWrites, DevicesUnchanged, storeVars
    <2> QED BY <1>1, <2>1
  <1>11. \A e \in Devices, o \in Docs : ~Write(e, o) /\ ~Delete(e, o) /\ ~BindAdd(e) /\ ~BindReplace(e)
    BY DEF SyncStep, Write, Delete, BindAdd, BindReplace, Bound, TypeOK, BoundsTypeOK
  <1>12. ASSUME NEW e \in Devices, Engine(e) \/ Interrupt(e) \/ RunLate(e)
         PROVE  Goal
    BY <1>5, <1>6, <1>7, <1>8, <1>9, <1>12 DEF Engine, AnyResult
  <1> QED BY <1>10, <1>11, <1>12 DEF Next, AnyServerStep

LEMMA NoRevert == TypeOK /\ GenerationsInv /\ [Next]_vars => [NoRevertStep]_vars
  <1> SUFFICES ASSUME TypeOK, GenerationsInv, Next, SyncStep, NEW d \in Devices, NEW doc \in Docs,
                      rows'[d][doc].rev.hash \in rows[d][doc].past,
                      rows'[d][doc].rev.hash # rows[d][doc].rev.hash
               PROVE  rows'[d][doc].rev.gen > rows[d][doc].floor
      BY DEF NoRevertStep
  <1>1. rows[d][doc] \in Row /\ RowInv(rows[d][doc])
    BY DEF TypeOK, StoreTypeOK, GenerationsInv, StoredInv
  <1>2. PICK v \in Version : rows'[d][doc] = ApplyRemote(Kind[doc], rows[d][doc], v).row
    BY RowSteps DEF SyncsRow, ContentStays, Applies
  <1> QED BY <1>1, <1>2, ApplyRemoteNeverReverts

\* No sync, re-merge or repair brings back a content of the row's own history
\* at or below the highest generation the device has seen on the account.
THEOREM NothingReplayed == Spec => ReplayNeverReverts
    BY TypeCorrect, GenerationsCorrect, NoRevert, PTL DEF Spec, ReplayNeverReverts

-----------------------------------------------------------------------------
(* What a sync keeps of the versions made here *)

\* A step of a sync keeps of every row what apply_remote owes it.
LEMMA RowKeeps ==
    ASSUME TypeOK, GenerationsInv, Next, SyncStep, NEW d \in Devices, NEW doc \in Docs, Exists(rows[d][doc])
    PROVE  LET r == rows[d][doc]
               q == rows'[d][doc]
           IN  Keeps(Kind[doc], r, q.rev.hash, q.past, doc \in report'[d])
  <1> DEFINE r == rows[d][doc]
             q == rows'[d][doc]
  <1>1. CASE ContentStays(r, q)
    BY <1>1, KeepsOwn DEF ContentStays
  <1>2. ASSUME NEW v \in Version, Applies(d, doc, v, r, q)
        PROVE  Keeps(Kind[doc], r, q.rev.hash, q.past, doc \in report'[d])
    <2> DEFINE o == ApplyRemote(Kind[doc], r, v)
    <2>1. r \in Row /\ Kind[doc] \in Kinds
      BY SyncAssumption DEF TypeOK, StoreTypeOK
    <2>2. Keeps(Kind[doc], r, o.row.rev.hash, o.row.past, o.told \in Conflicts)
      BY <2>1, <1>2, ApplyRemoteKeeps DEF Applies
    <2>3. o.told \in Conflicts => doc \in report'[d]
      BY <1>2 DEF Applies, Flagged, Conflicts
    <2>4. q = o.row
      BY <1>2 DEF Applies
    <2> HIDE DEF o, q, r
    <2> QED BY <2>2, <2>3, <2>4 DEF Keeps, PendingOutlives
  <1> QED BY <1>1, <1>2, RowSteps DEF SyncsRow

LEMMA PendingStep ==
    ASSUME TypeOK, GenerationsInv, Next, SyncStep, NEW d \in Devices, NEW doc \in Docs
    PROVE  PendingKept(d, doc)
  <1>1. CASE Exists(rows[d][doc])
    BY <1>1, RowKeeps DEF PendingKept, Keeps, PendingOutlives, MadeApartDaily, Live, Deleted
  <1>2. CASE ~Exists(rows[d][doc])
    BY <1>2 DEF PendingKept
  <1> QED BY <1>1, <1>2

LEMMA ReplacedStep ==
    ASSUME TypeOK, GenerationsInv, Next, SyncStep, NEW d \in Devices, NEW doc \in Docs
    PROVE  ReplacedStays(d, doc)
    BY RowKeeps DEF ReplacedStays, Keeps, ReplacedInPast, Live

\* Whatever a sync applies, and however often the server was restored, an edit
\* that waits to be pushed outlives deletions, is replaced in a flagged document
\* or by a text that holds it, and loses no fact.
THEOREM PendingSurvives == Spec => PendingEditsSurvive
  <1>1. TypeOK /\ GenerationsInv /\ [Next]_vars =>
          [SyncStep => \A d \in Devices, doc \in Docs : PendingKept(d, doc)]_vars
    BY PendingStep
  <1> QED BY <1>1, TypeCorrect, GenerationsCorrect, PTL DEF Spec, PendingEditsSurvive

\* Whatever live content a sync replaces, pending or not, the document's
\* history has it.
THEOREM ReplacedIsKept == Spec => [][SyncStep => \A d \in Devices, doc \in Docs : ReplacedStays(d, doc)]_vars
  <1>1. TypeOK /\ GenerationsInv /\ [Next]_vars =>
          [SyncStep => \A d \in Devices, doc \in Docs : ReplacedStays(d, doc)]_vars
    BY ReplacedStep
  <1> QED BY <1>1, TypeCorrect, GenerationsCorrect, PTL DEF Spec

-----------------------------------------------------------------------------
(* Daily notes made apart, in a library that was never another account's *)

\* A row that learned nothing of the account claims nothing of it.
ClaimsNothing == \A d \in Devices, doc \in Docs : rows[d][doc].floor = 0 => rows[d][doc].synced = NoRev

LEMMA ClaimsInit == Init => ClaimsNothing
    BY DEF Init, Each, NoRow, ClaimsNothing

LEMMA ClaimsStep ==
    ASSUME MaxBinds = 0, TypeOK, GenerationsInv, ClaimsNothing, [Next]_vars
    PROVE  ClaimsNothing'
  <1>a. \A e \in Devices, o \in Docs : rows[e][o] \in Row
    BY DEF TypeOK, StoreTypeOK
  <1>1. ASSUME rows' = rows
        PROVE  ClaimsNothing'
    BY <1>1 DEF ClaimsNothing
  <1>2. ASSUME NEW e \in Devices, NEW o \in Docs, Write(e, o) \/ Delete(e, o)
        PROVE  ClaimsNothing'
    <2>1. PICK q : /\ SetRow(e, o, q)
                   /\ q.floor = rows[e][o].floor /\ q.synced = rows[e][o].synced
      <3>1. \A content, edit, snapshots :
              LET q == EditRow(Kind[o], rows[e][o], content, edit, snapshots)
              IN  q.floor = rows[e][o].floor /\ q.synced = rows[e][o].synced
        BY <1>a DEF EditRow, Row
      <3>2. \A edit, ui :
              LET q == DeleteRow(Kind[o], rows[e][o], edit, ui)
              IN  q.floor = rows[e][o].floor /\ q.synced = rows[e][o].synced
        BY <1>a DEF DeleteRow, Row
      <3> QED BY <1>2, <3>1, <3>2 DEF Write, Delete
    <2>2. \A d \in Devices, doc \in Docs :
            rows'[d][doc] = IF d = e /\ doc = o THEN q ELSE rows[d][doc]
      BY <2>1, SetRowRows DEF TypeOK, StoreTypeOK
    <2> QED BY <2>1, <2>2 DEF ClaimsNothing
  <1>3. ASSUME Next, SyncStep
        PROVE  ClaimsNothing'
    <2> SUFFICES ASSUME NEW d \in Devices, NEW doc \in Docs, rows'[d][doc].floor = 0
                 PROVE  rows'[d][doc].synced = NoRev
        BY DEF ClaimsNothing
    <2> DEFINE r == rows[d][doc]
               q == rows'[d][doc]
    <2>1. CASE ContentStays(r, q)
      BY <2>1 DEF ContentStays, ClaimsNothing
    <2>2. ASSUME NEW v \in Version, Applies(d, doc, v, r, q)
          PROVE  q.synced = NoRev
      <3>1. (q.floor \in Nat /\ q.floor >= v.rev.gen) \/ (q = r /\ r.synced = v.rev)
        BY <1>a, <2>2, ApplyRemoteFloor DEF Applies
      <3>2. v.rev.gen > 0 /\ v.rev.gen \in Nat
        BY <2>2, VersionFields DEF Applies
      <3> QED BY <3>1, <3>2 DEF ClaimsNothing
    <2> QED BY <1>3, <2>1, <2>2, RowSteps DEF SyncsRow
  <1>4. \A e \in Devices : ~BindAdd(e) /\ ~BindReplace(e)
    BY DEF BindAdd, BindReplace, Bound, TypeOK, BoundsTypeOK
  <1>5. CASE AnyServerStep
    BY <1>1, <1>5 DEF AnyServerStep, TakeBackup, RestoreServer, RotateServerEpoch, DamageRow,
                      NewerAppWrites, DevicesUnchanged, storeVars
  <1>6. CASE Next /\ ~AnyServerStep /\ ~(\E e \in Devices, o \in Docs : Write(e, o) \/ Delete(e, o))
    <2>1. PICK e \in Devices : Engine(e) \/ Interrupt(e) \/ RunLate(e)
      BY <1>4, <1>6 DEF Next, AnyServerStep
    <2>2. edits' = edits /\ binds' = binds
      BY <2>1 DEF Engine, ReadLengths, ReadRows, PageRefused, AdoptEpoch, RewindCursor, MarkRemerging,
                  ApplyEntry, UndecryptableEntry, EntryDone, SaveCursor, MarkMissing, FinishRemerge,
                  PickPending, SendPush, ServerAnswers, ResultOk, ResultConflict, ResultLost,
                  ResultBehind, ResultBroken, ResultNewer, Processed, EndRound, FinishSync, Interrupt,
                  ForgetRun, RunLate, bounds, otherBounds
    <2> QED BY <1>3, <1>6, <2>2 DEF SyncStep
  <1>7. CASE UNCHANGED vars
    BY <1>1, <1>7 DEF vars, storeVars
  <1> QED BY <1>2, <1>5, <1>6, <1>7

\* Two daily notes made apart become one with the lines of both, in whatever
\* order the two reached the account and whichever device writes next.  A
\* library of another account may still hold a tombstone of its own, which an
\* edit brings to life as an older version (reset_sync): so not there.
THEOREM DailyNotesMerge ==
    ASSUME MaxBinds = 0
    PROVE  Spec => DailyNotesAreMerged
  <1>1. Init => ClaimsNothing
    BY ClaimsInit
  <1>2. TypeOK /\ GenerationsInv /\ ClaimsNothing /\ [Next]_vars => ClaimsNothing'
    BY ClaimsStep
  <1>3. TypeOK /\ GenerationsInv /\ ClaimsNothing /\ [Next]_vars =>
          [SyncStep =>
             \A d \in Devices, doc \in Docs :
               LET r == rows[d][doc]
                   q == rows'[d][doc]
               IN  Kind[doc] = "daily" /\ Live(r) /\ r.floor = 0 /\ Live(q) =>
                     r.rev.hash.body \subseteq q.rev.hash.body]_vars
    <2> SUFFICES ASSUME TypeOK, GenerationsInv, ClaimsNothing, Next, SyncStep,
                        NEW d \in Devices, NEW doc \in Docs,
                        Kind[doc] = "daily", Live(rows[d][doc]), rows[d][doc].floor = 0,
                        Live(rows'[d][doc])
                 PROVE  rows[d][doc].rev.hash.body \subseteq rows'[d][doc].rev.hash.body
        OBVIOUS
    <2> QED BY RowKeeps DEF ClaimsNothing, Keeps, LinesMerged, Live, Deleted
  <1> QED BY <1>1, <1>2, <1>3, TypeCorrect, GenerationsCorrect, PTL DEF Spec, DailyNotesAreMerged
=============================================================================
