--------------------------- MODULE AccountFeed_proofs ---------------------------
(***************************************************************************)
(* What a device knows of the account's feed: CaughtUpAgrees, and          *)
(* SyncedIsOnServer where nothing is both damaged and restored, for any    *)
(* number of devices and documents.                                        *)
(***************************************************************************)
EXTENDS AccountSync_proofs

-----------------------------------------------------------------------------
(* The inductive invariant *)

\* Whom the claims are about: a device that has the account's epoch saved,
\* and one that re-merges under it.
Follows(d) == saved[d] = epoch /\ ~rotationDue
Remerges(d) == remerging[d] /\ Trusts(d)

\* The server numbers its rows, each with its own number up to last_seq.
FeedOK(feed, count) ==
    /\ \A doc \in Docs : feed[doc].seq <= count /\ (feed[doc].seq = 0 => feed[doc] = NoServerRow)
    /\ \A doc, other \in Docs : feed[doc].seq = feed[other].seq /\ feed[doc].seq > 0 => doc = other

ServerOK ==
    /\ FeedOK(srv, lastSeq) /\ FeedOK(backup.srv, backup.lastSeq)
    /\ MaxDamage = 0 => \A doc \in Docs : srv[doc].form = "sealed" /\ backup.srv[doc].form = "sealed"
    /\ MaxRestores = 0 => ~rotationDue

\* Where a sync is, and what it has saved by then.
FirstPage == {"adopt", "rewind", "rewindThis", "mark", "markThis"}
Pushing == {"send", "wait", "results"}

RunOK(d) ==
    /\ saved[d] <= epoch /\ runEpoch[d] <= epoch
    /\ saved[d] = NoEpoch => /\ pc[d] \in {"idle", "rows", "adopt"} /\ cursor[d] = 0
                             /\ \A doc \in Docs : rows[d][doc].floor = 0
    /\ runEpoch[d] = NoEpoch => pc[d] \in {"idle", "rows"} /\ ~remerging[d]
    /\ pc[d] = "idle" => runEpoch[d] = NoEpoch
    /\ pc[d] \in FirstPage => ~remerging[d]
    /\ pc[d] = "adopt" => saved[d] = NoEpoch
    /\ pc[d] \in {"rewindThis", "mark", "markThis"} => cursor[d] = 0
    /\ pc[d] \in {"missing", "adoptLast"} => remerging[d]
    /\ runEpoch[d] # NoEpoch /\ pc[d] \notin FirstPage =>
         saved[d] = IF remerging[d] THEN Remerging ELSE runEpoch[d]

\* What never happens to an account that is not damaged, or not restored.
BoundsOK(d) ==
    /\ MaxDamage = 0 => \A doc \in Docs : page[d][doc].form = "sealed"
    /\ MaxRestores = 0 => /\ ~remerging[d] /\ {saved[d], runEpoch[d]} \subseteq {NoEpoch, epoch}
                          /\ pc[d] \notin FirstPage \ {"adopt"}

\* Up to its cursor a device has every version of the feed, or pushes the
\* document again as one the account lacks; a damaged row it may have passed.
Settled(d, doc) ==
    \/ srv[doc].form = "broken"
    \/ rows[d][doc].synced = srv[doc].rev
    \/ Exists(rows[d][doc]) /\ rows[d][doc].synced = NoRev

CursorOK(d) ==
    Follows(d) \/ Remerges(d) =>
      /\ cursor[d] <= lastSeq
      /\ \A doc \in Docs : 0 < srv[doc].seq /\ srv[doc].seq <= cursor[d] => Settled(d, doc)

\* The page a device applies was read in two transactions, and rows were
\* pushed since: a document is before the page, in it as it was read, or has
\* a number above all of the page's.
PageSteps == {"entries", "adopt", "rewindThis", "markThis"}

InPage(d, doc) == page[d][doc] # NoServerRow

StillAsRead(d, doc) ==
    /\ page[d][doc].rev = srv[doc].rev /\ page[d][doc].seq = srv[doc].seq
    /\ page[d][doc].form = "broken" => srv[doc].form = "broken"

RowsOfPage(d) ==
    \A doc \in Docs : InPage(d, doc) =>
      /\ last[d] < page[d][doc].seq /\ page[d][doc].seq <= lastSeq
      /\ Upto(page[d][doc].rev, srv[doc].rev)
      /\ \A other \in Docs : page[d][other].seq = page[d][doc].seq => other = doc

Placed(d, doc) ==
    \/ ~InPage(d, doc) /\ srv[doc].seq <= last[d] /\ (srv[doc].seq > 0 => Settled(d, doc))
    \/ InPage(d, doc) /\ StillAsRead(d, doc)
    \/ last[d] < srv[doc].seq /\ \A other \in Docs : page[d][other].seq < srv[doc].seq

PageOK(d) ==
    pc[d] \in PageSteps /\ Trusts(d) =>
      /\ cursor[d] <= last[d] /\ last[d] <= lastSeq
      /\ RowsOfPage(d)
      /\ \A doc \in Docs : Placed(d, doc)

\* A push's results speak of the server's row, or of one already replaced by a
\* row the device has yet to pull.
ReadOfServer(d, doc, rev) ==
    /\ rev = srv[doc].rev \/ cursor[d] < srv[doc].seq
    /\ Upto(rev, srv[doc].rev)

ResultsOK(d) ==
    \A doc \in Docs :
      /\ pc[d] \in Pushing /\ batch[d][doc] # NoPush => Exists(rows[d][doc])
      /\ answer[d][doc].status # "none" => batch[d][doc] # NoPush
      /\ pc[d] = "results" /\ Trusts(d) =>
           /\ answer[d][doc].status = "conflict" => ReadOfServer(d, doc, answer[d][doc].row.rev)
           /\ answer[d][doc].status = "ok" => ReadOfServer(d, doc, batch[d][doc].rev)

\* The base of a device's next push is a version the server has, or had and
\* replaced.  In a re-merge this is known of the documents the feed has shown,
\* and after its last page of all; a damaged row that a restore put back is
\* passed over, and only that the account has the document is known.
Believes(base, rev) ==
    IF MaxRestores = 0 \/ MaxDamage = 0 THEN Upto(base, rev) ELSE rev = NoRev => base = NoRev

Claims(d, doc) ==
    Follows(d) \/ (Remerges(d) /\ (doc \in present[d] \/ pc[d] = "adoptLast"))

BaseOK(d) ==
    \A doc \in Docs :
      /\ RowBase(rows[d][doc])
      /\ Claims(d, doc) => Believes(PushBase(rows[d][doc]), srv[doc].rev)

DeviceOK(d) ==
    RunOK(d) /\ BoundsOK(d) /\ CursorOK(d) /\ PageOK(d) /\ ResultsOK(d) /\ BaseOK(d)

FeedInv == ServerOK /\ \A d \in Devices : DeviceOK(d)

-----------------------------------------------------------------------------
(* Revisions *)

LEMMA UptoTypes ==
    ASSUME NEW a \in Rev, NEW b \in Rev
    PROVE  /\ a.gen \in Nat /\ b.gen \in Nat
           /\ Upto(a, b) /\ a.gen > 0 => b # NoRev
           /\ Upto(a, NoRev) => a = NoRev
    BY NoRevType DEF Upto, Rev

\* The server has a document when its generation is above 0.
LEMMA ServerRevs ==
    ASSUME TypeOK, GenerationsInv, NEW doc \in Docs
    PROVE  /\ srv[doc] \in ServerRow /\ srv[doc].rev \in Rev /\ srv[doc].rev.gen \in Nat
           /\ srv[doc].seq \in Nat
           /\ srv[doc].rev = NoRev \/ srv[doc].rev.gen > 0
  <1>1. srv[doc] \in ServerRow /\ ServerRowInv(srv[doc])
    BY DEF TypeOK, ServerTypeOK, GenerationsInv, StoredInv
  <1>2. srv[doc].rev \in Rev /\ srv[doc].rev.gen \in Nat /\ srv[doc].seq \in Nat
    BY <1>1 DEF ServerRow, Rev
  <1> QED BY <1>1, <1>2, NoServerRowRev DEF ServerRowInv

\* No base is believed of any document; so is a base up to the server's.
LEMMA BelievesNoRev ==
    ASSUME NEW rev \in Rev, rev = NoRev \/ rev.gen > 0
    PROVE  Believes(NoRev, rev)
    BY NoRevType DEF Believes, Upto

LEMMA BelievesUpto ==
    ASSUME NEW base \in Rev, NEW rev \in Rev, Upto(base, rev)
    PROVE  Believes(base, rev)
    BY UptoTypes DEF Believes

LEMMA PushBaseType ==
    ASSUME NEW r \in Row
    PROVE  PushBase(r) \in Rev /\ PushBase(r) \in {NoRev, r.synced}
    BY RowFields, NoRevType DEF PushBase

-----------------------------------------------------------------------------
(* How the rest of the account changes under a device *)

\* The server's rows stay, are damaged, or get a new number and a higher
\* generation.
ServerMoves ==
    /\ epoch' = epoch /\ rotationDue' = rotationDue
    /\ lastSeq <= lastSeq'
    /\ \A doc \in Docs :
         \/ /\ srv'[doc].rev = srv[doc].rev /\ srv'[doc].seq = srv[doc].seq
            /\ srv'[doc].form \in {srv[doc].form, "broken"}
         \/ lastSeq < srv'[doc].seq /\ srv[doc].rev.gen < srv'[doc].rev.gen

\* A local write, a push's mark, a repair: the base stays or is given up.
Loosens(r, q) ==
    /\ q.floor = r.floor
    /\ Exists(r) => Exists(q)
    /\ q.synced = r.synced \/ (Exists(q) /\ q.synced = NoRev)

RowsLoosen(d) == \A doc \in Docs : Loosens(rows[d][doc], rows'[d][doc])

LEMMA ServerStays ==
    ASSUME TypeOK, UNCHANGED <<srv, lastSeq, epoch, rotationDue>>
    PROVE  ServerMoves
  <1>1. lastSeq \in Nat
    BY DEF TypeOK, ServerTypeOK
  <1> QED BY <1>1 DEF ServerMoves

LEMMA RowsStay ==
    ASSUME NEW d \in Devices, rows'[d] = rows[d]
    PROVE  RowsLoosen(d)
    BY DEF RowsLoosen, Loosens

LEMMA SettledKept ==
    ASSUME NEW d \in Devices, NEW doc \in Docs, Settled(d, doc),
           srv'[doc].rev = srv[doc].rev, srv'[doc].form \in {srv[doc].form, "broken"},
           Loosens(rows[d][doc], rows'[d][doc])
    PROVE  Settled(d, doc)'
    BY DEF Settled, Loosens

LEMMA UptoKept ==
    ASSUME TypeOK, TypeOK', ServerMoves, NEW doc \in Docs, NEW rev \in Rev, Upto(rev, srv[doc].rev)
    PROVE  Upto(rev, srv'[doc].rev)
  <1>1. srv[doc].rev \in Rev /\ srv'[doc].rev \in Rev
    BY DEF TypeOK, ServerTypeOK, ServerRow
  <1> QED BY <1>1, UptoHigher DEF ServerMoves

LEMMA CursorKept ==
    ASSUME TypeOK, TypeOK', NEW d \in Devices, CursorOK(d), ServerMoves, RowsLoosen(d),
           cursor'[d] = cursor[d], Follows(d)' \/ Remerges(d)' => Follows(d) \/ Remerges(d)
    PROVE  CursorOK(d)'
  <1> SUFFICES ASSUME Follows(d)' \/ Remerges(d)'
               PROVE  /\ cursor'[d] <= lastSeq'
                      /\ \A doc \in Docs : 0 < srv'[doc].seq /\ srv'[doc].seq <= cursor'[d] => Settled(d, doc)'
      BY DEF CursorOK
  <1>1. cursor[d] <= lastSeq /\ \A doc \in Docs : 0 < srv[doc].seq /\ srv[doc].seq <= cursor[d] => Settled(d, doc)
    BY DEF CursorOK
  <1>2. cursor[d] \in Nat /\ lastSeq \in Nat /\ lastSeq' \in Nat /\ lastSeq <= lastSeq'
    BY DEF TypeOK, ServerTypeOK, StoreTypeOK, ServerMoves
  <1>3. ASSUME NEW doc \in Docs, 0 < srv'[doc].seq, srv'[doc].seq <= cursor[d]
        PROVE  Settled(d, doc)'
    <2>1. srv'[doc].seq \in Nat
      BY DEF TypeOK, ServerTypeOK, ServerRow
    <2>2. ~(lastSeq < srv'[doc].seq)
      BY <1>1, <1>2, <1>3, <2>1
    <2>3. /\ srv'[doc].rev = srv[doc].rev /\ srv'[doc].seq = srv[doc].seq
          /\ srv'[doc].form \in {srv[doc].form, "broken"}
      BY <2>2 DEF ServerMoves
    <2> QED BY <1>1, <1>3, <2>3, SettledKept DEF RowsLoosen
  <1> QED BY <1>1, <1>2, <1>3

LEMMA PageKept ==
    ASSUME TypeOK, TypeOK', NEW d \in Devices, PageOK(d), ServerMoves, RowsLoosen(d),
           UNCHANGED <<page[d], last[d]>>, cursor'[d] <= last[d] \/ cursor'[d] = cursor[d],
           pc'[d] \in PageSteps /\ Trusts(d)' => pc[d] \in PageSteps /\ Trusts(d)
    PROVE  PageOK(d)'
  <1> SUFFICES ASSUME pc'[d] \in PageSteps /\ Trusts(d)'
               PROVE  /\ cursor'[d] <= last'[d] /\ last'[d] <= lastSeq'
                      /\ RowsOfPage(d)'
                      /\ \A doc \in Docs : Placed(d, doc)'
      BY DEF PageOK
  <1>1. /\ cursor[d] <= last[d] /\ last[d] <= lastSeq
        /\ RowsOfPage(d)
        /\ \A doc \in Docs : Placed(d, doc)
    BY DEF PageOK
  <1>2. last[d] \in Nat /\ lastSeq \in Nat /\ lastSeq' \in Nat /\ lastSeq <= lastSeq'
    BY DEF TypeOK, ServerTypeOK, PullTypeOK, ServerMoves
  <1>3. \A doc \in Docs : page[d][doc].seq \in Nat /\ page[d][doc].rev \in Rev
    BY DEF TypeOK, PullTypeOK, ServerRow
  <1>4. cursor'[d] <= last'[d] /\ last'[d] <= lastSeq'
    BY <1>1, <1>2
  <1>5. RowsOfPage(d)'
    <2> SUFFICES ASSUME NEW doc \in Docs, InPage(d, doc)'
                 PROVE  /\ last[d] < page[d][doc].seq /\ page[d][doc].seq <= lastSeq'
                        /\ Upto(page[d][doc].rev, srv'[doc].rev)
                        /\ \A other \in Docs : page[d][other].seq = page[d][doc].seq => other = doc
        BY DEF RowsOfPage
    <2>1. InPage(d, doc)
      BY DEF InPage
    <2> QED BY <1>1, <1>2, <1>3, <2>1, UptoKept DEF RowsOfPage
  <1>6. ASSUME NEW doc \in Docs
        PROVE  Placed(d, doc)'
    <2>1. CASE /\ srv'[doc].rev = srv[doc].rev /\ srv'[doc].seq = srv[doc].seq
               /\ srv'[doc].form \in {srv[doc].form, "broken"}
      <3>1. Placed(d, doc)
        BY <1>1
      <3>2. Settled(d, doc) => Settled(d, doc)'
        BY <2>1, SettledKept DEF RowsLoosen
      <3> QED BY <2>1, <3>1, <3>2 DEF Placed, InPage, StillAsRead
    <2>2. CASE lastSeq < srv'[doc].seq
      <3>1. srv'[doc].seq \in Nat
        BY DEF TypeOK, ServerTypeOK, ServerRow
      <3>2. ASSUME NEW other \in Docs
            PROVE  page[d][other].seq < srv'[doc].seq
        <4>1. page[d][other] = NoServerRow => page[d][other].seq = 0
          BY DEF NoServerRow
        <4>2. page[d][other].seq <= lastSeq
          BY <1>1, <1>2, <4>1 DEF RowsOfPage, InPage
        <4> QED BY <1>2, <1>3, <2>2, <3>1, <4>2
      <3>3. last[d] < srv'[doc].seq
        BY <1>1, <1>2, <2>2, <3>1
      <3> QED BY <3>2, <3>3 DEF Placed
    <2> QED BY <2>1, <2>2 DEF ServerMoves
  <1> QED BY <1>4, <1>5, <1>6

\* A device that pushes and trusts the account's epoch follows it, or re-merges.
LEMMA TrustsFollows ==
    ASSUME NEW d \in Devices, RunOK(d), TypeOK
    PROVE  /\ Trusts(d) /\ pc[d] \notin FirstPage => Follows(d) \/ Remerges(d)
           /\ (Follows(d) \/ Remerges(d)) /\ pc[d] \notin FirstPage \cup {"idle", "rows"} => Trusts(d)
           /\ Follows(d) => ~Remerges(d)
  <1>1. epoch \in Nat \ {0} /\ runEpoch[d] \in Nat /\ Remerging # epoch /\ NoEpoch # epoch
    BY DEF TypeOK, ServerTypeOK, PullTypeOK, Remerging, NoEpoch
  <1> QED BY <1>1 DEF RunOK, Trusts, Follows, Remerges

LEMMA ResultsKept ==
    ASSUME TypeOK, TypeOK', NEW d \in Devices, RunOK(d), CursorOK(d), ResultsOK(d), ServerMoves,
           \A doc \in Docs : Exists(rows[d][doc]) => Exists(rows'[d][doc]),
           UNCHANGED <<cursor[d], batch[d], runEpoch[d]>>,
           \A doc \in Docs : answer'[d][doc] \in {answer[d][doc], NoAnswer},
           pc'[d] \in Pushing => pc[d] \in Pushing, pc'[d] = "results" => pc[d] = "results"
    PROVE  ResultsOK(d)'
  <1> SUFFICES ASSUME NEW doc \in Docs
               PROVE  /\ pc'[d] \in Pushing /\ batch[d][doc] # NoPush => Exists(rows'[d][doc])
                      /\ answer'[d][doc].status # "none" => batch[d][doc] # NoPush
                      /\ pc'[d] = "results" /\ Trusts(d)' =>
                           /\ answer'[d][doc].status = "conflict" =>
                                ReadOfServer(d, doc, answer[d][doc].row.rev)'
                           /\ answer'[d][doc].status = "ok" => ReadOfServer(d, doc, batch[d][doc].rev)'
      BY DEF ResultsOK
  <1>1. /\ pc[d] \in Pushing /\ batch[d][doc] # NoPush => Exists(rows[d][doc])
        /\ answer[d][doc].status # "none" => batch[d][doc] # NoPush
        /\ pc[d] = "results" /\ Trusts(d) =>
             /\ answer[d][doc].status = "conflict" => ReadOfServer(d, doc, answer[d][doc].row.rev)
             /\ answer[d][doc].status = "ok" => ReadOfServer(d, doc, batch[d][doc].rev)
    BY DEF ResultsOK
  <1>2. CASE answer'[d][doc].status = "none"
    BY <1>1, <1>2
  <1>3. CASE answer'[d][doc].status # "none"
    <2>1. answer'[d][doc] = answer[d][doc]
      BY <1>3 DEF NoAnswer
    <2>2. Trusts(d)' => Trusts(d)
      BY DEF Trusts, ServerMoves
    <2>3. ASSUME pc[d] = "results", Trusts(d), NEW rev \in Rev, ReadOfServer(d, doc, rev)
          PROVE  (rev = srv'[doc].rev \/ cursor'[d] < srv'[doc].seq) /\ Upto(rev, srv'[doc].rev)
      <3>1. Upto(rev, srv'[doc].rev)
        BY <2>3, UptoKept DEF ReadOfServer
      <3>2. cursor[d] <= lastSeq
        BY <2>3, TrustsFollows DEF CursorOK, FirstPage
      <3>3. cursor[d] \in Nat /\ lastSeq \in Nat /\ srv[doc].seq \in Nat /\ srv'[doc].seq \in Nat
        BY DEF TypeOK, ServerTypeOK, ServerRow, StoreTypeOK
      <3>4. rev = srv'[doc].rev \/ cursor[d] < srv'[doc].seq
        BY <2>3, <3>2, <3>3 DEF ServerMoves, ReadOfServer
      <3> QED BY <3>1, <3>4
    <2>4. answer[d][doc].row.rev \in Rev /\ batch[d][doc].rev \in Rev
      BY DEF TypeOK, PushTypeOK, Answer, ServerRow, Push
    <2> QED BY <1>1, <2>1, <2>2, <2>3, <2>4 DEF ReadOfServer
  <1> QED BY <1>2, <1>3

LEMMA RowBaseKept ==
    ASSUME NEW r \in Row, NEW q \in Row, Loosens(r, q), RowBase(r)
    PROVE  RowBase(q) /\ PushBase(q) \in {PushBase(r), NoRev}
    BY DEF Loosens, RowBase, PushBase

LEMMA BelievesKept ==
    ASSUME TypeOK, TypeOK', GenerationsInv', ServerMoves, NEW doc \in Docs, NEW base \in Rev,
           Believes(base, srv[doc].rev)
    PROVE  Believes(base, srv'[doc].rev)
  <1>1. srv[doc].rev \in Rev /\ srv'[doc].rev \in Rev
    BY DEF TypeOK, ServerTypeOK, ServerRow
  <1>2. srv'[doc].rev = srv[doc].rev \/ srv[doc].rev.gen < srv'[doc].rev.gen
    BY DEF ServerMoves
  <1>3. srv'[doc].rev = NoRev => srv[doc].rev = NoRev
    BY <1>1, <1>2, NoRevType DEF Rev
  <1>4. Upto(base, srv[doc].rev) => Upto(base, srv'[doc].rev)
    BY UptoKept
  <1> QED BY <1>3, <1>4 DEF Believes

LEMMA BaseKept ==
    ASSUME TypeOK, TypeOK', GenerationsInv', NEW d \in Devices, BaseOK(d), ServerMoves, RowsLoosen(d),
           \A doc \in Docs : Claims(d, doc)' => Claims(d, doc)
    PROVE  BaseOK(d)'
  <1> SUFFICES ASSUME NEW doc \in Docs
               PROVE  /\ RowBase(rows'[d][doc])
                      /\ Claims(d, doc)' => Believes(PushBase(rows'[d][doc]), srv'[doc].rev)
      BY DEF BaseOK
  <1>1. rows[d][doc] \in Row /\ rows'[d][doc] \in Row
    BY DEF TypeOK, StoreTypeOK
  <1>2. RowBase(rows'[d][doc]) /\ PushBase(rows'[d][doc]) \in {PushBase(rows[d][doc]), NoRev}
    BY <1>1, RowBaseKept DEF BaseOK, RowsLoosen
  <1>3. Believes(PushBase(rows[d][doc]), srv[doc].rev) => Believes(PushBase(rows[d][doc]), srv'[doc].rev)
    BY <1>1, PushBaseType, BelievesKept
  <1>4. Believes(NoRev, srv'[doc].rev)
    <2>1. srv'[doc] \in ServerRow /\ ServerRowInv(srv'[doc])
      BY DEF TypeOK, ServerTypeOK, GenerationsInv, StoredInv
    <2>2. srv'[doc].rev \in Rev /\ (srv'[doc].rev = NoRev \/ srv'[doc].rev.gen > 0)
      BY <2>1, NoServerRowRev DEF ServerRow, ServerRowInv
    <2> QED BY <2>2, BelievesNoRev
  <1> QED BY <1>2, <1>3, <1>4 DEF BaseOK

-----------------------------------------------------------------------------
(* A device that does nothing itself *)

OwnStay(d) ==
    UNCHANGED <<rows[d], cursor[d], saved[d], pc[d], page[d], last[d], runEpoch[d], remerging[d],
                present[d], batch[d], answer[d]>>

LEMMA DeviceKept ==
    ASSUME TypeOK, TypeOK', GenerationsInv', NEW d \in Devices, DeviceOK(d), ServerMoves, OwnStay(d)
    PROVE  DeviceOK(d)'
  <1>1. epoch' = epoch /\ rotationDue' = rotationDue
    BY DEF ServerMoves
  <1>2. RowsLoosen(d)
    BY RowsStay DEF OwnStay
  <1>3. RunOK(d)'
    BY <1>1 DEF DeviceOK, RunOK, OwnStay
  <1>4. BoundsOK(d)'
    BY <1>1 DEF DeviceOK, BoundsOK, OwnStay
  <1>5. (Trusts(d)' <=> Trusts(d)) /\ (Follows(d)' <=> Follows(d)) /\ (Remerges(d)' <=> Remerges(d))
    BY <1>1 DEF OwnStay, Trusts, Follows, Remerges
  <1>6. CursorOK(d)'
    BY <1>2, <1>5, CursorKept DEF DeviceOK, OwnStay
  <1>7. PageOK(d)'
    BY <1>2, <1>5, PageKept DEF DeviceOK, OwnStay
  <1>8. ResultsOK(d)'
    BY ResultsKept DEF DeviceOK, OwnStay
  <1>9. BaseOK(d)'
    <2>1. \A doc \in Docs : Claims(d, doc)' => Claims(d, doc)
      BY <1>5 DEF OwnStay, Claims
    <2> QED BY <1>2, <2>1, BaseKept DEF DeviceOK
  <1> QED BY <1>3, <1>4, <1>6, <1>7, <1>8, <1>9 DEF DeviceOK

\* A restore ends every claim, and so does the rotation that follows it.
LEMMA DeviceForgets ==
    ASSUME TypeOK, TypeOK', NEW d \in Devices, DeviceOK(d), OwnStay(d),
           MaxRestores # 0, epoch' >= epoch, rotationDue' \/ epoch' > epoch
    PROVE  DeviceOK(d)'
  <1>1. /\ epoch \in Nat /\ epoch' \in Nat /\ runEpoch[d] \in Nat
        /\ saved[d] \in Nat \cup {Remerging} /\ Remerging \in Int
    BY DEF TypeOK, ServerTypeOK, StoreTypeOK, PullTypeOK, Remerging
  <1>2. RunOK(d)'
    BY <1>1 DEF DeviceOK, RunOK, OwnStay
  <1>3. BoundsOK(d)'
    BY DEF DeviceOK, BoundsOK, OwnStay
  <1>4. ~Trusts(d)' /\ ~Follows(d)' /\ ~Remerges(d)'
    BY <1>1 DEF DeviceOK, RunOK, OwnStay, Trusts, Follows, Remerges
  <1>5. CursorOK(d)' /\ PageOK(d)'
    BY <1>4 DEF CursorOK, PageOK
  <1>6. ResultsOK(d)'
    BY <1>4 DEF DeviceOK, ResultsOK, OwnStay
  <1>7. BaseOK(d)'
    BY <1>4 DEF DeviceOK, BaseOK, Claims, OwnStay
  <1> QED BY <1>2, <1>3, <1>5, <1>6, <1>7 DEF DeviceOK

-----------------------------------------------------------------------------
(* The server *)

\* A push accepted numbers its documents after every number of the account.
LEMMA AcceptPushMoves ==
    ASSUME TypeOK, GenerationsInv, ServerOK, NEW push \in [Docs -> Push], NEW author \in Devices,
           \A doc \in Docs : PushInv(push[doc]), AcceptPush(push, author)
    PROVE  /\ ServerMoves /\ ServerOK'
           /\ \A doc \in Docs : srv'[doc] = srv[doc] \/ (doc \in Accepts(push) /\ srv'[doc].rev = push[doc].rev)
           /\ \A doc \in Accepts(push) : srv'[doc].rev = push[doc].rev
  <1> DEFINE accepted == Accepts(push)
             count == Cardinality(accepted)
  <1>1. accepted \subseteq Docs /\ count \in Nat
    <2>1. accepted \subseteq Docs /\ IsFiniteSet(accepted)
      BY DocsAssumption, FS_Subset DEF Accepts, Pushed
    <2> QED BY <2>1, FS_CardinalityType
  <1>2. lastSeq \in Nat
    BY DEF TypeOK, ServerTypeOK
  <1>3. PICK order \in [accepted -> 1..count] :
          /\ \A a, b \in accepted : order[a] = order[b] => a = b
          /\ srv' = [doc \in Docs |->
                       IF doc \in accepted
                         THEN [rev  |-> push[doc].rev, seq |-> lastSeq + order[doc],
                               form |-> "sealed", by |-> author, seen |-> push[doc].seen]
                         ELSE srv[doc]]
    BY DEF AcceptPush, Orders
  <1>4. lastSeq' = lastSeq + count /\ UNCHANGED <<epoch, rotationDue, backup>>
    BY DEF AcceptPush
  <1>5. \A doc \in Docs \ accepted : srv'[doc] = srv[doc]
    BY <1>3
  <1>6. ASSUME NEW doc \in accepted
        PROVE  /\ srv'[doc].rev = push[doc].rev /\ srv'[doc].seq = lastSeq + order[doc]
               /\ srv'[doc].form = "sealed"
    BY <1>1, <1>3
  <1>7. ASSUME NEW doc \in accepted
        PROVE  order[doc] \in Nat \ {0} /\ order[doc] <= count /\ srv[doc].rev.gen < push[doc].rev.gen
    <2>1. order[doc] \in 1..count
      BY <1>3
    <2>2. push[doc].rev.gen > push[doc].base.gen /\ push[doc].base = srv[doc].rev
      BY <1>1 DEF Accepts, Pushed, PushInv
    <2>3. push[doc].rev.gen \in Nat /\ push[doc].base.gen \in Nat
      BY <1>1 DEF Push, Rev
    <2> QED BY <1>1, <2>1, <2>2, <2>3
  <1> HIDE DEF accepted, count
  <1>8. ServerMoves
    <2>1. ASSUME NEW doc \in accepted
          PROVE  lastSeq < srv'[doc].seq /\ srv[doc].rev.gen < srv'[doc].rev.gen
      BY <1>2, <1>6, <1>7
    <2>2. lastSeq <= lastSeq'
      BY <1>1, <1>2, <1>4
    <2> QED BY <1>4, <1>5, <2>1, <2>2 DEF ServerMoves
  <1>9. ServerOK'
    <2>1. FeedOK(srv, lastSeq) /\ FeedOK(backup.srv, backup.lastSeq)
      BY DEF ServerOK
    <2>2. \A doc \in Docs : srv[doc].seq \in Nat /\ srv[doc].seq <= lastSeq
      BY <2>1 DEF FeedOK, TypeOK, ServerTypeOK, ServerRow
    <2>3. \A doc \in Docs : srv'[doc].seq = IF doc \in accepted THEN lastSeq + order[doc] ELSE srv[doc].seq
      BY <1>5, <1>6
    <2>4. ASSUME NEW doc \in Docs
          PROVE  srv'[doc].seq <= lastSeq' /\ (srv'[doc].seq = 0 => srv'[doc] = NoServerRow)
      <3>1. CASE doc \in accepted
        BY <1>1, <1>2, <1>4, <1>7, <2>3, <3>1
      <3>2. CASE doc \notin accepted
        BY <1>1, <1>2, <1>4, <1>5, <2>1, <2>2, <3>2 DEF FeedOK
      <3> QED BY <3>1, <3>2
    <2>5. ASSUME NEW doc \in Docs, NEW other \in Docs, srv'[doc].seq = srv'[other].seq, srv'[doc].seq > 0
          PROVE  doc = other
      <3>1. CASE doc \in accepted /\ other \in accepted
        <4>1. lastSeq + order[doc] = lastSeq + order[other]
          BY <2>3, <2>5, <3>1
        <4>2. order[doc] \in Nat /\ order[other] \in Nat
          BY <1>7, <3>1
        <4>3. order[doc] = order[other]
          BY <1>2, <4>1, <4>2
        <4> QED BY <1>3, <3>1, <4>3
      <3>2. CASE doc \in accepted /\ other \notin accepted
        BY <1>2, <1>7, <2>2, <2>3, <2>5, <3>2
      <3>3. CASE doc \notin accepted /\ other \in accepted
        BY <1>2, <1>7, <2>2, <2>3, <2>5, <3>3
      <3>4. CASE doc \notin accepted /\ other \notin accepted
        BY <2>1, <2>3, <2>5, <3>4 DEF FeedOK
      <3> QED BY <3>1, <3>2, <3>3, <3>4
    <2>6. FeedOK(srv', lastSeq')
      BY <2>4, <2>5 DEF FeedOK
    <2>7. \A doc \in Docs : srv'[doc].form \in {srv[doc].form, "sealed"}
      BY <1>5, <1>6
    <2>8. FeedOK(srv, lastSeq)' /\ FeedOK(backup.srv, backup.lastSeq)'
      BY <1>4, <2>1, <2>6 DEF FeedOK
    <2> QED BY <1>4, <2>7, <2>8 DEF ServerOK
  <1> QED BY <1>5, <1>6, <1>8, <1>9 DEF accepted

\* What happens to the account apart from its devices.
LEMMA OwnStays ==
    ASSUME NEW d \in Devices, DevicesUnchanged
    PROVE  OwnStay(d)
    BY DEF DevicesUnchanged, OwnStay, storeVars, pageVars, runVars, pushVars

LEMMA ServerKept ==
    ASSUME ServerOK, UNCHANGED <<srv, lastSeq, epoch, rotationDue, backup>>
    PROVE  ServerOK'
    BY DEF ServerOK, FeedOK

LEMMA FeedMoves ==
    ASSUME TypeOK, TypeOK', GenerationsInv', FeedInv, ServerMoves, ServerOK', DevicesUnchanged
    PROVE  FeedInv'
    BY OwnStays, DeviceKept DEF FeedInv

LEMMA FeedBackup ==
    ASSUME TypeOK, TypeOK', GenerationsInv', FeedInv, TakeBackup
    PROVE  FeedInv'
  <1>1. /\ backup' = [srv |-> srv, lastSeq |-> lastSeq] /\ DevicesUnchanged
        /\ UNCHANGED <<srv, lastSeq, epoch, rotationDue>>
    BY DEF TakeBackup, Backup
  <1>2. backup'.srv = srv /\ backup'.lastSeq = lastSeq
    BY <1>1
  <1>3. ServerOK'
    BY <1>1, <1>2 DEF FeedInv, ServerOK, FeedOK
  <1> QED BY <1>1, <1>3, ServerStays, FeedMoves

LEMMA FeedRestore ==
    ASSUME TypeOK, TypeOK', FeedInv, RestoreServer \/ RotateServerEpoch
    PROVE  FeedInv'
  <1>1. DevicesUnchanged /\ backup' = backup
    BY DEF RestoreServer, RotateServerEpoch, Restore, RotateEpoch
  <1>2. restores \in Nat /\ MaxRestores \in Nat /\ epoch \in Nat
    BY SyncAssumption DEF TypeOK, BoundsTypeOK, ServerTypeOK
  <1>3. MaxRestores # 0 /\ epoch' >= epoch /\ (rotationDue' \/ epoch' > epoch)
    <2>1. CASE RestoreServer
      <3>1. restores < MaxRestores /\ epoch' = epoch /\ rotationDue'
        BY <2>1, Zenon DEF RestoreServer, Restore
      <3> QED BY <1>2, <3>1
    <2>2. CASE RotateServerEpoch
      <3>1. rotationDue /\ epoch' = epoch + 1
        BY <2>2, Zenon DEF RotateServerEpoch, RotateEpoch
      <3>2. MaxRestores # 0
        BY <3>1 DEF FeedInv, ServerOK
      <3> QED BY <1>2, <3>1, <3>2
    <2> QED BY <2>1, <2>2
  <1>4. \/ srv' = srv /\ lastSeq' = lastSeq
        \/ srv' = backup.srv /\ lastSeq' = backup.lastSeq
    BY DEF RestoreServer, RotateServerEpoch, Restore, RotateEpoch
  <1>5. ServerOK'
    BY <1>1, <1>3, <1>4 DEF FeedInv, ServerOK, FeedOK
  <1>6. ASSUME NEW d \in Devices
        PROVE  DeviceOK(d)'
    BY <1>1, <1>3, OwnStays, DeviceForgets DEF FeedInv
  <1> QED BY <1>5, <1>6 DEF FeedInv

LEMMA FeedDamage ==
    ASSUME TypeOK, TypeOK', GenerationsInv, GenerationsInv', FeedInv, NEW doc \in Docs,
           DamageRow(doc) \/ NewerAppWrites(doc)
    PROVE  FeedInv'
  <1>1. DevicesUnchanged /\ UNCHANGED <<epoch, rotationDue, backup>>
    BY DEF DamageRow, Damage, NewerAppWrites, PushNewerFormat
  <1>2. MaxDamage # 0
    <2>1. damages < MaxDamage /\ damages \in Nat /\ MaxDamage \in Nat
      BY SyncAssumption DEF DamageRow, NewerAppWrites, TypeOK, BoundsTypeOK
    <2> QED BY <2>1
  <1>3. lastSeq \in Nat /\ srv \in [Docs -> ServerRow]
    BY DEF TypeOK, ServerTypeOK
  <1>4. \A o \in Docs : srv[o].seq \in Nat /\ srv[o].seq <= lastSeq
    BY DEF FeedInv, ServerOK, FeedOK, TypeOK, ServerTypeOK, ServerRow
  <1>5. CASE DamageRow(doc)
    <2>1. lastSeq' = lastSeq /\ srv' = [srv EXCEPT ![doc].form = "broken"] /\ srv[doc].rev # NoRev
      BY <1>5 DEF DamageRow, Damage
    <2>2. \A o \in Docs \ {doc} : srv'[o] = srv[o]
      BY <1>3, <2>1
    <2>3. srv'[doc].rev = srv[doc].rev /\ srv'[doc].seq = srv[doc].seq /\ srv'[doc].form = "broken"
      BY <1>3, <2>1 DEF ServerRow
    <2>4. ServerMoves
      BY <1>1, <1>3, <2>1, <2>2, <2>3 DEF ServerMoves
    <2>5. srv[doc].seq # 0
      BY <2>1, NoServerRowRev DEF FeedInv, ServerOK, FeedOK
    <2>6. FeedOK(srv, lastSeq)'
      BY <2>1, <2>2, <2>3, <2>5 DEF FeedInv, ServerOK, FeedOK
    <2>7. FeedOK(backup.srv, backup.lastSeq)'
      BY <1>1 DEF FeedInv, ServerOK, FeedOK
    <2>8. ServerOK'
      BY <1>1, <1>2, <2>6, <2>7 DEF FeedInv, ServerOK
    <2> QED BY <1>1, <2>4, <2>8, FeedMoves
  <1>6. CASE NewerAppWrites(doc)
    <2>1. PICK content : PushNewerFormat(doc, content, edits')
      BY <1>6 DEF NewerAppWrites
    <2>2. lastSeq' = lastSeq + 1 /\ \A o \in Docs \ {doc} : srv'[o] = srv[o]
      BY <1>3, <2>1 DEF PushNewerFormat
    <2>3. srv'[doc].rev.gen = srv[doc].rev.gen + 1 /\ srv'[doc].seq = lastSeq + 1
      BY <1>3, <2>1 DEF PushNewerFormat, NextRev
    <2>4. lastSeq < srv'[doc].seq /\ srv[doc].rev.gen < srv'[doc].rev.gen
      BY <1>3, <2>3, ServerRevs
    <2>5. ServerMoves
      BY <1>1, <1>3, <2>2, <2>4 DEF ServerMoves
    <2>6. ASSUME NEW o \in Docs
          PROVE  srv'[o].seq <= lastSeq' /\ (srv'[o].seq = 0 => srv'[o] = NoServerRow)
      BY <1>3, <1>4, <2>2, <2>3 DEF FeedInv, ServerOK, FeedOK
    <2>7. ASSUME NEW o \in Docs, NEW other \in Docs, srv'[o].seq = srv'[other].seq, srv'[o].seq > 0
          PROVE  o = other
      BY <1>3, <1>4, <2>2, <2>3, <2>7 DEF FeedInv, ServerOK, FeedOK
    <2>8. FeedOK(srv, lastSeq)'
      BY <2>6, <2>7 DEF FeedOK
    <2>9. FeedOK(backup.srv, backup.lastSeq)'
      BY <1>1 DEF FeedInv, ServerOK, FeedOK
    <2>10. ServerOK'
      BY <1>1, <1>2, <2>8, <2>9 DEF FeedInv, ServerOK
    <2> QED BY <1>1, <2>5, <2>10, FeedMoves
  <1> QED BY <1>5, <1>6

LEMMA FeedLate ==
    ASSUME TypeOK, TypeOK', GenerationsInv, GenerationsInv', FeedInv, NEW d \in Devices, RunLate(d)
    PROVE  FeedInv'
  <1>1. PICK push \in late[d] : AcceptPush(push, d)
    BY DEF RunLate
  <1>2. push \in [Docs -> Push] /\ \A doc \in Docs : PushInv(push[doc])
    BY DEF TypeOK, RunTypeOK, GenerationsInv, PushesInv
  <1>3. ServerMoves /\ ServerOK'
    BY <1>1, <1>2, AcceptPushMoves DEF FeedInv
  <1> QED BY <1>3, FeedMoves DEF RunLate

-----------------------------------------------------------------------------
(* A device's step *)

OthersStay(d) == \A e \in Devices \ {d} : OwnStay(e)

LEMMA FeedDevice ==
    ASSUME TypeOK, TypeOK', GenerationsInv', FeedInv, NEW d \in Devices, OthersStay(d),
           ServerMoves, ServerOK', DeviceOK(d)'
    PROVE  FeedInv'
    BY DeviceKept DEF FeedInv, OthersStay

LEMMA SetRowOthers ==
    ASSUME TypeOK, NEW d \in Devices, NEW doc \in Docs, NEW row, SetRow(d, doc, row) \/ rows' = rows
    PROVE  \A e \in Devices \ {d} : rows'[e] = rows[e]
    BY DEF SetRow, TypeOK, StoreTypeOK

LEMMA OthersPull ==
    ASSUME TypeOK, NEW d \in Devices,
           \/ ReadLengths(d) \/ ReadRows(d) \/ AdoptEpoch(d) \/ RewindCursor(d) \/ MarkRemerging(d)
           \/ SaveCursor(d) \/ MarkMissing(d) \/ FinishRemerge(d)
    PROVE  OthersStay(d) /\ UNCHANGED <<serverVars, batch, answer>>
  <1>1. UNCHANGED <<serverVars, batch, answer>>
    BY DEF ReadLengths, ReadRows, AdoptEpoch, RewindCursor, MarkRemerging, SaveCursor, MarkMissing,
           FinishRemerge, pushVars
  <1>2. \A e \in Devices \ {d} : /\ rows'[e] = rows[e] /\ cursor'[e] = cursor[e] /\ saved'[e] = saved[e]
                                 /\ pc'[e] = pc[e]
    BY DEF ReadLengths, ReadRows, AdoptEpoch, RewindCursor, MarkRemerging, SaveCursor, MarkMissing,
           FinishRemerge, storeVars, Goto, TypeOK, StoreTypeOK, RunTypeOK
  <1>3. \A e \in Devices \ {d} : page'[e] = page[e] /\ last'[e] = last[e]
    BY DEF ReadLengths, ReadRows, AdoptEpoch, RewindCursor, MarkRemerging, SaveCursor, MarkMissing,
           FinishRemerge, pageVars, TypeOK, PullTypeOK
  <1>4. \A e \in Devices \ {d} : /\ runEpoch'[e] = runEpoch[e] /\ remerging'[e] = remerging[e]
                                 /\ present'[e] = present[e]
    BY DEF ReadLengths, ReadRows, AdoptEpoch, RewindCursor, MarkRemerging, SaveCursor, MarkMissing,
           FinishRemerge, runVars, TypeOK, PullTypeOK
  <1> QED BY <1>1, <1>2, <1>3, <1>4 DEF OthersStay, OwnStay

LEMMA OthersEntry ==
    ASSUME TypeOK, NEW d \in Devices, NEW doc \in Docs,
           ApplyEntry(d, doc) \/ UndecryptableEntry(d, doc)
    PROVE  OthersStay(d) /\ UNCHANGED <<serverVars, batch, answer, cursor, saved, pc, runEpoch, remerging>>
  <1>1. EntryDone(d, doc)
    BY DEF ApplyEntry, UndecryptableEntry
  <1>2. UNCHANGED <<serverVars, batch, answer, cursor, saved, pc, runEpoch, remerging>>
    BY <1>1 DEF EntryDone, pushVars
  <1>3. \A e \in Devices \ {d} : page'[e] = page[e] /\ last'[e] = last[e]
    BY <1>1 DEF EntryDone, TypeOK, PullTypeOK
  <1>4. \A e \in Devices \ {d} : present'[e] = present[e]
    BY DEF ApplyEntry, UndecryptableEntry, TypeOK, PullTypeOK
  <1>5. \A e \in Devices \ {d} : rows'[e] = rows[e]
    BY SetRowOthers DEF ApplyEntry, UndecryptableEntry, EngineApply
  <1> QED BY <1>2, <1>3, <1>4, <1>5 DEF OthersStay, OwnStay

LEMMA OthersPush ==
    ASSUME TypeOK, NEW d \in Devices, PickPending(d) \/ SendPush(d) \/ ServerAnswers(d) \/ EndRound(d)
    PROVE  /\ OthersStay(d)
           /\ UNCHANGED <<cursor, saved, page, last, runEpoch, remerging, present>>
           /\ ServerAnswers(d) \/ UNCHANGED serverVars
  <1>1. UNCHANGED <<cursor, saved, page, last, runEpoch, remerging, present>>
    BY DEF PickPending, SendPush, ServerAnswers, EndRound, storeVars, pageVars, runVars
  <1>2. \A e \in Devices \ {d} : rows'[e] = rows[e] /\ pc'[e] = pc[e]
    BY DEF PickPending, SendPush, ServerAnswers, EndRound, storeVars, Goto, TypeOK, StoreTypeOK, RunTypeOK
  <1>3. \A e \in Devices \ {d} : batch'[e] = batch[e] /\ answer'[e] = answer[e]
    BY DEF PickPending, SendPush, ServerAnswers, EndRound, pushVars, TypeOK, PushTypeOK
  <1>4. ServerAnswers(d) \/ UNCHANGED serverVars
    BY DEF PickPending, SendPush, EndRound
  <1> QED BY <1>1, <1>2, <1>3, <1>4 DEF OthersStay, OwnStay

LEMMA OthersResult ==
    ASSUME TypeOK, NEW d \in Devices, NEW doc \in Docs, AnyResult(d, doc)
    PROVE  /\ OthersStay(d)
           /\ UNCHANGED <<serverVars, cursor, saved, pc, page, last, runEpoch, remerging, present, batch>>
           /\ pc[d] = "results"
           /\ \A o \in Docs : answer'[d][o] \in {answer[d][o], NoAnswer}
  <1>1. Processed(d, doc) /\ pc[d] = "results"
    BY DEF AnyResult, ResultOk, ResultConflict, ResultLost, ResultBehind, ResultBroken, ResultNewer, Result
  <1>2. UNCHANGED <<serverVars, cursor, saved, pc, page, last, runEpoch, remerging, present, batch>>
    BY <1>1 DEF Processed, pageVars, runVars
  <1>3. /\ \A e \in Devices \ {d} : answer'[e] = answer[e]
        /\ \A o \in Docs : answer'[d][o] \in {answer[d][o], NoAnswer}
    BY <1>1 DEF Processed, TypeOK, PushTypeOK
  <1>4. \A e \in Devices \ {d} : rows'[e] = rows[e]
    BY SetRowOthers DEF AnyResult, ResultOk, ResultConflict, ResultLost, ResultBehind, ResultBroken,
                        ResultNewer, EngineApply
  <1> QED BY <1>1, <1>2, <1>3, <1>4 DEF OthersStay, OwnStay

LEMMA OthersEnd ==
    ASSUME TypeOK, NEW d \in Devices, ForgetRun(d)
    PROVE  /\ OthersStay(d) /\ UNCHANGED <<serverVars, rows, cursor, saved>>
           /\ pc'[d] = "idle" /\ page'[d] = NoPage /\ runEpoch'[d] = NoEpoch /\ ~remerging'[d]
           /\ batch'[d] = NoBatch /\ answer'[d] = NoAnswers
  <1>1. UNCHANGED <<serverVars, rows, cursor, saved>>
    BY DEF ForgetRun, storeVars
  <1>2. \A e \in Devices \ {d} :
          /\ pc'[e] = pc[e] /\ page'[e] = page[e] /\ last'[e] = last[e]
          /\ runEpoch'[e] = runEpoch[e] /\ remerging'[e] = remerging[e] /\ present'[e] = present[e]
          /\ batch'[e] = batch[e] /\ answer'[e] = answer[e]
    BY DEF ForgetRun, TypeOK, RunTypeOK, PullTypeOK, PushTypeOK
  <1>3. pc'[d] = "idle" /\ page'[d] = NoPage /\ runEpoch'[d] = NoEpoch
    BY DEF ForgetRun, TypeOK, RunTypeOK, PullTypeOK
  <1>4. ~remerging'[d]
    BY Zenon DEF ForgetRun, TypeOK, PullTypeOK
  <1>5. batch'[d] = NoBatch /\ answer'[d] = NoAnswers
    BY DEF ForgetRun, TypeOK, PushTypeOK
  <1> QED BY <1>1, <1>2, <1>3, <1>4, <1>5 DEF OthersStay, OwnStay

LEMMA OthersLocal ==
    ASSUME TypeOK, NEW d \in Devices,
           BindAdd(d) \/ BindReplace(d) \/ \E doc \in Docs : Write(d, doc) \/ Delete(d, doc)
    PROVE  /\ OthersStay(d)
           /\ UNCHANGED <<serverVars, pc, page, last, runEpoch, remerging, present, batch, answer>>
  <1>1. UNCHANGED <<serverVars, pc, page, last, runEpoch, remerging, present, batch, answer>>
    BY DEF Write, Delete, LocalOnly, BindAdd, BindReplace, Bound, pageVars, runVars, pushVars
  <1>2. \A e \in Devices \ {d} : cursor'[e] = cursor[e] /\ saved'[e] = saved[e]
    BY DEF Write, Delete, LocalOnly, BindAdd, BindReplace, Bound, TypeOK, StoreTypeOK
  <1>3. \A e \in Devices \ {d} : rows'[e] = rows[e]
    <2>1. CASE BindAdd(d) \/ BindReplace(d)
      BY <2>1 DEF BindAdd, BindReplace, TypeOK, StoreTypeOK
    <2>2. CASE \E doc \in Docs : Write(d, doc) \/ Delete(d, doc)
      <3>1. PICK doc \in Docs : \E row : SetRow(d, doc, row)
        BY <2>2 DEF Write, Delete
      <3>2. PICK row : SetRow(d, doc, row)
        BY <3>1
      <3> QED BY <3>2, SetRowOthers
    <2> QED BY <2>1, <2>2
  <1> QED BY <1>1, <1>2, <1>3 DEF OthersStay, OwnStay

LEMMA Unserved ==
    ASSUME TypeOK, FeedInv, UNCHANGED serverVars
    PROVE  /\ ServerMoves /\ ServerOK'
           /\ UNCHANGED <<srv, lastSeq, epoch, rotationDue>>
    BY ServerStays, ServerKept DEF serverVars, FeedInv

\* The end of a sync, however it comes.
LEMMA FeedEnd ==
    ASSUME TypeOK, TypeOK', GenerationsInv', FeedInv, NEW d \in Devices, ForgetRun(d)
    PROVE  FeedInv'
  <1>1. /\ OthersStay(d) /\ UNCHANGED <<serverVars, rows, cursor, saved>>
        /\ pc'[d] = "idle" /\ page'[d] = NoPage /\ runEpoch'[d] = NoEpoch /\ ~remerging'[d]
        /\ batch'[d] = NoBatch /\ answer'[d] = NoAnswers
    BY OthersEnd
  <1>2. ServerMoves /\ ServerOK' /\ UNCHANGED <<srv, lastSeq, epoch, rotationDue>>
    BY <1>1, Unserved
  <1>3. DeviceOK(d) /\ RowsLoosen(d)
    BY <1>1, RowsStay DEF FeedInv
  <1>4. RunOK(d)'
    <2>1. NoEpoch <= epoch
      BY DEF NoEpoch, TypeOK, ServerTypeOK
    <2> QED BY <1>1, <1>2, <1>3, <2>1 DEF DeviceOK, RunOK, FirstPage
  <1>5. BoundsOK(d)'
    <2>1. \A doc \in Docs : page'[d][doc].form = "sealed"
      BY <1>1 DEF NoPage, NoServerRow
    <2> QED BY <1>1, <1>2, <1>3, <2>1 DEF DeviceOK, BoundsOK, FirstPage
  <1>6. (Follows(d)' <=> Follows(d)) /\ ~Remerges(d)'
    BY <1>1, <1>2 DEF Follows, Remerges
  <1>7. CursorOK(d)'
    BY <1>1, <1>2, <1>3, <1>6, CursorKept DEF DeviceOK
  <1>8. PageOK(d)'
    BY <1>1 DEF PageOK, PageSteps
  <1>9. ResultsOK(d)'
    BY <1>1 DEF ResultsOK, Pushing, NoBatch, NoAnswers, NoAnswer
  <1>10. BaseOK(d)'
    <2>1. \A doc \in Docs : Claims(d, doc)' => Claims(d, doc)
      BY <1>6 DEF Claims
    <2> QED BY <1>2, <1>3, <2>1, BaseKept DEF DeviceOK
  <1>11. DeviceOK(d)'
    BY <1>4, <1>5, <1>7, <1>8, <1>9, <1>10 DEF DeviceOK
  <1> QED BY <1>1, <1>2, <1>11, FeedDevice

\* A write of the person.
LEMMA FeedWrite ==
    ASSUME TypeOK, TypeOK', GenerationsInv', FeedInv, NEW d \in Devices, NEW doc \in Docs,
           Write(d, doc) \/ Delete(d, doc)
    PROVE  FeedInv'
  <1>1. /\ OthersStay(d)
        /\ UNCHANGED <<serverVars, pc, page, last, runEpoch, remerging, present, batch, answer>>
    BY OthersLocal
  <1>2. ServerMoves /\ ServerOK' /\ UNCHANGED <<srv, lastSeq, epoch, rotationDue>>
    BY <1>1, Unserved
  <1>3. DeviceOK(d) /\ UNCHANGED <<cursor, saved>>
    BY DEF FeedInv, Write, Delete, LocalOnly
  <1>4. rows[d][doc] \in Row
    BY DEF TypeOK, StoreTypeOK
  <1>5. PICK q : /\ SetRow(d, doc, q) /\ q.rev.gen = rows[d][doc].rev.gen + 1
                 /\ q.floor = rows[d][doc].floor /\ q.synced = rows[d][doc].synced
    <2>1. CASE Write(d, doc)
      <3>1. PICK content, snapshots :
              SetRow(d, doc, EditRow(Kind[doc], rows[d][doc], content, edits', snapshots))
        BY <2>1 DEF Write
      <3> DEFINE edited == EditRow(Kind[doc], rows[d][doc], content, edits', snapshots)
      <3>2. /\ edited.rev.gen = rows[d][doc].rev.gen + 1
            /\ edited.floor = rows[d][doc].floor /\ edited.synced = rows[d][doc].synced
        BY <1>4 DEF EditRow, NextRev, Row
      <3> HIDE DEF edited
      <3>3. SetRow(d, doc, edited)
        BY <3>1 DEF edited
      <3> QED BY <3>2, <3>3
    <2>2. CASE Delete(d, doc)
      <3>1. PICK ui : SetRow(d, doc, DeleteRow(Kind[doc], rows[d][doc], edits', ui))
        BY <2>2 DEF Delete
      <3> DEFINE deleted == DeleteRow(Kind[doc], rows[d][doc], edits', ui)
      <3>2. /\ deleted.rev.gen = rows[d][doc].rev.gen + 1
            /\ deleted.floor = rows[d][doc].floor /\ deleted.synced = rows[d][doc].synced
        BY <1>4 DEF DeleteRow, NextRev, Row
      <3> HIDE DEF deleted
      <3>3. SetRow(d, doc, deleted)
        BY <3>1 DEF deleted
      <3> QED BY <3>2, <3>3
    <2> QED BY <2>1, <2>2
  <1>6. \A o \in Docs : rows'[d][o] = IF o = doc THEN q ELSE rows[d][o]
    <2>1. rows \in [Devices -> [Docs -> Row]]
      BY DEF TypeOK, StoreTypeOK
    <2>2. SetRow(d, doc, q)
      BY <1>5
    <2> QED BY <2>1, <2>2, SetRowRows
  <1>7. RowsLoosen(d)
    <2>1. Loosens(rows[d][doc], q)
      BY <1>4, <1>5, RowFields DEF Loosens, Exists
    <2> QED BY <1>6, <2>1 DEF RowsLoosen, Loosens
  <1>8. RunOK(d)'
    <2>1. \A o \in Docs : rows'[d][o].floor = rows[d][o].floor
      BY <1>7 DEF RowsLoosen, Loosens
    <2> QED BY <1>1, <1>2, <1>3, <2>1 DEF DeviceOK, RunOK
  <1>9. BoundsOK(d)'
    BY <1>1, <1>2, <1>3 DEF DeviceOK, BoundsOK
  <1>10. (Follows(d)' <=> Follows(d)) /\ (Remerges(d)' <=> Remerges(d)) /\ (Trusts(d)' <=> Trusts(d))
    BY <1>1, <1>2, <1>3 DEF Follows, Remerges, Trusts
  <1>11. CursorOK(d)'
    BY <1>2, <1>3, <1>7, <1>10, CursorKept DEF DeviceOK
  <1>12. PageOK(d)'
    BY <1>1, <1>2, <1>3, <1>7, <1>10, PageKept DEF DeviceOK
  <1>13. ResultsOK(d)'
    BY <1>1, <1>2, <1>3, <1>7, ResultsKept DEF DeviceOK, RowsLoosen, Loosens
  <1>14. BaseOK(d)'
    <2>1. \A o \in Docs : Claims(d, o)' => Claims(d, o)
      BY <1>1, <1>10 DEF Claims
    <2> QED BY <1>2, <1>3, <1>7, <2>1, BaseKept DEF DeviceOK
  <1>15. DeviceOK(d)'
    BY <1>8, <1>9, <1>11, <1>12, <1>13, <1>14 DEF DeviceOK
  <1> QED BY <1>1, <1>2, <1>15, FeedDevice

\* A library bound to another account claims nothing of it yet.
LEMMA FeedBind ==
    ASSUME TypeOK, TypeOK', GenerationsInv', FeedInv, NEW d \in Devices, BindAdd(d) \/ BindReplace(d)
    PROVE  FeedInv'
  <1>1. /\ OthersStay(d)
        /\ UNCHANGED <<serverVars, pc, page, last, runEpoch, remerging, present, batch, answer>>
    BY OthersLocal
  <1>2. ServerMoves /\ ServerOK' /\ UNCHANGED <<srv, lastSeq, epoch, rotationDue>>
    BY <1>1, Unserved
  <1>3. DeviceOK(d) /\ pc[d] = "idle" /\ cursor'[d] = 0 /\ saved'[d] = NoEpoch
    BY DEF FeedInv, BindAdd, BindReplace, Bound, TypeOK, StoreTypeOK
  <1>4. epoch \in Nat \ {0} /\ runEpoch[d] = NoEpoch /\ NoEpoch = 0
    BY <1>3 DEF DeviceOK, RunOK, TypeOK, ServerTypeOK, NoEpoch
  <1>5. \A doc \in Docs : rows'[d][doc].floor = 0 /\ RowBase(rows'[d][doc])
    <2>1. CASE BindAdd(d)
      <3> DEFINE left(o, taken) == IF o \in taken THEN TakenElsewhere(rows[d][o]) ELSE rows[d][o]
      <3>1. PICK taken \in SUBSET Docs : \A o \in Docs : rows'[d][o] = ResetSync(left(o, taken))
        <4>1. PICK taken \in SUBSET Docs :
                rows' = [rows EXCEPT ![d] = [o \in Docs |-> ResetSync(left(o, taken))]]
          BY <2>1 DEF BindAdd
        <4>2. rows \in [Devices -> [Docs -> Row]]
          BY DEF TypeOK, StoreTypeOK
        <4> HIDE DEF left
        <4>3. rows'[d] = [o \in Docs |-> ResetSync(left(o, taken))]
          BY <4>1, <4>2
        <4> QED BY <4>3
      <3>2. \A o \in Docs : left(o, taken) \in Row
        BY TakenElsewhereType DEF TypeOK, StoreTypeOK
      <3> HIDE DEF left
      <3>3. \A r \in Row : ResetSync(r).floor = 0 /\ RowBase(ResetSync(r))
        BY DEF ResetSync, RowBase, Row, Deleted
      <3> QED BY <3>1, <3>2, <3>3
    <2>2. CASE BindReplace(d)
      <3>1. \A doc \in Docs : rows'[d][doc] = NoRow
        BY <2>2 DEF BindReplace, TypeOK, StoreTypeOK
      <3> QED BY <3>1 DEF NoRow, RowBase
    <2> QED BY <2>1, <2>2
  <1>6. RunOK(d)'
    BY <1>1, <1>2, <1>3, <1>4, <1>5 DEF DeviceOK, RunOK, FirstPage
  <1>7. BoundsOK(d)'
    BY <1>1, <1>2, <1>3 DEF DeviceOK, BoundsOK
  <1>8. ~Follows(d)' /\ ~Remerges(d)'
    BY <1>1, <1>2, <1>3, <1>4 DEF Follows, Remerges, Trusts
  <1>9. CursorOK(d)' /\ PageOK(d)'
    BY <1>1, <1>3, <1>8 DEF CursorOK, PageOK, PageSteps
  <1>10. ResultsOK(d)'
    BY <1>1, <1>3 DEF DeviceOK, ResultsOK, Pushing
  <1>11. BaseOK(d)'
    BY <1>5, <1>8 DEF BaseOK, Claims
  <1>12. DeviceOK(d)'
    BY <1>6, <1>7, <1>9, <1>10, <1>11 DEF DeviceOK
  <1> QED BY <1>1, <1>2, <1>12, FeedDevice

-----------------------------------------------------------------------------
(* The pull *)

\* A device that trusts nothing of the account yet has floor 0 everywhere.
LEMMA UnboundClaims ==
    ASSUME TypeOK, GenerationsInv, NEW d \in Devices, RunOK(d), saved[d] = NoEpoch, NEW doc \in Docs
    PROVE  Believes(PushBase(rows[d][doc]), srv[doc].rev)
  <1>1. PushBase(rows[d][doc]) = NoRev
    BY DEF RunOK, PushBase
  <1> QED BY <1>1, ServerRevs, BelievesNoRev

LEMMA FeedReadLengths ==
    ASSUME TypeOK, TypeOK', GenerationsInv', FeedInv, NEW d \in Devices, ReadLengths(d)
    PROVE  FeedInv'
  <1>1. OthersStay(d) /\ UNCHANGED <<serverVars, batch, answer>>
    BY OthersPull
  <1>2. ServerMoves /\ ServerOK' /\ UNCHANGED <<srv, lastSeq, epoch, rotationDue>>
    BY <1>1, Unserved
  <1>3. /\ UNCHANGED <<rows, cursor, saved, page, last, runEpoch, remerging, present>>
        /\ pc[d] \in {"idle", "lengths"} /\ pc'[d] = "rows"
    BY DEF ReadLengths, Goto, storeVars, runVars, TypeOK, RunTypeOK
  <1>4. DeviceOK(d) /\ RowsLoosen(d)
    BY <1>3, RowsStay DEF FeedInv
  <1>5. RunOK(d)'
    BY <1>2, <1>3, <1>4 DEF DeviceOK, RunOK, FirstPage
  <1>6. BoundsOK(d)'
    BY <1>2, <1>3, <1>4 DEF DeviceOK, BoundsOK, FirstPage
  <1>7. (Follows(d)' <=> Follows(d)) /\ (Remerges(d)' <=> Remerges(d))
    BY <1>2, <1>3 DEF Follows, Remerges, Trusts
  <1>8. CursorOK(d)'
    BY <1>2, <1>3, <1>4, <1>7, CursorKept DEF DeviceOK
  <1>9. PageOK(d)'
    BY <1>3 DEF PageOK, PageSteps
  <1>10. ResultsOK(d)'
    BY <1>1, <1>3, <1>4 DEF DeviceOK, ResultsOK, Pushing
  <1>11. BaseOK(d)'
    BY <1>2, <1>3, <1>4, <1>7 DEF DeviceOK, BaseOK, Claims
  <1>12. DeviceOK(d)'
    BY <1>5, <1>6, <1>8, <1>9, <1>10, <1>11 DEF DeviceOK
  <1> QED BY <1>1, <1>2, <1>12, FeedDevice

\* The first page of a sync goes to a device that follows the account, to one
\* just bound, or to one that is about to re-merge.
LEMMA FeedReadRows ==
    ASSUME TypeOK, TypeOK', GenerationsInv, GenerationsInv', FeedInv, NEW d \in Devices, ReadRows(d)
    PROVE  FeedInv'
  <1>1. OthersStay(d) /\ UNCHANGED <<serverVars, batch, answer>>
    BY OthersPull
  <1>2. ServerMoves /\ ServerOK' /\ UNCHANGED <<srv, lastSeq, epoch, rotationDue>>
    BY <1>1, Unserved
  <1>3. /\ UNCHANGED <<rows, cursor, saved, remerging, present>>
        /\ pc[d] = "rows" /\ runEpoch[d] \in {NoEpoch, epoch}
        /\ runEpoch'[d] = epoch /\ last'[d] = cursor[d]
        /\ page'[d] = RowsBetween(cursor[d], upto[d])
        /\ pc'[d] = IF runEpoch[d] = NoEpoch THEN FirstPageStep(d) ELSE "entries"
    BY DEF ReadRows, Goto, storeVars, TypeOK, RunTypeOK, PullTypeOK
  <1>4. DeviceOK(d) /\ ServerOK /\ ServerOK' /\ RowsLoosen(d)
    BY <1>2, <1>3, RowsStay DEF FeedInv
  <1>5. /\ epoch \in Nat \ {0} /\ NoEpoch = 0 /\ Remerging = -1 /\ runEpoch[d] \in Nat
        /\ lastSeq \in Nat /\ cursor[d] \in Nat
    BY DEF TypeOK, ServerTypeOK, StoreTypeOK, PullTypeOK, NoEpoch, Remerging
  <1>6. RunOK(d)
    BY <1>4 DEF DeviceOK
  <1>7. \/ /\ pc'[d] = "entries" /\ saved[d] = IF remerging[d] THEN Remerging ELSE epoch
           /\ rotationDue \/ ((Follows(d) \/ Remerges(d)) /\ cursor[d] <= lastSeq)
        \/ pc'[d] = "adopt" /\ saved[d] = NoEpoch /\ cursor[d] = 0 /\ ~remerging[d]
        \/ pc'[d] = "rewindThis" /\ cursor[d] = 0 /\ ~remerging[d] /\ saved[d] # NoEpoch /\ MaxRestores # 0
        \/ pc'[d] = "rewind" /\ ~remerging[d] /\ saved[d] # NoEpoch /\ MaxRestores # 0
    <2>1. CASE runEpoch[d] = epoch
      <3>1. pc'[d] = "entries" /\ pc[d] \notin FirstPage
        BY <1>3, <1>5, <2>1 DEF FirstPage
      <3>2. saved[d] = IF remerging[d] THEN Remerging ELSE epoch
        BY <1>5, <1>6, <2>1, <3>1 DEF RunOK
      <3>3. ~rotationDue => (Follows(d) \/ Remerges(d))
        BY <2>1, <3>2 DEF Trusts, Follows, Remerges
      <3>4. ~rotationDue => cursor[d] <= lastSeq
        BY <3>3, <1>4 DEF DeviceOK, CursorOK
      <3> QED BY <3>1, <3>2, <3>3, <3>4
    <2>2. CASE runEpoch[d] = NoEpoch
      <3>1. ~remerging[d] /\ pc'[d] = FirstPageStep(d)
        BY <1>3, <1>6, <2>2 DEF RunOK
      <3>2. saved[d] = NoEpoch => cursor[d] = 0
        BY <1>6 DEF RunOK
      <3>3. MaxRestores = 0 => ~rotationDue /\ saved[d] \in {NoEpoch, epoch}
        BY <1>4 DEF ServerOK, DeviceOK, BoundsOK
      <3>4. saved[d] = epoch /\ ~rotationDue => cursor[d] <= lastSeq
        BY <1>4 DEF DeviceOK, CursorOK, Follows
      <3>5. CASE Restored(d)
        <4>1. saved[d] # NoEpoch
          BY <1>5, <3>2, <3>5 DEF Restored
        <4>2. MaxRestores # 0
          BY <1>5, <3>2, <3>3, <3>4, <3>5 DEF Restored
        <4>3. pc'[d] = IF cursor[d] = 0 THEN "rewindThis" ELSE "rewind"
          BY <3>1, <3>5 DEF FirstPageStep
        <4> QED BY <3>1, <4>1, <4>2, <4>3
      <3>6. CASE ~Restored(d) /\ saved[d] = NoEpoch
        BY <3>1, <3>2, <3>6 DEF FirstPageStep
      <3>7. CASE ~Restored(d) /\ saved[d] # NoEpoch
        <4>1. saved[d] = epoch /\ cursor[d] <= lastSeq
          BY <1>5, <3>7 DEF Restored
        <4>2. pc'[d] = "entries"
          BY <3>1, <3>7 DEF FirstPageStep
        <4> QED BY <3>1, <4>1, <4>2 DEF Follows
      <3> QED BY <3>5, <3>6, <3>7
    <2> QED BY <1>3, <2>1, <2>2
  <1>8. RunOK(d)'
    BY <1>2, <1>3, <1>5, <1>6, <1>7 DEF RunOK, FirstPage
  <1>9. BoundsOK(d)'
    <2>1. \A doc \in Docs : page'[d][doc] \in {srv[doc], NoServerRow}
      BY <1>3 DEF RowsBetween
    <2>2. MaxDamage = 0 => \A doc \in Docs : page'[d][doc].form = "sealed"
      BY <1>4, <2>1 DEF ServerOK, NoServerRow
    <2>3. MaxRestores = 0 => ~remerging[d] /\ saved[d] \in {NoEpoch, epoch}
      BY <1>4 DEF DeviceOK, BoundsOK
    <2> QED BY <1>2, <1>3, <1>7, <2>2, <2>3 DEF BoundsOK, FirstPage
  <1>10. (Follows(d)' <=> Follows(d)) /\ (Remerges(d)' <=> Remerges(d)) /\ (Trusts(d)' <=> ~rotationDue)
    <2>1. remerging[d] => runEpoch[d] = epoch
      BY <1>3, <1>6 DEF RunOK
    <2> QED BY <1>2, <1>3, <2>1 DEF Follows, Remerges, Trusts
  <1>11. CursorOK(d)'
    BY <1>2, <1>3, <1>4, <1>10, CursorKept DEF DeviceOK
  <1>12. PageOK(d)'
    <2> SUFFICES ASSUME pc'[d] \in PageSteps, ~rotationDue
                 PROVE  /\ cursor'[d] <= last'[d] /\ last'[d] <= lastSeq'
                        /\ RowsOfPage(d)'
                        /\ \A doc \in Docs : Placed(d, doc)'
        BY <1>10 DEF PageOK
    <2>1. cursor[d] <= lastSeq /\ \A doc \in Docs : 0 < srv[doc].seq /\ srv[doc].seq <= cursor[d] => Settled(d, doc)
      <3>1. CASE cursor[d] = 0
        <4>1. \A doc \in Docs : srv[doc].seq \in Nat
          BY ServerRevs
        <4> QED BY <1>5, <3>1, <4>1
      <3>2. CASE Follows(d) \/ Remerges(d)
        BY <1>4, <3>2 DEF DeviceOK, CursorOK
      <3> QED BY <1>7, <3>1, <3>2 DEF PageSteps
    <2>2. \A doc \in Docs : page'[d][doc] = IF cursor[d] < srv[doc].seq /\ srv[doc].seq <= upto[d]
                                              THEN srv[doc] ELSE NoServerRow
      BY <1>3 DEF RowsBetween
    <2>3. upto[d] \in Nat /\ NoServerRow.seq = 0 /\ \A doc \in Docs : srv[doc].seq \in Nat /\ srv[doc].seq <= lastSeq
      BY <1>4, ServerRevs DEF NoServerRow, TypeOK, PullTypeOK, ServerOK, FeedOK
    <2>4. cursor'[d] <= last'[d] /\ last'[d] <= lastSeq'
      BY <1>2, <1>3, <1>5, <2>1
    <2>5. RowsOfPage(d)'
      <3> SUFFICES ASSUME NEW doc \in Docs, page'[d][doc] # NoServerRow
                   PROVE  /\ cursor[d] < page'[d][doc].seq /\ page'[d][doc].seq <= lastSeq
                          /\ Upto(page'[d][doc].rev, srv[doc].rev)
                          /\ \A other \in Docs : page'[d][other].seq = page'[d][doc].seq => other = doc
          BY <1>2, <1>3 DEF RowsOfPage, InPage
      <3>1. page'[d][doc] = srv[doc] /\ cursor[d] < srv[doc].seq
        BY <2>2
      <3>2. ASSUME NEW other \in Docs, page'[d][other].seq = page'[d][doc].seq
            PROVE  other = doc
        <4>1. page'[d][other] = srv[other]
          BY <1>5, <2>2, <2>3, <3>1, <3>2
        <4> QED BY <1>4, <1>5, <2>3, <3>1, <3>2, <4>1 DEF ServerOK, FeedOK
      <3> QED BY <2>3, <3>1, <3>2 DEF Upto
    <2>6. ASSUME NEW doc \in Docs
          PROVE  Placed(d, doc)'
      <3>1. CASE srv[doc].seq <= cursor[d]
        <4>1. page'[d][doc] = NoServerRow
          BY <1>5, <2>2, <2>3, <3>1
        <4>2. srv[doc].seq > 0 => Settled(d, doc)
          BY <2>1, <2>3, <3>1
        <4>3. Settled(d, doc) => Settled(d, doc)'
          BY <1>2, <1>3 DEF Settled
        <4> QED BY <1>2, <1>3, <3>1, <4>1, <4>2, <4>3 DEF Placed, InPage
      <3>2. CASE cursor[d] < srv[doc].seq /\ srv[doc].seq <= upto[d]
        <4>1. page'[d][doc] = srv[doc] /\ srv[doc] # NoServerRow
          BY <1>5, <2>2, <2>3, <3>2
        <4> QED BY <1>2, <4>1 DEF Placed, InPage, StillAsRead
      <3>3. CASE cursor[d] < srv[doc].seq /\ upto[d] < srv[doc].seq
        <4>1. \A other \in Docs : page'[d][other].seq < srv[doc].seq
          BY <1>5, <2>2, <2>3, <3>3
        <4> QED BY <1>2, <1>3, <3>3, <4>1 DEF Placed
      <3> QED BY <1>5, <2>3, <3>1, <3>2, <3>3
    <2> QED BY <2>4, <2>5, <2>6
  <1>13. ResultsOK(d)'
    <2>1. pc'[d] \notin Pushing
      BY <1>7 DEF Pushing
    <2>2. pc'[d] # "results"
      BY <1>7
    <2> QED BY <1>1, <1>4, <2>1, <2>2 DEF DeviceOK, ResultsOK
  <1>14. BaseOK(d)'
    <2>1. \A doc \in Docs : Claims(d, doc)' => Claims(d, doc)
      BY <1>3, <1>7, <1>10 DEF Claims
    <2> QED BY <1>2, <1>4, <2>1, BaseKept DEF DeviceOK
  <1>15. DeviceOK(d)'
    BY <1>8, <1>9, <1>11, <1>12, <1>13, <1>14 DEF DeviceOK
  <1> QED BY <1>1, <1>2, <1>15, FeedDevice

\* Outside the push, a pull's step has no result to look at.
LEMMA ResultsOutside ==
    ASSUME TypeOK, NEW d \in Devices, ResultsOK(d), UNCHANGED <<batch, answer>>, pc'[d] \notin Pushing
    PROVE  ResultsOK(d)'
  <1>1. pc'[d] # "results"
    BY DEF Pushing
  <1> QED BY <1>1 DEF ResultsOK

LEMMA FeedAdopt ==
    ASSUME TypeOK, TypeOK', GenerationsInv, GenerationsInv', FeedInv, NEW d \in Devices, AdoptEpoch(d)
    PROVE  FeedInv'
  <1>1. OthersStay(d) /\ UNCHANGED <<serverVars, batch, answer>>
    BY OthersPull
  <1>2. ServerMoves /\ ServerOK' /\ UNCHANGED <<srv, lastSeq, epoch, rotationDue>>
    BY <1>1, Unserved
  <1>3. /\ UNCHANGED <<rows, cursor, page, last, runEpoch, remerging, present>>
        /\ pc[d] = "adopt" /\ pc'[d] = "entries" /\ saved'[d] = runEpoch[d]
    BY DEF AdoptEpoch, Goto, pageVars, runVars, TypeOK, RunTypeOK, StoreTypeOK
  <1>4. DeviceOK(d) /\ RowsLoosen(d) /\ RunOK(d)
    BY <1>3, RowsStay DEF FeedInv, DeviceOK
  <1>5. saved[d] = NoEpoch /\ cursor[d] = 0 /\ ~remerging[d] /\ runEpoch[d] # NoEpoch
    BY <1>3, <1>4 DEF RunOK, FirstPage
  <1>6. RunOK(d)'
    BY <1>2, <1>3, <1>4, <1>5 DEF RunOK, FirstPage
  <1>7. BoundsOK(d)'
    BY <1>2, <1>3, <1>4, <1>5 DEF DeviceOK, BoundsOK, FirstPage
  <1>8. CursorOK(d)'
    <2>1. cursor[d] <= lastSeq /\ \A doc \in Docs : ~(0 < srv[doc].seq /\ srv[doc].seq <= cursor[d])
      <3>1. lastSeq \in Nat /\ \A doc \in Docs : srv[doc].seq \in Nat
        BY ServerRevs DEF TypeOK, ServerTypeOK
      <3> QED BY <1>5, <3>1
    <2> QED BY <1>2, <1>3, <2>1 DEF CursorOK
  <1>9. PageOK(d)'
    BY <1>2, <1>3, <1>4, PageKept DEF DeviceOK, PageSteps, Trusts
  <1>10. ResultsOK(d)'
    BY <1>1, <1>3, <1>4, ResultsOutside DEF DeviceOK, Pushing
  <1>11. BaseOK(d)'
    <2>1. \A doc \in Docs : Believes(PushBase(rows[d][doc]), srv[doc].rev)
      BY <1>4, <1>5, UnboundClaims
    <2> QED BY <1>2, <1>3, <1>4, <2>1 DEF DeviceOK, BaseOK
  <1>12. DeviceOK(d)'
    BY <1>6, <1>7, <1>8, <1>9, <1>10, <1>11 DEF DeviceOK
  <1> QED BY <1>1, <1>2, <1>12, FeedDevice

LEMMA FeedRewind ==
    ASSUME TypeOK, TypeOK', GenerationsInv, GenerationsInv', FeedInv, NEW d \in Devices, RewindCursor(d)
    PROVE  FeedInv'
  <1>1. OthersStay(d) /\ UNCHANGED <<serverVars, batch, answer>>
    BY OthersPull
  <1>2. ServerMoves /\ ServerOK' /\ UNCHANGED <<srv, lastSeq, epoch, rotationDue>>
    BY <1>1, Unserved
  <1>3. /\ UNCHANGED <<rows, saved, page, last, runEpoch, remerging, present>>
        /\ cursor'[d] = 0
        /\ \/ pc[d] = "rewind" /\ pc'[d] = "mark"
           \/ pc[d] = "rewindThis" /\ pc'[d] = "markThis"
    BY DEF RewindCursor, Goto, pageVars, runVars, TypeOK, RunTypeOK, StoreTypeOK
  <1>4. DeviceOK(d) /\ RowsLoosen(d)
    BY <1>3, RowsStay DEF FeedInv
  <1>5. RunOK(d)'
    BY <1>2, <1>3, <1>4 DEF DeviceOK, RunOK, FirstPage
  <1>6. BoundsOK(d)'
    BY <1>2, <1>3, <1>4 DEF DeviceOK, BoundsOK, FirstPage
  <1>7. (Follows(d)' <=> Follows(d)) /\ (Remerges(d)' <=> Remerges(d)) /\ (Trusts(d)' <=> Trusts(d))
    BY <1>2, <1>3 DEF Follows, Remerges, Trusts
  <1>8. CursorOK(d)'
    <2>1. lastSeq \in Nat /\ \A doc \in Docs : srv[doc].seq \in Nat
      BY ServerRevs DEF TypeOK, ServerTypeOK
    <2> QED BY <1>2, <1>3, <2>1 DEF CursorOK
  <1>9. PageOK(d)'
    <2>1. cursor'[d] <= last[d]
      BY <1>3 DEF TypeOK, PullTypeOK
    <2> QED BY <1>2, <1>3, <1>4, <1>7, <2>1, PageKept DEF DeviceOK, PageSteps
  <1>10. ResultsOK(d)'
    BY <1>1, <1>3, <1>4, ResultsOutside DEF DeviceOK, Pushing
  <1>11. BaseOK(d)'
    BY <1>2, <1>3, <1>4, <1>7 DEF DeviceOK, BaseOK, Claims
  <1>12. DeviceOK(d)'
    BY <1>5, <1>6, <1>8, <1>9, <1>10, <1>11 DEF DeviceOK
  <1> QED BY <1>1, <1>2, <1>12, FeedDevice

\* A re-merge begins with the whole feed ahead and nothing seen of it.
LEMMA FeedMark ==
    ASSUME TypeOK, TypeOK', GenerationsInv, GenerationsInv', FeedInv, NEW d \in Devices, MarkRemerging(d)
    PROVE  FeedInv'
  <1>1. OthersStay(d) /\ UNCHANGED <<serverVars, batch, answer>>
    BY OthersPull
  <1>2. ServerMoves /\ ServerOK' /\ UNCHANGED <<srv, lastSeq, epoch, rotationDue>>
    BY <1>1, Unserved
  <1>3. /\ UNCHANGED <<rows, cursor, page, last, runEpoch>>
        /\ saved'[d] = Remerging /\ present'[d] = {}
        /\ \/ pc[d] = "mark" /\ pc'[d] = "lengths"
           \/ pc[d] = "markThis" /\ pc'[d] = "entries"
    BY DEF MarkRemerging, Goto, pageVars, TypeOK, RunTypeOK, StoreTypeOK, PullTypeOK
  <1>4. remerging'[d]
    BY Zenon DEF MarkRemerging, TypeOK, PullTypeOK
  <1>5. DeviceOK(d) /\ RowsLoosen(d) /\ RunOK(d)
    BY <1>3, RowsStay DEF FeedInv, DeviceOK
  <1>6. /\ epoch \in Nat \ {0} /\ Remerging < epoch /\ Remerging # NoEpoch /\ runEpoch[d] # NoEpoch
        /\ cursor[d] = 0 /\ MaxRestores # 0
    <2>1. epoch \in Nat \ {0} /\ Remerging < epoch /\ Remerging # NoEpoch
      BY DEF TypeOK, ServerTypeOK, Remerging, NoEpoch
    <2> QED BY <1>3, <1>5, <2>1 DEF RunOK, DeviceOK, BoundsOK, FirstPage
  <1>7. RunOK(d)'
    <2>1. saved'[d] <= epoch' /\ runEpoch'[d] <= epoch'
      BY <1>2, <1>3, <1>5, <1>6 DEF RunOK, Remerging
    <2>2. saved'[d] = Remerging /\ saved'[d] # NoEpoch /\ runEpoch'[d] # NoEpoch
      BY <1>3, <1>6
    <2>3. pc'[d] \in {"lengths", "entries"}
      BY <1>3
    <2> QED BY <1>4, <2>1, <2>2, <2>3 DEF RunOK, FirstPage
  <1>8. BoundsOK(d)'
    BY <1>3, <1>5, <1>6 DEF DeviceOK, BoundsOK
  <1>9. CursorOK(d)'
    <2>1. lastSeq \in Nat /\ \A doc \in Docs : srv[doc].seq \in Nat
      BY ServerRevs DEF TypeOK, ServerTypeOK
    <2> QED BY <1>2, <1>3, <1>6, <2>1 DEF CursorOK
  <1>10. PageOK(d)'
    BY <1>2, <1>3, <1>5, PageKept DEF DeviceOK, PageSteps, Trusts
  <1>11. ResultsOK(d)'
    BY <1>1, <1>3, <1>5, ResultsOutside DEF DeviceOK, Pushing
  <1>12. BaseOK(d)'
    <2>1. \A doc \in Docs : ~Claims(d, doc)'
      BY <1>2, <1>3, <1>6 DEF Claims, Follows
    <2> QED BY <1>3, <1>5, <2>1 DEF DeviceOK, BaseOK
  <1>13. DeviceOK(d)'
    BY <1>7, <1>8, <1>9, <1>10, <1>11, <1>12 DEF DeviceOK
  <1> QED BY <1>1, <1>2, <1>13, FeedDevice

\* What the cursor passes was applied, or is a damaged row.
LEMMA FeedSaveCursor ==
    ASSUME TypeOK, TypeOK', GenerationsInv, GenerationsInv', FeedInv, NEW d \in Devices, SaveCursor(d)
    PROVE  FeedInv'
  <1>1. OthersStay(d) /\ UNCHANGED <<serverVars, batch, answer>>
    BY OthersPull
  <1>2. ServerMoves /\ ServerOK' /\ UNCHANGED <<srv, lastSeq, epoch, rotationDue>>
    BY <1>1, Unserved
  <1>3. /\ UNCHANGED <<rows, saved, last, runEpoch, remerging, present>>
        /\ pc[d] = "entries" /\ page'[d] = NoPage /\ cursor'[d] = Higher(cursor[d], last[d])
        /\ \/ pc'[d] \in {"pick", "lengths"}
           \/ pc'[d] = "missing" /\ remerging[d]
    BY DEF SaveCursor, Goto, runVars, TypeOK, RunTypeOK, StoreTypeOK, PullTypeOK
  <1>4. DeviceOK(d) /\ RowsLoosen(d) /\ RunOK(d)
    BY <1>3, RowsStay DEF FeedInv, DeviceOK
  <1>5. saved[d] # NoEpoch /\ runEpoch[d] # NoEpoch
    BY <1>3, <1>4 DEF RunOK
  <1>6. RunOK(d)'
    BY <1>2, <1>3, <1>4, <1>5 DEF RunOK, FirstPage
  <1>7. BoundsOK(d)'
    <2>1. \A doc \in Docs : page'[d][doc].form = "sealed"
      BY <1>3 DEF NoPage, NoServerRow
    <2> QED BY <1>2, <1>3, <1>4, <2>1 DEF DeviceOK, BoundsOK, FirstPage
  <1>8. (Follows(d)' <=> Follows(d)) /\ (Remerges(d)' <=> Remerges(d))
    BY <1>2, <1>3 DEF Follows, Remerges, Trusts
  <1>9. CursorOK(d)'
    <2> SUFFICES ASSUME Follows(d) \/ Remerges(d)
                 PROVE  /\ cursor'[d] <= lastSeq
                        /\ \A doc \in Docs : 0 < srv[doc].seq /\ srv[doc].seq <= cursor'[d] => Settled(d, doc)'
        BY <1>2, <1>8 DEF CursorOK
    <2>1. Trusts(d)
      BY <1>3, <1>4, TrustsFollows DEF FirstPage
    <2>2. /\ cursor[d] <= last[d] /\ last[d] <= lastSeq /\ RowsOfPage(d)
          /\ \A doc \in Docs : Placed(d, doc)
      BY <1>3, <1>4, <2>1 DEF DeviceOK, PageOK, PageSteps
    <2>3. cursor[d] \in Nat /\ last[d] \in Nat /\ \A doc \in Docs : srv[doc].seq \in Nat
      BY ServerRevs DEF TypeOK, StoreTypeOK, PullTypeOK
    <2>4. cursor'[d] = last[d]
      BY <1>3, <2>2, <2>3 DEF Higher
    <2>5. ASSUME NEW doc \in Docs, 0 < srv[doc].seq, srv[doc].seq <= last[d]
          PROVE  Settled(d, doc)'
      <3>1. ~(last[d] < srv[doc].seq)
        BY <2>3, <2>5
      <3>2. ~(InPage(d, doc) /\ StillAsRead(d, doc))
        BY <2>2, <3>1 DEF RowsOfPage, StillAsRead
      <3>3. Settled(d, doc)
        BY <2>2, <2>3, <2>5, <3>1, <3>2 DEF Placed
      <3> QED BY <1>2, <1>3, <3>3 DEF Settled
    <2> QED BY <2>2, <2>4, <2>5
  <1>10. PageOK(d)'
    BY <1>3 DEF PageOK, PageSteps
  <1>11. ResultsOK(d)'
    BY <1>1, <1>3, <1>4, ResultsOutside DEF DeviceOK, Pushing
  <1>12. BaseOK(d)'
    BY <1>2, <1>3, <1>4, <1>8 DEF DeviceOK, BaseOK, Claims
  <1>13. DeviceOK(d)'
    BY <1>6, <1>7, <1>9, <1>10, <1>11, <1>12 DEF DeviceOK
  <1> QED BY <1>1, <1>2, <1>13, FeedDevice

\* A row the whole feed did not show gives its base up.
LEMMA MarkMissingLoosens ==
    ASSUME NEW r \in Row, RowInv(r)
    PROVE  /\ Loosens(r, MarkMissingRow(r))
           /\ PushBase(MarkMissingRow(r)) = NoRev
  <1>1. r.rev.gen \in Nat /\ r.synced.gen \in Nat
    BY RowFields
  <1>2. CASE r.synced = NoRev \/ NeverOnAccount(r)
    BY <1>2 DEF MarkMissingRow, Loosens, PushBase, NeverOnAccount
  <1>3. CASE ~(r.synced = NoRev \/ NeverOnAccount(r))
    <2> DEFINE q == MarkUnsynced(r)
    <2>1. MarkMissingRow(r) = q
      BY <1>3 DEF MarkMissingRow
    <2>2. q.floor = r.floor /\ q.rev = r.rev /\ q.synced = NoRev
      BY DEF MarkUnsynced, Row
    <2> HIDE DEF q
    <2>3. Exists(r)
      <3>1. SUFFICES ASSUME r.rev.gen = 0 PROVE FALSE
        BY DEF Exists
      <3>2. r.rev = NoRev
        BY <3>1 DEF RowInv
      <3> QED BY <1>1, <1>3, <3>1, <3>2 DEF RowInv, Upto
    <2>4. Exists(q)
      BY <2>2, <2>3 DEF Exists
    <2> QED BY <2>1, <2>2, <2>4 DEF Loosens, PushBase
  <1> QED BY <1>2, <1>3

LEMMA FeedMissing ==
    ASSUME TypeOK, TypeOK', GenerationsInv, GenerationsInv', FeedInv, NEW d \in Devices, MarkMissing(d)
    PROVE  FeedInv'
  <1>1. OthersStay(d) /\ UNCHANGED <<serverVars, batch, answer>>
    BY OthersPull
  <1>2. ServerMoves /\ ServerOK' /\ UNCHANGED <<srv, lastSeq, epoch, rotationDue>>
    BY <1>1, Unserved
  <1>3. /\ UNCHANGED <<cursor, saved, page, last, runEpoch, remerging, present>>
        /\ pc[d] = "missing" /\ pc'[d] = "adoptLast"
        /\ \A doc \in Docs : rows'[d][doc] = IF doc \in present[d] THEN rows[d][doc]
                                                                   ELSE MarkMissingRow(rows[d][doc])
    BY DEF MarkMissing, Goto, pageVars, runVars, TypeOK, RunTypeOK, StoreTypeOK
  <1>4. \A doc \in Docs : rows[d][doc] \in Row /\ RowInv(rows[d][doc])
    BY DEF TypeOK, StoreTypeOK, GenerationsInv, StoredInv
  <1>5. RowsLoosen(d)
    <2>1. \A r \in Row : Loosens(r, r)
      BY DEF Loosens
    <2> QED BY <1>3, <1>4, <2>1, MarkMissingLoosens DEF RowsLoosen
  <1>6. DeviceOK(d) /\ RunOK(d) /\ remerging[d]
    BY <1>3 DEF FeedInv, DeviceOK, RunOK
  <1>7. RunOK(d)'
    <2>1. \A doc \in Docs : rows'[d][doc].floor = rows[d][doc].floor
      BY <1>5 DEF RowsLoosen, Loosens
    <2> QED BY <1>2, <1>3, <1>6, <2>1 DEF RunOK, FirstPage
  <1>8. BoundsOK(d)'
    BY <1>2, <1>3, <1>6 DEF DeviceOK, BoundsOK, FirstPage
  <1>9. (Follows(d)' <=> Follows(d)) /\ (Remerges(d)' <=> Remerges(d))
    BY <1>2, <1>3 DEF Follows, Remerges, Trusts
  <1>10. CursorOK(d)'
    BY <1>2, <1>3, <1>5, <1>6, <1>9, CursorKept DEF DeviceOK
  <1>11. PageOK(d)'
    BY <1>3 DEF PageOK, PageSteps
  <1>12. ResultsOK(d)'
    BY <1>1, <1>3, <1>6, ResultsOutside DEF DeviceOK, Pushing
  <1>13. BaseOK(d)'
    <2> SUFFICES ASSUME NEW doc \in Docs
                 PROVE  /\ RowBase(rows'[d][doc])
                        /\ Claims(d, doc)' => Believes(PushBase(rows'[d][doc]), srv'[doc].rev)
        BY DEF BaseOK
    <2>1. RowBase(rows[d][doc]) /\ (Claims(d, doc) => Believes(PushBase(rows[d][doc]), srv[doc].rev))
      BY <1>6 DEF DeviceOK, BaseOK
    <2>2. CASE doc \in present[d]
      <3>1. rows'[d][doc] = rows[d][doc] /\ (Claims(d, doc)' => Claims(d, doc))
        BY <1>3, <1>9, <2>2 DEF Claims
      <3> QED BY <1>2, <2>1, <3>1
    <2>3. CASE doc \notin present[d]
      <3>1. rows'[d][doc] = MarkMissingRow(rows[d][doc]) /\ rows'[d][doc] \in Row
        BY <1>3, <2>3 DEF TypeOK, StoreTypeOK
      <3>2. PushBase(rows'[d][doc]) = NoRev
        BY <1>4, <3>1, MarkMissingLoosens
      <3>3. RowBase(rows'[d][doc])
        BY <1>4, <1>5, <2>1, <3>1, RowBaseKept DEF RowsLoosen
      <3>4. Believes(NoRev, srv[doc].rev)
        BY ServerRevs, BelievesNoRev
      <3> QED BY <1>2, <3>2, <3>3, <3>4
    <2> QED BY <2>2, <2>3
  <1>14. DeviceOK(d)'
    BY <1>7, <1>8, <1>10, <1>11, <1>12, <1>13 DEF DeviceOK
  <1> QED BY <1>1, <1>2, <1>14, FeedDevice

\* After the last page every document's base is known of.
LEMMA FeedFinish ==
    ASSUME TypeOK, TypeOK', GenerationsInv, GenerationsInv', FeedInv, NEW d \in Devices, FinishRemerge(d)
    PROVE  FeedInv'
  <1>1. OthersStay(d) /\ UNCHANGED <<serverVars, batch, answer>>
    BY OthersPull
  <1>2. ServerMoves /\ ServerOK' /\ UNCHANGED <<srv, lastSeq, epoch, rotationDue>>
    BY <1>1, Unserved
  <1>3. /\ UNCHANGED <<rows, cursor, page, last, runEpoch>>
        /\ pc[d] = "adoptLast" /\ pc'[d] = "pick" /\ saved'[d] = runEpoch[d]
    BY DEF FinishRemerge, Goto, pageVars, TypeOK, RunTypeOK, StoreTypeOK, PullTypeOK
  <1>4. ~remerging'[d]
    BY Zenon DEF FinishRemerge, TypeOK, PullTypeOK
  <1>5. DeviceOK(d) /\ RowsLoosen(d) /\ RunOK(d)
    BY <1>3, RowsStay DEF FeedInv, DeviceOK
  <1>6. remerging[d] /\ runEpoch[d] # NoEpoch
    BY <1>3, <1>5 DEF RunOK
  <1>7. RunOK(d)'
    BY <1>2, <1>3, <1>4, <1>5, <1>6 DEF RunOK, FirstPage
  <1>8. BoundsOK(d)'
    BY <1>2, <1>3, <1>5, <1>6 DEF DeviceOK, BoundsOK
  <1>9. ~Remerges(d)' /\ (Follows(d)' => Remerges(d))
    BY <1>2, <1>3, <1>4, <1>6 DEF Follows, Remerges, Trusts
  <1>10. CursorOK(d)'
    BY <1>2, <1>3, <1>5, <1>9, CursorKept DEF DeviceOK
  <1>11. PageOK(d)'
    BY <1>3 DEF PageOK, PageSteps
  <1>12. ResultsOK(d)'
    BY <1>1, <1>3, <1>5, ResultsOutside DEF DeviceOK, Pushing
  <1>13. BaseOK(d)'
    <2>1. \A doc \in Docs : Claims(d, doc)' => Claims(d, doc)
      BY <1>3, <1>9 DEF Claims
    <2> QED BY <1>2, <1>5, <2>1, BaseKept DEF DeviceOK
  <1>14. DeviceOK(d)'
    BY <1>7, <1>8, <1>10, <1>11, <1>12, <1>13 DEF DeviceOK
  <1> QED BY <1>1, <1>2, <1>14, FeedDevice

-----------------------------------------------------------------------------
(* An entry of a page *)

\* The entry done leaves the page as it should be, and lies after the cursor.
LEMMA EntryPassed ==
    ASSUME TypeOK, NEW d \in Devices, NEW doc \in Docs, PageOK(d), pc[d] = "entries", Trusts(d),
           NextEntry(d, doc), EntryDone(d, doc),
           \A o \in Docs \ {doc} : rows'[d][o] = rows[d][o],
           StillAsRead(d, doc) => Settled(d, doc)'
    PROVE  PageOK(d)' /\ ~(srv[doc].seq <= cursor[d])
  <1>1. /\ cursor[d] <= last[d] /\ last[d] <= lastSeq /\ RowsOfPage(d)
        /\ \A o \in Docs : Placed(d, o)
    BY DEF PageOK, PageSteps
  <1>2. /\ UNCHANGED <<srv, lastSeq, epoch, rotationDue, cursor, pc, runEpoch>>
        /\ last'[d] = page[d][doc].seq
        /\ \A o \in Docs : page'[d][o] = IF o = doc THEN NoServerRow ELSE page[d][o]
    BY DEF EntryDone, serverVars, TypeOK, PullTypeOK
  <1>3. /\ InPage(d, doc)
        /\ \A o \in Docs : InPage(d, o) => page[d][doc].seq <= page[d][o].seq
    BY DEF NextEntry, InPage
  <1>4. /\ cursor[d] \in Nat /\ last[d] \in Nat /\ lastSeq \in Nat /\ NoServerRow.seq = 0
        /\ \A o \in Docs : page[d][o].seq \in Nat /\ srv[o].seq \in Nat
    BY DEF TypeOK, ServerTypeOK, StoreTypeOK, PullTypeOK, ServerRow, NoServerRow
  <1>5. last[d] < page[d][doc].seq /\ page[d][doc].seq <= lastSeq
    BY <1>1, <1>3 DEF RowsOfPage
  <1>6. ~(srv[doc].seq <= cursor[d])
    <2>1. Placed(d, doc)
      BY <1>1
    <2> QED BY <1>1, <1>3, <1>4, <1>5, <2>1 DEF Placed, StillAsRead
  <1>7. RowsOfPage(d)'
    <2> SUFFICES ASSUME NEW o \in Docs, page'[d][o] # NoServerRow
                 PROVE  /\ last'[d] < page'[d][o].seq /\ page'[d][o].seq <= lastSeq
                        /\ Upto(page'[d][o].rev, srv[o].rev)
                        /\ \A other \in Docs : page'[d][other].seq = page'[d][o].seq => other = o
        BY <1>2 DEF RowsOfPage, InPage
    <2>1. o # doc /\ InPage(d, o) /\ page'[d][o] = page[d][o]
      BY <1>2 DEF InPage
    <2>2. /\ last[d] < page[d][o].seq /\ page[d][o].seq <= lastSeq
          /\ Upto(page[d][o].rev, srv[o].rev)
          /\ \A other \in Docs : page[d][other].seq = page[d][o].seq => other = o
      BY <1>1, <2>1 DEF RowsOfPage
    <2>3. page[d][doc].seq < page[d][o].seq
      BY <1>3, <1>4, <2>1, <2>2
    <2> QED BY <1>2, <1>4, <2>1, <2>2, <2>3
  <1>8. ASSUME NEW o \in Docs
        PROVE  Placed(d, o)'
    <2>1. Placed(d, o)
      BY <1>1
    <2>2. CASE o = doc /\ StillAsRead(d, doc)
      <3>1. srv[doc].seq = page[d][doc].seq
        BY <2>2 DEF StillAsRead
      <3> QED BY <1>2, <1>4, <2>2, <3>1 DEF Placed, InPage
    <2>3. CASE o # doc /\ ~InPage(d, o) /\ srv[o].seq <= last[d] /\ (srv[o].seq > 0 => Settled(d, o))
      <3>1. Settled(d, o) => Settled(d, o)'
        BY <1>2, <2>3 DEF Settled
      <3>2. srv[o].seq <= page[d][doc].seq
        BY <1>4, <1>5, <2>3
      <3> QED BY <1>2, <2>3, <3>1, <3>2 DEF Placed, InPage
    <2>4. CASE o # doc /\ InPage(d, o) /\ StillAsRead(d, o)
      BY <1>2, <2>4 DEF Placed, InPage, StillAsRead
    <2>5. CASE last[d] < srv[o].seq /\ \A other \in Docs : page[d][other].seq < srv[o].seq
      <3>1. page[d][doc].seq < srv[o].seq
        BY <2>5
      <3>2. \A other \in Docs : page'[d][other].seq < srv[o].seq
        BY <1>2, <1>4, <2>5, <3>1
      <3> QED BY <1>2, <3>1, <3>2 DEF Placed
    <2> QED BY <1>3, <2>1, <2>2, <2>3, <2>4, <2>5 DEF Placed
  <1>9. cursor[d] <= page[d][doc].seq
    BY <1>1, <1>4, <1>5
  <1>10. PageOK(d)'
    BY <1>2, <1>5, <1>7, <1>8, <1>9 DEF PageOK
  <1> QED BY <1>6, <1>10

\* What the two entry steps share.
LEMMA EntrySteps ==
    ASSUME TypeOK, FeedInv, NEW d \in Devices, NEW doc \in Docs,
           ApplyEntry(d, doc) \/ UndecryptableEntry(d, doc)
    PROVE  /\ OthersStay(d) /\ UNCHANGED <<batch, answer, cursor, saved, pc, runEpoch, remerging>>
           /\ ServerMoves /\ ServerOK' /\ UNCHANGED <<srv, lastSeq, epoch, rotationDue>>
           /\ pc[d] = "entries" /\ NextEntry(d, doc) /\ EntryDone(d, doc)
           /\ \A o \in Docs \ {doc} : rows'[d][o] = rows[d][o]
           /\ \A o \in Docs : page'[d][o] \in {page[d][o], NoServerRow}
           /\ present'[d] \subseteq present[d] \cup {doc} /\ (doc \in present'[d] => remerging[d] \/ doc \in present[d])
           /\ DeviceOK(d) /\ RunOK(d) /\ saved[d] # NoEpoch
           /\ (Follows(d)' <=> Follows(d)) /\ (Remerges(d)' <=> Remerges(d)) /\ (Trusts(d)' <=> Trusts(d))
           /\ Follows(d) \/ Remerges(d) => Trusts(d)
  <1>1. OthersStay(d) /\ UNCHANGED <<serverVars, batch, answer, cursor, saved, pc, runEpoch, remerging>>
    BY OthersEntry
  <1>2. ServerMoves /\ ServerOK' /\ UNCHANGED <<srv, lastSeq, epoch, rotationDue>>
    BY <1>1, Unserved
  <1>3. pc[d] = "entries" /\ NextEntry(d, doc) /\ EntryDone(d, doc)
    BY DEF ApplyEntry, UndecryptableEntry
  <1>4. \A o \in Docs \ {doc} : rows'[d][o] = rows[d][o]
    BY SetRowRows DEF ApplyEntry, UndecryptableEntry, EngineApply, TypeOK, StoreTypeOK
  <1>5. \A o \in Docs : page'[d][o] \in {page[d][o], NoServerRow}
    BY <1>3 DEF EntryDone, TypeOK, PullTypeOK
  <1>6. /\ present'[d] \subseteq present[d] \cup {doc}
        /\ doc \in present'[d] => remerging[d] \/ doc \in present[d]
    <2>1. present \in [Devices -> SUBSET Docs]
      BY DEF TypeOK, PullTypeOK
    <2>2. CASE ApplyEntry(d, doc)
      BY <2>1, <2>2 DEF ApplyEntry
    <2>3. CASE UndecryptableEntry(d, doc)
      BY <2>1, <2>3 DEF UndecryptableEntry
    <2> QED BY <2>2, <2>3
  <1>7. DeviceOK(d) /\ RunOK(d)
    BY DEF FeedInv, DeviceOK
  <1>8. saved[d] # NoEpoch
    BY <1>3, <1>7 DEF RunOK
  <1>9. (Follows(d)' <=> Follows(d)) /\ (Remerges(d)' <=> Remerges(d)) /\ (Trusts(d)' <=> Trusts(d))
    BY <1>1, <1>2 DEF Follows, Remerges, Trusts
  <1>10. Follows(d) \/ Remerges(d) => Trusts(d)
    BY <1>3, <1>7, TrustsFollows DEF FirstPage
  <1> QED BY <1>1, <1>2, <1>3, <1>4, <1>5, <1>6, <1>7, <1>8, <1>9, <1>10

\* An entry moves neither the cursor nor what the other documents' rows say.
LEMMA EntryKept ==
    ASSUME TypeOK, TypeOK', FeedInv, NEW d \in Devices, NEW doc \in Docs,
           ApplyEntry(d, doc) \/ UndecryptableEntry(d, doc),
           StillAsRead(d, doc) => Settled(d, doc)'
    PROVE  RunOK(d)' /\ BoundsOK(d)' /\ CursorOK(d)' /\ PageOK(d)' /\ ResultsOK(d)'
  <1>1. /\ UNCHANGED <<batch, answer, cursor, saved, pc, runEpoch, remerging>>
        /\ UNCHANGED <<srv, lastSeq, epoch, rotationDue>>
        /\ pc[d] = "entries" /\ NextEntry(d, doc) /\ EntryDone(d, doc)
        /\ \A o \in Docs \ {doc} : rows'[d][o] = rows[d][o]
        /\ \A o \in Docs : page'[d][o] \in {page[d][o], NoServerRow}
        /\ DeviceOK(d) /\ RunOK(d) /\ saved[d] # NoEpoch
    BY EntrySteps
  <1>2. /\ (Follows(d)' <=> Follows(d)) /\ (Remerges(d)' <=> Remerges(d)) /\ (Trusts(d)' <=> Trusts(d))
        /\ Follows(d) \/ Remerges(d) => Trusts(d)
    BY EntrySteps
  <1>3. RunOK(d)'
    BY <1>1 DEF RunOK, FirstPage
  <1>4. BoundsOK(d)'
    BY <1>1 DEF DeviceOK, BoundsOK, NoServerRow
  <1>5. Trusts(d) => PageOK(d)' /\ ~(srv[doc].seq <= cursor[d])
    BY <1>1, EntryPassed DEF DeviceOK
  <1>6. PageOK(d)'
    BY <1>2, <1>5 DEF PageOK
  <1>7. CursorOK(d)'
    <2>1. ASSUME NEW o \in Docs \ {doc}, Settled(d, o)
          PROVE  Settled(d, o)'
      BY <1>1, <2>1 DEF Settled
    <2> QED BY <1>1, <1>2, <1>5, <2>1 DEF DeviceOK, CursorOK
  <1>8. ResultsOK(d)'
    BY <1>1, ResultsOutside DEF DeviceOK, Pushing
  <1> QED BY <1>3, <1>4, <1>6, <1>7, <1>8

\* A row given the server's version, or one the server replaced.
LEMMA AppliedBase ==
    ASSUME TypeOK, GenerationsInv, NEW d \in Devices, NEW doc \in Docs, NEW row \in ServerRow,
           RowBase(rows[d][doc]), row.rev.gen > 0,
           NEW q, q = ApplyRemote(Kind[doc], rows[d][doc], AsVersion(row)).row
    PROVE  /\ q \in Row /\ q.synced = row.rev /\ Exists(q) /\ RowBase(q)
           /\ Upto(row.rev, srv[doc].rev) => Believes(PushBase(q), srv[doc].rev)
  <1>1. rows[d][doc] \in Row /\ RowInv(rows[d][doc])
    BY DEF TypeOK, StoreTypeOK, GenerationsInv, StoredInv
  <1>2. AsVersion(row) \in Version /\ AsVersion(row).rev = row.rev /\ row.rev \in Rev
    BY AsVersionType DEF ServerRow
  <1>3. q \in Row /\ q.synced = row.rev /\ Exists(q) /\ RowBase(q)
    BY <1>1, <1>2, ApplyRemoteType, ApplyRemoteBase
  <1>4. Believes(NoRev, srv[doc].rev)
    BY ServerRevs, BelievesNoRev
  <1> QED BY <1>2, <1>3, <1>4, PushBaseType, ServerRevs, BelievesUpto

LEMMA FeedApply ==
    ASSUME TypeOK, TypeOK', GenerationsInv, GenerationsInv', FeedInv,
           NEW d \in Devices, NEW doc \in Docs, ApplyEntry(d, doc)
    PROVE  FeedInv'
  <1> DEFINE got == page[d][doc]
             q == ApplyRemote(Kind[doc], rows[d][doc], AsVersion(got)).row
  <1>1. /\ OthersStay(d) /\ pc'[d] = pc[d]
        /\ ServerMoves /\ ServerOK' /\ UNCHANGED <<srv, lastSeq, epoch, rotationDue>>
        /\ pc[d] = "entries" /\ NextEntry(d, doc)
        /\ \A o \in Docs \ {doc} : rows'[d][o] = rows[d][o]
        /\ present'[d] \subseteq present[d] \cup {doc}
        /\ DeviceOK(d)
        /\ (Follows(d)' <=> Follows(d)) /\ (Remerges(d)' <=> Remerges(d))
        /\ Follows(d) \/ Remerges(d) => Trusts(d)
    BY EntrySteps
  <1>2. rows'[d][doc] = q
    BY SetRowRows DEF ApplyEntry, EngineApply, TypeOK, StoreTypeOK
  <1>3. got \in ServerRow /\ got.rev.gen > 0 /\ RowBase(rows[d][doc])
    <2>1. got # NoServerRow
      BY <1>1 DEF NextEntry
    <2> QED BY <1>1, <2>1 DEF TypeOK, PullTypeOK, GenerationsInv, StoredInv, ServerRowInv, DeviceOK, BaseOK
  <1>4. /\ q.synced = got.rev /\ RowBase(q)
        /\ Upto(got.rev, srv[doc].rev) => Believes(PushBase(q), srv[doc].rev)
    BY <1>3, AppliedBase
  <1> HIDE DEF q
  <1>5. StillAsRead(d, doc) => Settled(d, doc)'
    BY <1>1, <1>2, <1>4 DEF StillAsRead, Settled
  <1>6. RunOK(d)' /\ BoundsOK(d)' /\ CursorOK(d)' /\ PageOK(d)' /\ ResultsOK(d)'
    BY <1>5, EntryKept
  <1>7. BaseOK(d)'
    <2> SUFFICES ASSUME NEW o \in Docs
                 PROVE  /\ RowBase(rows'[d][o])
                        /\ Claims(d, o)' => Believes(PushBase(rows'[d][o]), srv'[o].rev)
        BY DEF BaseOK
    <2>1. CASE o = doc
      <3>1. Claims(d, doc)' => Trusts(d)
        BY <1>1 DEF Claims
      <3>2. Trusts(d) => Upto(got.rev, srv[doc].rev)
        BY <1>1 DEF DeviceOK, PageOK, PageSteps, RowsOfPage, InPage, NextEntry
      <3> QED BY <1>1, <1>2, <1>4, <2>1, <3>1, <3>2
    <2>2. CASE o # doc
      <3>1. Claims(d, o)' => Claims(d, o)
        BY <1>1, <2>2 DEF Claims
      <3>2. rows'[d][o] = rows[d][o] /\ srv' = srv
        BY <1>1, <2>2
      <3> QED BY <1>1, <3>1, <3>2 DEF DeviceOK, BaseOK
    <2> QED BY <2>1, <2>2
  <1>8. DeviceOK(d)'
    BY <1>6, <1>7 DEF DeviceOK
  <1> QED BY <1>1, <1>8, FeedDevice

LEMMA BumpLoosens ==
    ASSUME NEW r \in Row
    PROVE  Loosens(r, BumpRevision(r))
  <1>1. LET q == BumpRevision(r)
        IN  q.floor = r.floor /\ q.synced = r.synced /\ q.rev.gen = r.rev.gen + 1
    BY DEF BumpRevision, Rebased, Row
  <1> QED BY <1>1, RowFields DEF Loosens, Exists

LEMMA FeedUndecryptable ==
    ASSUME TypeOK, TypeOK', GenerationsInv, GenerationsInv', FeedInv,
           NEW d \in Devices, NEW doc \in Docs, UndecryptableEntry(d, doc)
    PROVE  FeedInv'
  <1> DEFINE got == page[d][doc]
  <1>1. /\ OthersStay(d) /\ pc'[d] = pc[d]
        /\ ServerMoves /\ ServerOK' /\ UNCHANGED <<srv, lastSeq, epoch, rotationDue>>
        /\ pc[d] = "entries" /\ NextEntry(d, doc)
        /\ \A o \in Docs \ {doc} : rows'[d][o] = rows[d][o]
        /\ present'[d] \subseteq present[d] \cup {doc} /\ (doc \in present'[d] => remerging[d] \/ doc \in present[d])
        /\ DeviceOK(d)
        /\ (Follows(d)' <=> Follows(d)) /\ (Remerges(d)' <=> Remerges(d))
        /\ Follows(d) \/ Remerges(d) => Trusts(d)
    BY EntrySteps
  <1>2. RowsLoosen(d) /\ got.form = "broken"
    <2>1. rows' = rows \/ SetRow(d, doc, BumpRevision(rows[d][doc]))
      BY DEF UndecryptableEntry
    <2>2. rows'[d][doc] \in {rows[d][doc], BumpRevision(rows[d][doc])}
      <3>1. CASE rows' = rows
        BY <3>1
      <3> DEFINE bumped == BumpRevision(rows[d][doc])
      <3>2. CASE SetRow(d, doc, bumped)
        <4> HIDE DEF bumped
        <4>1. rows \in [Devices -> [Docs -> Row]]
          BY DEF TypeOK, StoreTypeOK
        <4>2. rows'[d][doc] = bumped
          BY <3>2, <4>1, SetRowRows
        <4> QED BY <4>2 DEF bumped
      <3> QED BY <2>1, <3>1, <3>2
    <2>3. rows[d][doc] \in Row
      BY DEF TypeOK, StoreTypeOK
    <2> QED BY <1>1, <2>2, <2>3, BumpLoosens DEF RowsLoosen, Loosens, UndecryptableEntry
  <1>3. StillAsRead(d, doc) => Settled(d, doc)'
    BY <1>1, <1>2 DEF StillAsRead, Settled
  <1>4. RunOK(d)' /\ BoundsOK(d)' /\ CursorOK(d)' /\ PageOK(d)' /\ ResultsOK(d)'
    BY <1>3, EntryKept
  <1>5. BaseOK(d)'
    <2> SUFFICES ASSUME NEW o \in Docs
                 PROVE  /\ RowBase(rows'[d][o])
                        /\ Claims(d, o)' => Believes(PushBase(rows'[d][o]), srv'[o].rev)
        BY DEF BaseOK
    <2>1. rows[d][o] \in Row /\ rows'[d][o] \in Row
      BY DEF TypeOK, StoreTypeOK
    <2>2. RowBase(rows[d][o]) /\ (Claims(d, o) => Believes(PushBase(rows[d][o]), srv[o].rev))
      BY <1>1 DEF DeviceOK, BaseOK
    <2>3. RowBase(rows'[d][o]) /\ PushBase(rows'[d][o]) \in {PushBase(rows[d][o]), NoRev}
      BY <1>2, <2>1, <2>2, RowBaseKept DEF RowsLoosen
    <2>4. Believes(NoRev, srv[o].rev) /\ srv' = srv
      BY <1>1, ServerRevs, BelievesNoRev
    <2>5. CASE Claims(d, o) \/ ~Claims(d, o)'
      BY <2>2, <2>3, <2>4, <2>5
    \* The re-merge passes a damaged row: the account has the document.
    <2>6. CASE Claims(d, o)' /\ ~Claims(d, o)
      <3>1. o = doc /\ remerging[d] /\ Trusts(d)
        BY <1>1, <2>6 DEF Claims
      <3>2. MaxRestores # 0 /\ MaxDamage # 0
        BY <1>1, <1>2, <3>1 DEF DeviceOK, BoundsOK
      <3>3. srv[doc].rev # NoRev
        <4>1. got \in ServerRow /\ got # NoServerRow /\ got.rev.gen > 0
          BY <1>1 DEF NextEntry, TypeOK, PullTypeOK, GenerationsInv, StoredInv, ServerRowInv
        <4>2. Upto(got.rev, srv[doc].rev)
          BY <1>1, <3>1, <4>1 DEF DeviceOK, PageOK, PageSteps, RowsOfPage, InPage
        <4>3. got.rev \in Rev /\ srv[doc].rev \in Rev
          BY <4>1, ServerRevs DEF ServerRow
        <4> QED BY <4>1, <4>2, <4>3, UptoTypes
      <3> QED BY <2>3, <2>4, <3>1, <3>2, <3>3 DEF Believes
    <2> QED BY <2>5, <2>6
  <1>6. DeviceOK(d)'
    BY <1>4, <1>5 DEF DeviceOK
  <1> QED BY <1>1, <1>6, FeedDevice

-----------------------------------------------------------------------------
(* The push *)

LEMMA FeedPick ==
    ASSUME TypeOK, TypeOK', GenerationsInv, GenerationsInv', FeedInv, NEW d \in Devices, PickPending(d)
    PROVE  FeedInv'
  <1>1. OthersStay(d) /\ UNCHANGED <<serverVars, cursor, saved, page, last, runEpoch, remerging, present>>
    BY OthersPush DEF PickPending
  <1>2. ServerMoves /\ ServerOK' /\ UNCHANGED <<srv, lastSeq, epoch, rotationDue>>
    BY <1>1, Unserved
  <1>3. /\ UNCHANGED <<rows, answer>> /\ pc[d] = "pick" /\ pc'[d] = "send"
        /\ batch'[d] = [doc \in Docs |-> IF ToPush(d, doc) THEN PushOf(rows[d][doc]) ELSE NoPush]
    BY DEF PickPending, Goto, storeVars, TypeOK, RunTypeOK, PushTypeOK
  <1>4. DeviceOK(d) /\ RunOK(d) /\ RowsLoosen(d)
    BY <1>3, RowsStay DEF FeedInv, DeviceOK
  <1>5. runEpoch[d] # NoEpoch /\ saved[d] # NoEpoch
    BY <1>3, <1>4 DEF RunOK
  <1>6. RunOK(d)'
    BY <1>1, <1>2, <1>3, <1>4, <1>5 DEF RunOK, FirstPage
  <1>7. BoundsOK(d)'
    BY <1>1, <1>2, <1>3, <1>4 DEF DeviceOK, BoundsOK, FirstPage
  <1>8. (Follows(d)' <=> Follows(d)) /\ (Remerges(d)' <=> Remerges(d))
    BY <1>1, <1>2 DEF Follows, Remerges, Trusts
  <1>9. CursorOK(d)'
    BY <1>1, <1>2, <1>4, <1>8, CursorKept DEF DeviceOK
  <1>10. PageOK(d)'
    BY <1>3 DEF PageOK, PageSteps
  <1>11. ResultsOK(d)'
    <2>1. \A doc \in Docs : answer'[d][doc].status = "none"
      BY <1>3 DEF GenerationsInv, AnswersInv
    <2>2. \A doc \in Docs : batch'[d][doc] # NoPush => Exists(rows'[d][doc])
      BY <1>3 DEF ToPush, Pending
    <2> QED BY <1>3, <2>1, <2>2 DEF ResultsOK
  <1>12. BaseOK(d)'
    BY <1>1, <1>2, <1>3, <1>4, <1>8 DEF DeviceOK, BaseOK, Claims
  <1>13. DeviceOK(d)'
    BY <1>6, <1>7, <1>9, <1>10, <1>11, <1>12 DEF DeviceOK
  <1> QED BY <1>1, <1>2, <1>13, FeedDevice

LEMMA FeedSend ==
    ASSUME TypeOK, TypeOK', GenerationsInv, GenerationsInv', FeedInv, NEW d \in Devices, SendPush(d)
    PROVE  FeedInv'
  <1>1. OthersStay(d) /\ UNCHANGED <<serverVars, cursor, saved, page, last, runEpoch, remerging, present>>
    BY OthersPush DEF SendPush
  <1>2. ServerMoves /\ ServerOK' /\ UNCHANGED <<srv, lastSeq, epoch, rotationDue>>
    BY <1>1, Unserved
  <1>3. /\ UNCHANGED <<batch, answer>> /\ pc[d] = "send" /\ pc'[d] = "wait"
        /\ \A doc \in Docs : rows'[d][doc] = IF doc \in Pushed(batch[d])
                                               THEN MarkSent(rows[d][doc], batch[d][doc].rev)
                                               ELSE rows[d][doc]
    BY DEF SendPush, Goto, pushVars, TypeOK, StoreTypeOK, RunTypeOK
  <1>4. RowsLoosen(d)
    <2>1. ASSUME NEW r \in Row, NEW rev
          PROVE  Loosens(r, r) /\ Loosens(r, MarkSent(r, rev))
      BY DEF Loosens, MarkSent, Row, Exists
    <2>2. \A doc \in Docs : rows[d][doc] \in Row
      BY DEF TypeOK, StoreTypeOK
    <2> QED BY <1>3, <2>1, <2>2 DEF RowsLoosen
  <1>5. DeviceOK(d) /\ RunOK(d)
    BY DEF FeedInv, DeviceOK
  <1>6. runEpoch[d] # NoEpoch /\ saved[d] # NoEpoch
    BY <1>3, <1>5 DEF RunOK
  <1>7. RunOK(d)'
    BY <1>1, <1>2, <1>3, <1>5, <1>6 DEF RunOK, FirstPage
  <1>8. BoundsOK(d)'
    BY <1>1, <1>2, <1>3, <1>5 DEF DeviceOK, BoundsOK, FirstPage
  <1>9. (Follows(d)' <=> Follows(d)) /\ (Remerges(d)' <=> Remerges(d))
    BY <1>1, <1>2 DEF Follows, Remerges, Trusts
  <1>10. CursorOK(d)'
    BY <1>1, <1>2, <1>4, <1>5, <1>9, CursorKept DEF DeviceOK
  <1>11. PageOK(d)'
    BY <1>3 DEF PageOK, PageSteps
  <1>12. ResultsOK(d)'
    BY <1>1, <1>2, <1>3, <1>4, <1>5, ResultsKept DEF DeviceOK, RowsLoosen, Loosens, Pushing
  <1>13. BaseOK(d)'
    <2>1. \A doc \in Docs : Claims(d, doc)' => Claims(d, doc)
      BY <1>1, <1>3, <1>9 DEF Claims
    <2> QED BY <1>2, <1>4, <1>5, <2>1, BaseKept DEF DeviceOK
  <1>14. DeviceOK(d)'
    BY <1>7, <1>8, <1>10, <1>11, <1>12, <1>13 DEF DeviceOK
  <1> QED BY <1>1, <1>2, <1>14, FeedDevice

\* An answer speaks of the server as the push left it.
LEMMA FeedAnswers ==
    ASSUME TypeOK, TypeOK', GenerationsInv, GenerationsInv', FeedInv, NEW d \in Devices, ServerAnswers(d)
    PROVE  FeedInv'
  <1>1. OthersStay(d) /\ UNCHANGED <<cursor, saved, page, last, runEpoch, remerging, present>>
    BY OthersPush
  <1>2. /\ UNCHANGED <<rows, batch>> /\ pc[d] = "wait" /\ pc'[d] = "results"
        /\ AcceptPush(batch[d], d)
    BY DEF ServerAnswers, Goto, storeVars, TypeOK, RunTypeOK
  <1>3. batch[d] \in [Docs -> Push] /\ \A doc \in Docs : PushInv(batch[d][doc])
    BY DEF TypeOK, PushTypeOK, GenerationsInv, PushesInv
  <1>4. /\ ServerMoves /\ ServerOK'
        /\ \A doc \in Docs : \/ srv'[doc] = srv[doc]
                             \/ doc \in Accepts(batch[d]) /\ srv'[doc].rev = batch[d][doc].rev
        /\ \A doc \in Accepts(batch[d]) : srv'[doc].rev = batch[d][doc].rev
    BY <1>2, <1>3, AcceptPushMoves DEF FeedInv
  <1>5. PICK behind : answer' = [answer EXCEPT ![d] = [doc \in Docs |->
                         IF doc \in Pushed(batch[d])
                           THEN [status |-> StatusOf(doc, Accepts(batch[d]), behind), row |-> srv[doc]]
                           ELSE NoAnswer]]
    BY DEF ServerAnswers
  <1>6. \A doc \in Docs :
          /\ doc \notin Pushed(batch[d]) => answer'[d][doc].status = "none"
          /\ doc \in Pushed(batch[d]) =>
               /\ answer'[d][doc].status = StatusOf(doc, Accepts(batch[d]), behind)
               /\ answer'[d][doc].row = srv[doc]
    <2> DEFINE status(doc) == StatusOf(doc, Accepts(batch[d]), behind)
    <2> HIDE DEF status
    <2>1. answer'[d] = [doc \in Docs |-> IF doc \in Pushed(batch[d])
                                           THEN [status |-> status(doc), row |-> srv[doc]] ELSE NoAnswer]
      BY <1>5 DEF status, TypeOK, PushTypeOK
    <2>2. \A doc \in Docs : answer'[d][doc] = IF doc \in Pushed(batch[d])
                                           THEN [status |-> status(doc), row |-> srv[doc]] ELSE NoAnswer
      BY <2>1
    <2>3. \A doc \in Docs :
            /\ doc \notin Pushed(batch[d]) => answer'[d][doc].status = "none"
            /\ doc \in Pushed(batch[d]) => answer'[d][doc].status = status(doc) /\ answer'[d][doc].row = srv[doc]
      <3> SUFFICES ASSUME NEW doc \in Docs
                   PROVE  /\ doc \notin Pushed(batch[d]) => answer'[d][doc].status = "none"
                          /\ doc \in Pushed(batch[d]) => /\ answer'[d][doc].status = status(doc)
                                                         /\ answer'[d][doc].row = srv[doc]
          OBVIOUS
      <3>1. CASE doc \in Pushed(batch[d])
        <4>1. answer'[d][doc] = [status |-> status(doc), row |-> srv[doc]]
          BY <2>2, <3>1
        <4> QED BY <3>1, <4>1
      <3>2. CASE doc \notin Pushed(batch[d])
        <4>1. answer'[d][doc] = NoAnswer
          BY <2>2, <3>2
        <4> QED BY <3>2, <4>1 DEF NoAnswer
      <3> QED BY <3>1, <3>2
    <2> QED BY <2>3 DEF status
  <1>7. DeviceOK(d) /\ RunOK(d) /\ RowsLoosen(d)
    BY <1>2, RowsStay DEF FeedInv, DeviceOK
  <1>8. runEpoch[d] # NoEpoch /\ saved[d] # NoEpoch
    BY <1>2, <1>7 DEF RunOK
  <1>9. RunOK(d)'
    BY <1>1, <1>2, <1>4, <1>7, <1>8 DEF RunOK, FirstPage, ServerMoves
  <1>10. BoundsOK(d)'
    BY <1>1, <1>2, <1>4, <1>7 DEF DeviceOK, BoundsOK, FirstPage, ServerMoves
  <1>11. (Follows(d)' <=> Follows(d)) /\ (Remerges(d)' <=> Remerges(d))
    BY <1>1, <1>4 DEF Follows, Remerges, Trusts, ServerMoves
  <1>12. CursorOK(d)'
    BY <1>1, <1>4, <1>7, <1>11, CursorKept DEF DeviceOK
  <1>13. PageOK(d)'
    BY <1>2 DEF PageOK, PageSteps
  <1>14. ResultsOK(d)'
    <2> SUFFICES ASSUME NEW doc \in Docs
                 PROVE  /\ batch[d][doc] # NoPush => Exists(rows[d][doc])
                        /\ answer'[d][doc].status # "none" => batch[d][doc] # NoPush
                        /\ answer'[d][doc].status = "conflict" => ReadOfServer(d, doc, answer[d][doc].row.rev)'
                        /\ answer'[d][doc].status = "ok" => ReadOfServer(d, doc, batch[d][doc].rev)'
        BY <1>2 DEF ResultsOK
    <2>1. batch[d][doc] # NoPush => Exists(rows[d][doc])
      BY <1>2, <1>7 DEF DeviceOK, ResultsOK, Pushing
    <2>2. CASE doc \notin Pushed(batch[d])
      <3>1. answer'[d][doc].status = "none"
        BY <1>6, <2>2
      <3> QED BY <2>1, <3>1
    <2>3. CASE doc \in Accepts(batch[d])
      <3>1. doc \in Pushed(batch[d]) /\ batch[d][doc] # NoPush
        BY <2>3 DEF Accepts, Pushed
      <3>2. answer'[d][doc].status = "ok"
        BY <1>6, <2>3, <3>1 DEF StatusOf
      <3>3. ReadOfServer(d, doc, batch[d][doc].rev)'
        BY <1>2, <1>4, <2>3 DEF ReadOfServer, Upto
      <3> QED BY <2>1, <3>1, <3>2, <3>3
    <2>4. CASE doc \in Pushed(batch[d]) /\ doc \notin Accepts(batch[d])
      <3>1. batch[d][doc] # NoPush /\ srv'[doc] = srv[doc]
        BY <1>4, <2>4 DEF Pushed
      <3>2. answer'[d][doc].status # "ok" /\ answer'[d][doc].row = srv[doc]
        <4>1. srv[doc].form \in {"sealed", "broken", "newer"}
          BY DEF TypeOK, ServerTypeOK, ServerRow, Forms
        <4>2. StatusOf(doc, Accepts(batch[d]), behind) # "ok"
          BY <2>4, <4>1 DEF StatusOf
        <4> QED BY <1>6, <2>4, <4>2
      <3>3. ReadOfServer(d, doc, answer[d][doc].row.rev)'
        BY <3>1, <3>2 DEF ReadOfServer, Upto
      <3> QED BY <2>1, <3>1, <3>2, <3>3
    <2> QED BY <2>2, <2>3, <2>4
  <1>15. BaseOK(d)'
    <2>1. \A doc \in Docs : Claims(d, doc)' => Claims(d, doc)
      BY <1>1, <1>2, <1>11 DEF Claims
    <2> QED BY <1>4, <1>7, <2>1, BaseKept DEF DeviceOK
  <1>16. DeviceOK(d)'
    BY <1>9, <1>10, <1>12, <1>13, <1>14, <1>15 DEF DeviceOK
  <1> QED BY <1>1, <1>4, <1>16, FeedDevice

LEMMA FeedEndRound ==
    ASSUME TypeOK, TypeOK', GenerationsInv, GenerationsInv', FeedInv, NEW d \in Devices, EndRound(d)
    PROVE  FeedInv'
  <1>1. OthersStay(d) /\ UNCHANGED <<serverVars, cursor, saved, page, last, runEpoch, remerging, present>>
    BY OthersPush DEF EndRound
  <1>2. ServerMoves /\ ServerOK' /\ UNCHANGED <<srv, lastSeq, epoch, rotationDue>>
    BY <1>1, Unserved
  <1>3. /\ UNCHANGED <<rows, answer>> /\ pc[d] = "results" /\ pc'[d] \in {"lengths", "pick"}
        /\ answer[d] = NoAnswers
    BY DEF EndRound, Goto, storeVars, TypeOK, RunTypeOK
  <1>4. DeviceOK(d) /\ RunOK(d) /\ RowsLoosen(d)
    BY <1>3, RowsStay DEF FeedInv, DeviceOK
  <1>5. runEpoch[d] # NoEpoch /\ saved[d] # NoEpoch
    BY <1>3, <1>4 DEF RunOK
  <1>6. RunOK(d)'
    BY <1>1, <1>2, <1>3, <1>4, <1>5 DEF RunOK, FirstPage
  <1>7. BoundsOK(d)'
    BY <1>1, <1>2, <1>3, <1>4 DEF DeviceOK, BoundsOK, FirstPage
  <1>8. (Follows(d)' <=> Follows(d)) /\ (Remerges(d)' <=> Remerges(d))
    BY <1>1, <1>2 DEF Follows, Remerges, Trusts
  <1>9. CursorOK(d)'
    BY <1>1, <1>2, <1>4, <1>8, CursorKept DEF DeviceOK
  <1>10. PageOK(d)'
    BY <1>3 DEF PageOK, PageSteps
  <1>11. ResultsOK(d)'
    <2>1. pc'[d] \notin Pushing /\ pc'[d] # "results"
      BY <1>3 DEF Pushing
    <2>2. \A doc \in Docs : answer'[d][doc].status = "none"
      BY <1>3 DEF NoAnswers, NoAnswer
    <2> QED BY <2>1, <2>2 DEF ResultsOK
  <1>12. BaseOK(d)'
    BY <1>1, <1>2, <1>3, <1>4, <1>8 DEF DeviceOK, BaseOK, Claims
  <1>13. DeviceOK(d)'
    BY <1>6, <1>7, <1>9, <1>10, <1>11, <1>12 DEF DeviceOK
  <1> QED BY <1>1, <1>2, <1>13, FeedDevice

\* A result makes the row's claims weaker, or claims what the server said.
LEMMA ResultRow ==
    ASSUME TypeOK, TypeOK', GenerationsInv, FeedInv, NEW d \in Devices, NEW doc \in Docs, AnyResult(d, doc)
    PROVE  /\ \A o \in Docs \ {doc} : rows'[d][o] = rows[d][o]
           /\ Exists(rows[d][doc]) => Exists(rows'[d][doc])
           /\ \/ Loosens(rows[d][doc], rows'[d][doc])
              \/ \E rev \in Rev : /\ rows'[d][doc].synced = rev /\ RowBase(rows'[d][doc])
                                  /\ Trusts(d) => ReadOfServer(d, doc, rev)
  <1> DEFINE r == rows[d][doc]
             q == rows'[d][doc]
             Known == \E rev \in Rev : /\ q.synced = rev /\ RowBase(q)
                                       /\ Trusts(d) => ReadOfServer(d, doc, rev)
  <1>1. r \in Row /\ q \in Row
    BY DEF TypeOK, StoreTypeOK
  <1>2. ResultsOK(d) /\ BaseOK(d) /\ pc[d] = "results"
    BY OthersResult DEF FeedInv, DeviceOK
  <1>3. answer[d][doc].status # "none" => Exists(r) /\ batch[d][doc] # NoPush
    BY <1>2 DEF ResultsOK, Pushing
  <1>4. ASSUME NEW row, SetRow(d, doc, row)
        PROVE  q = row /\ \A o \in Docs \ {doc} : rows'[d][o] = rows[d][o]
    BY <1>4, SetRowRows DEF TypeOK, StoreTypeOK
  <1>5. Loosens(r, r)
    BY DEF Loosens
  <1> SUFFICES /\ \A o \in Docs \ {doc} : rows'[d][o] = rows[d][o]
               /\ Exists(r) => Exists(q)
               /\ Loosens(r, q) \/ Known
      OBVIOUS
  <1>6. CASE ResultOk(d, doc)
    <2> DEFINE push == batch[d][doc]
    <2>1. answer[d][doc].status = "ok" /\ SetRow(d, doc, Learned(r, push.rev))
      BY <1>6 DEF ResultOk, Result
    <2>2. push \in Push /\ push # NoPush /\ PushInv(push)
      BY <1>3, <2>1 DEF TypeOK, PushTypeOK, GenerationsInv, PushesInv
    <2>3. push.rev \in Rev /\ push.rev.gen > 0
      BY <2>2 DEF Push, Rev, PushInv
    <2> HIDE DEF push
    <2> DEFINE own == Learned(r, push.rev)
    <2>4. own.synced = push.rev /\ own.rev = r.rev /\ own.floor >= push.rev.gen /\ own.floor \in Nat
      <3>1. own.synced = push.rev /\ own.rev = r.rev
        BY <1>1 DEF Learned, Row
      <3> QED BY <1>1, <2>3, <3>1, LearnedFloor
    <2> HIDE DEF own
    <2>5. q = own /\ \A o \in Docs \ {doc} : rows'[d][o] = rows[d][o]
      BY <1>4, <2>1 DEF own
    <2>6. RowBase(q)
      BY <2>3, <2>4, <2>5 DEF RowBase, Rev
    <2>7. Trusts(d) => ReadOfServer(d, doc, push.rev)
      BY <1>2, <2>1 DEF ResultsOK, push
    <2>8. Exists(r) => Exists(q)
      BY <2>4, <2>5 DEF Exists
    <2> QED BY <2>3, <2>4, <2>5, <2>6, <2>7, <2>8
  <1>7. CASE ResultConflict(d, doc)
    <2> DEFINE row == answer[d][doc].row
               own == ApplyRemote(Kind[doc], r, AsVersion(row)).row
    <2>1. answer[d][doc].status = "conflict" /\ SetRow(d, doc, own)
      BY <1>7 DEF ResultConflict, Result, EngineApply
    <2>2. row \in ServerRow /\ row.rev \in Rev /\ row.rev.gen > 0
      BY <2>1 DEF TypeOK, PushTypeOK, Answer, ServerRow, GenerationsInv, AnswersInv
    <2>3. RowBase(r)
      BY <1>2 DEF BaseOK
    <2>4. own.synced = row.rev /\ Exists(own) /\ RowBase(own)
      BY <2>2, <2>3, AppliedBase
    <2>5. Trusts(d) => ReadOfServer(d, doc, row.rev)
      BY <1>2, <2>1 DEF ResultsOK
    <2> HIDE DEF own, row
    <2>6. q = own /\ \A o \in Docs \ {doc} : rows'[d][o] = rows[d][o]
      BY <1>4, <2>1
    <2> QED BY <2>2, <2>4, <2>5, <2>6
  <1>8. CASE ResultLost(d, doc)
    <2> DEFINE own == MarkUnsynced(r)
    <2>1. answer[d][doc].status = "lost" /\ SetRow(d, doc, own)
      BY <1>8 DEF ResultLost, Result
    <2>2. own.floor = r.floor /\ own.rev = r.rev /\ own.synced = NoRev
      BY <1>1 DEF MarkUnsynced, Row
    <2> HIDE DEF own
    <2>3. q = own /\ \A o \in Docs \ {doc} : rows'[d][o] = rows[d][o]
      BY <1>4, <2>1
    <2>4. Exists(r)
      BY <1>3, <2>1
    <2> QED BY <2>2, <2>3, <2>4 DEF Loosens, Exists
  <1>9. CASE ResultBroken(d, doc)
    <2> DEFINE own == BumpRevision(r)
    <2>1. rows' = rows \/ SetRow(d, doc, own)
      BY <1>9 DEF ResultBroken
    <2>2. Loosens(r, own)
      BY <1>1, BumpLoosens
    <2> HIDE DEF own
    <2>3. (q = own \/ q = r) /\ \A o \in Docs \ {doc} : rows'[d][o] = rows[d][o]
      BY <1>4, <2>1
    <2> QED BY <1>5, <2>2, <2>3 DEF Loosens
  <1>10. CASE ResultBehind(d, doc) \/ ResultNewer(d, doc)
    <2>1. rows' = rows
      BY <1>10 DEF ResultBehind, ResultNewer
    <2> QED BY <1>5, <2>1
  <1> QED BY <1>6, <1>7, <1>8, <1>9, <1>10 DEF AnyResult

LEMMA FeedResult ==
    ASSUME TypeOK, TypeOK', GenerationsInv, GenerationsInv', FeedInv,
           NEW d \in Devices, NEW doc \in Docs, AnyResult(d, doc)
    PROVE  FeedInv'
  <1>1. /\ OthersStay(d)
        /\ UNCHANGED <<serverVars, cursor, saved, pc, page, last, runEpoch, remerging, present, batch>>
        /\ pc[d] = "results"
        /\ \A o \in Docs : answer'[d][o] \in {answer[d][o], NoAnswer}
    BY OthersResult
  <1>2. ServerMoves /\ ServerOK' /\ UNCHANGED <<srv, lastSeq, epoch, rotationDue>>
    BY <1>1, Unserved
  <1>3. DeviceOK(d) /\ RunOK(d)
    BY DEF FeedInv, DeviceOK
  <1>4. /\ \A o \in Docs \ {doc} : rows'[d][o] = rows[d][o]
        /\ Exists(rows[d][doc]) => Exists(rows'[d][doc])
        /\ \/ Loosens(rows[d][doc], rows'[d][doc])
           \/ \E rev \in Rev : /\ rows'[d][doc].synced = rev /\ RowBase(rows'[d][doc])
                               /\ Trusts(d) => ReadOfServer(d, doc, rev)
    BY ResultRow
  <1>5. saved[d] # NoEpoch /\ runEpoch[d] # NoEpoch
    BY <1>1, <1>3 DEF RunOK
  <1>6. RunOK(d)'
    BY <1>1, <1>2, <1>3, <1>5 DEF RunOK, FirstPage
  <1>7. BoundsOK(d)'
    BY <1>1, <1>2, <1>3 DEF DeviceOK, BoundsOK, FirstPage
  <1>8. /\ (Follows(d)' <=> Follows(d)) /\ (Remerges(d)' <=> Remerges(d))
        /\ Follows(d) \/ Remerges(d) => Trusts(d)
    BY <1>1, <1>2, <1>3, TrustsFollows DEF Follows, Remerges, Trusts, FirstPage
  <1>9. CursorOK(d)'
    <2> SUFFICES ASSUME Follows(d) \/ Remerges(d), NEW o \in Docs,
                        0 < srv[o].seq, srv[o].seq <= cursor[d]
                 PROVE  Settled(d, o)'
      <3>1. Follows(d) \/ Remerges(d) => cursor'[d] <= lastSeq'
        BY <1>1, <1>2, <1>3 DEF DeviceOK, CursorOK
      <3> QED BY <1>1, <1>2, <1>8, <3>1 DEF CursorOK
    <2>1. Settled(d, o)
      BY <1>3 DEF DeviceOK, CursorOK
    <2>2. CASE o # doc
      BY <1>2, <1>4, <2>1, <2>2 DEF Settled
    <2>3. CASE o = doc /\ Loosens(rows[d][doc], rows'[d][doc])
      BY <1>2, <2>1, <2>3, SettledKept
    <2>4. CASE o = doc /\ ~Loosens(rows[d][doc], rows'[d][doc])
      <3>1. ReadOfServer(d, doc, rows'[d][doc].synced)
        BY <1>4, <1>8, <2>4
      <3>2. ~(cursor[d] < srv[doc].seq)
        <4>1. cursor[d] \in Nat /\ srv[doc].seq \in Nat
          BY ServerRevs DEF TypeOK, StoreTypeOK
        <4> QED BY <2>4, <4>1
      <3> QED BY <1>2, <2>4, <3>1, <3>2 DEF ReadOfServer, Settled
    <2> QED BY <2>2, <2>3, <2>4
  <1>10. PageOK(d)'
    BY <1>1 DEF PageOK, PageSteps
  <1>11. ResultsOK(d)'
    <2>1. \A o \in Docs : Exists(rows[d][o]) => Exists(rows'[d][o])
      BY <1>4
    <2> QED BY <1>1, <1>2, <1>3, <2>1, ResultsKept DEF DeviceOK
  <1>12. BaseOK(d)'
    <2> SUFFICES ASSUME NEW o \in Docs
                 PROVE  /\ RowBase(rows'[d][o])
                        /\ Claims(d, o)' => Believes(PushBase(rows'[d][o]), srv'[o].rev)
        BY DEF BaseOK
    <2>1. RowBase(rows[d][o]) /\ (Claims(d, o) => Believes(PushBase(rows[d][o]), srv[o].rev))
      BY <1>3 DEF DeviceOK, BaseOK
    <2>2. Claims(d, o)' => Claims(d, o) /\ Trusts(d)
      BY <1>1, <1>8 DEF Claims
    <2>3. rows[d][o] \in Row /\ rows'[d][o] \in Row
      BY DEF TypeOK, StoreTypeOK
    <2>4. Believes(NoRev, srv[o].rev)
      BY ServerRevs, BelievesNoRev
    <2>5. CASE o # doc
      <3>1. rows'[d][o] = rows[d][o]
        BY <1>4, <2>5
      <3> QED BY <1>2, <2>1, <2>2, <3>1
    <2>6. CASE o = doc /\ Loosens(rows[d][doc], rows'[d][doc])
      <3>1. RowBase(rows'[d][o]) /\ PushBase(rows'[d][o]) \in {PushBase(rows[d][o]), NoRev}
        BY <2>1, <2>3, <2>6, RowBaseKept
      <3> QED BY <1>2, <2>1, <2>2, <2>4, <3>1
    <2>7. CASE o = doc /\ ~Loosens(rows[d][doc], rows'[d][doc])
      <3>1. PICK rev \in Rev : /\ rows'[d][doc].synced = rev /\ RowBase(rows'[d][doc])
                               /\ Trusts(d) => ReadOfServer(d, doc, rev)
        BY <1>4, <2>7
      <3>2. Trusts(d) => Believes(rev, srv[doc].rev)
        BY <3>1, ServerRevs, BelievesUpto DEF ReadOfServer
      <3>3. PushBase(rows'[d][doc]) \in {NoRev, rev}
        BY <2>3, <2>7, <3>1, PushBaseType
      <3> QED BY <1>2, <2>2, <2>4, <2>7, <3>1, <3>2, <3>3
    <2> QED BY <2>5, <2>6, <2>7
  <1>13. DeviceOK(d)'
    BY <1>6, <1>7, <1>9, <1>10, <1>11, <1>12 DEF DeviceOK
  <1> QED BY <1>1, <1>2, <1>13, FeedDevice

-----------------------------------------------------------------------------
(* The specification *)

LEMMA FeedInit == Init => FeedInv
  <1> SUFFICES ASSUME Init PROVE FeedInv
      OBVIOUS
  <1>1. ServerOK
    <2>1. \A doc \in Docs : srv[doc] = NoServerRow /\ backup.srv[doc] = NoServerRow
      BY DEF Init, ServerInit, EmptyBackup
    <2>2. lastSeq = 0 /\ backup.lastSeq = 0 /\ ~rotationDue
      BY DEF Init, ServerInit, EmptyBackup
    <2> QED BY <2>1, <2>2 DEF ServerOK, FeedOK, NoServerRow
  <1>2. ASSUME NEW d \in Devices
        PROVE  DeviceOK(d)
    <2>1. /\ cursor[d] = 0 /\ saved[d] = NoEpoch /\ runEpoch[d] = NoEpoch /\ pc[d] = "idle"
          /\ page[d] = NoPage /\ batch[d] = NoBatch /\ answer[d] = NoAnswers
          /\ \A doc \in Docs : rows[d][doc] = NoRow
      BY DEF Init, Each
    <2>2. remerging[d] = FALSE /\ epoch = 1 /\ NoEpoch = 0
      BY DEF Init, Each, ServerInit, NoEpoch
    <2>3. RunOK(d)
      BY <2>1, <2>2 DEF RunOK, FirstPage, NoRow
    <2>4. BoundsOK(d)
      BY <2>1, <2>2 DEF BoundsOK, FirstPage, NoPage, NoServerRow
    <2>5. ~Follows(d) /\ ~Remerges(d)
      BY <2>1, <2>2 DEF Follows, Remerges
    <2>6. CursorOK(d) /\ PageOK(d)
      BY <2>1, <2>5 DEF CursorOK, PageOK, PageSteps
    <2>7. ResultsOK(d)
      BY <2>1 DEF ResultsOK, Pushing, NoAnswers, NoAnswer
    <2>8. BaseOK(d)
      BY <2>1, <2>5 DEF BaseOK, Claims, RowBase, NoRow
    <2> QED BY <2>3, <2>4, <2>6, <2>7, <2>8 DEF DeviceOK
  <1> QED BY <1>1, <1>2 DEF FeedInv

LEMMA FeedStep ==
    TypeOK /\ TypeOK' /\ GenerationsInv /\ GenerationsInv' /\ FeedInv /\ [Next]_vars => FeedInv'
  <1> SUFFICES ASSUME TypeOK, TypeOK', GenerationsInv, GenerationsInv', FeedInv, [Next]_vars
               PROVE  FeedInv'
      OBVIOUS
  <1>1. CASE \E d \in Devices, doc \in Docs : Write(d, doc) \/ Delete(d, doc)
    BY <1>1, FeedWrite
  <1>2. CASE \E d \in Devices : BindAdd(d) \/ BindReplace(d)
    BY <1>2, FeedBind
  <1>3. ASSUME NEW d \in Devices, Engine(d)
        PROVE  FeedInv'
    <2>1. CASE ReadLengths(d) \/ ReadRows(d) \/ AdoptEpoch(d) \/ RewindCursor(d) \/ MarkRemerging(d)
      BY <2>1, FeedReadLengths, FeedReadRows, FeedAdopt, FeedRewind, FeedMark
    <2>2. CASE \E doc \in Docs : ApplyEntry(d, doc) \/ UndecryptableEntry(d, doc)
      BY <2>2, FeedApply, FeedUndecryptable
    <2>3. CASE SaveCursor(d) \/ MarkMissing(d) \/ FinishRemerge(d)
      BY <2>3, FeedSaveCursor, FeedMissing, FeedFinish
    <2>4. CASE PickPending(d) \/ SendPush(d) \/ ServerAnswers(d) \/ EndRound(d)
      BY <2>4, FeedPick, FeedSend, FeedAnswers, FeedEndRound
    <2>5. CASE \E doc \in Docs : AnyResult(d, doc)
      BY <2>5, FeedResult
    <2>6. CASE PageRefused(d) \/ FinishSync(d)
      BY <2>6, FeedEnd DEF PageRefused, FinishSync
    <2> QED BY <1>3, <2>1, <2>2, <2>3, <2>4, <2>5, <2>6 DEF Engine, AnyResult
  <1>4. ASSUME NEW d \in Devices, Interrupt(d) \/ RunLate(d)
        PROVE  FeedInv'
    BY <1>4, FeedEnd, FeedLate DEF Interrupt
  <1>5. CASE TakeBackup \/ RestoreServer \/ RotateServerEpoch
    BY <1>5, FeedBackup, FeedRestore
  <1>6. CASE \E doc \in Docs : DamageRow(doc) \/ NewerAppWrites(doc)
    BY <1>6, FeedDamage
  <1>7. CASE UNCHANGED vars
    <2>1. UNCHANGED serverVars /\ DevicesUnchanged
      BY <1>7 DEF vars, DevicesUnchanged
    <2> QED BY <2>1, Unserved, FeedMoves
  <1> QED BY <1>1, <1>2, <1>3, <1>4, <1>5, <1>6, <1>7 DEF Next

\* The cursor, the page, the results and the bases of every device agree with
\* the account's rows in every reachable state, whatever restores, damage,
\* interrupts and late requests come between a sync's steps.
THEOREM FeedCorrect == Spec => []FeedInv
    BY TypeInit, TypeStep, GenerationsInit, GenerationsKept, FeedInit, FeedStep, PTL DEF Spec

LEMMA FeedCaughtUp == TypeOK /\ GenerationsInv /\ FeedInv => CaughtUpAgrees
  <1> SUFFICES ASSUME TypeOK, GenerationsInv, FeedInv, NEW d \in Devices, Follows(d),
                      cursor[d] = lastSeq, NEW doc \in Docs
               PROVE  \/ rows[d][doc].rev = srv[doc].rev
                      \/ Pending(rows[d][doc])
                      \/ srv[doc].rev = NoRev /\ NeverOnAccount(rows[d][doc])
                      \/ srv[doc].form = "broken"
      BY DEF CaughtUpAgrees, Follows
  <1> DEFINE r == rows[d][doc]
  <1>1. r \in Row /\ RowInv(r) /\ RowBase(r) /\ CursorOK(d) /\ BaseOK(d)
    BY DEF TypeOK, StoreTypeOK, GenerationsInv, StoredInv, FeedInv, DeviceOK, BaseOK
  <1>2. r.rev.gen \in Nat /\ r.synced \in Rev /\ r.rev \in Rev
    BY <1>1, RowFields
  <1>3. ~Exists(r) => r.rev = NoRev /\ r.synced = NoRev
    BY <1>1, <1>2, UptoTypes DEF Exists, RowInv
  <1>4. CASE srv[doc].seq # 0
    <2>1. 0 < srv[doc].seq /\ srv[doc].seq <= cursor[d]
      BY <1>4, ServerRevs DEF FeedInv, ServerOK, FeedOK
    <2>2. Settled(d, doc)
      BY <1>1, <2>1 DEF CursorOK
    <2> QED BY <1>2, <1>3, <2>2, NoRevType DEF Settled, Pending, Exists
  <1>5. CASE srv[doc].seq = 0
    <2>1. srv[doc].rev = NoRev
      BY <1>5, NoServerRowRev DEF FeedInv, ServerOK, FeedOK
    <2>2. PushBase(r) = NoRev
      <3>1. Believes(PushBase(r), NoRev)
        BY <1>1, <2>1 DEF BaseOK, Claims
      <3> QED BY <1>1, <3>1, PushBaseType, NoRevType, UptoTypes DEF Believes
    <2>3. r.synced = NoRev \/ (r.floor = 0 /\ r.synced.hash = Tomb)
      BY <1>1, <2>2 DEF PushBase, RowBase
    <2> QED BY <1>2, <1>3, <2>1, <2>3 DEF Pending, NeverOnAccount, Deleted
  <1> QED BY <1>4, <1>5

LEMMA FeedSynced ==
    ASSUME MaxRestores = 0 \/ MaxDamage = 0, FeedInv
    PROVE  SyncedIsOnServer
  <1> SUFFICES ASSUME NEW d \in Devices, Follows(d), NEW doc \in Docs
               PROVE  LET base == PushBase(rows[d][doc])
                      IN  base = srv[doc].rev \/ base.gen < srv[doc].rev.gen
      BY DEF SyncedIsOnServer, Follows
  <1>1. Believes(PushBase(rows[d][doc]), srv[doc].rev)
    BY DEF FeedInv, DeviceOK, BaseOK, Claims
  <1> QED BY <1>1 DEF Believes, Upto

\* A document the server does not have is pending, with no base, on every
\* device that has the account's epoch and the document (docs/ACCOUNTS.md, M1).
LostIsPushedAgain ==
    \A d \in Devices : saved[d] = epoch /\ ~rotationDue =>
      \A doc \in Docs : srv[doc].rev = NoRev =>
        /\ PushBase(rows[d][doc]) = NoRev
        /\ Live(rows[d][doc]) => Pending(rows[d][doc])

LEMMA FeedLost == TypeOK /\ FeedInv => LostIsPushedAgain
  <1> SUFFICES ASSUME TypeOK, FeedInv, NEW d \in Devices, Follows(d), NEW doc \in Docs, srv[doc].rev = NoRev
               PROVE  /\ PushBase(rows[d][doc]) = NoRev
                      /\ Live(rows[d][doc]) => Pending(rows[d][doc])
      BY DEF LostIsPushedAgain, Follows
  <1> DEFINE r == rows[d][doc]
  <1>1. r \in Row /\ RowBase(r) /\ Believes(PushBase(r), NoRev)
    BY DEF TypeOK, StoreTypeOK, FeedInv, DeviceOK, BaseOK, Claims
  <1>2. PushBase(r) = NoRev
    BY <1>1, PushBaseType, NoRevType, UptoTypes DEF Believes
  <1>3. Live(r) => Pending(r)
    <2>1. r.synced = NoRev \/ r.synced.hash = Tomb
      BY <1>1, <1>2 DEF PushBase, RowBase
    <2>2. Live(r) => r.rev.hash # Tomb /\ r.rev # NoRev
      BY <1>1, RowFields, NoRevType DEF Live, Exists, Deleted
    <2> QED BY <2>1, <2>2 DEF Live, Pending
  <1> QED BY <1>2, <1>3

\* Between two syncs, a device whose cursor is at the account's head has every
\* document as the server has it, or pending: no page, read in two transactions
\* while others push, makes the cursor pass a version the device did not get.
THEOREM CaughtUpIsTrue == Spec => []CaughtUpAgrees
    BY TypeCorrect, GenerationsCorrect, FeedCorrect, FeedCaughtUp, PTL

\* A device that has the account's epoch pushes every document on a base the
\* server has, or has replaced by a higher generation.  The re-merge passes a
\* damaged row over (engine.rs, Run::pull), and keeps the base it had of it: so
\* not where a row is damaged and a restore puts it back.
THEOREM SyncedIsTrue ==
    ASSUME MaxRestores = 0 \/ MaxDamage = 0
    PROVE  Spec => []SyncedIsOnServer
    BY FeedCorrect, FeedSynced, PTL

\* What is left of it with both: what the server lost is pushed again, as new,
\* by every device that still has it.
THEOREM LostComesBack == Spec => []LostIsPushedAgain
    BY TypeCorrect, FeedCorrect, FeedLost, PTL
=============================================================================
