---------------------------- MODULE AccountServer ----------------------------
(***************************************************************************)
(* One account on the sync server (cloud/src/sync.ts, and the restore of   *)
(* cloud/src/accounts.ts): a row per document, the account's last_seq and  *)
(* its epoch.  The server sees sealed versions: it compares revisions for  *)
(* equality and knows nothing of generations.                              *)
(***************************************************************************)
EXTENDS StoreRows, FiniteSets

CONSTANTS Docs,    \* document IDs
          Devices, \* the account's devices
          Nobody   \* the author of no document

ASSUME DocsAssumption == IsFiniteSet(Docs) /\ Nobody \notin Devices

(* sealed    opens with the account's key                                  *)
(* broken    damaged: does not open                                        *)
(* newer     a format this version of the app cannot read                  *)
Forms == {"sealed", "broken", "newer"}

(* A row of account_docs.  `by` and `seen` are history variables: the      *)
(* device that pushed the version and the edits it takes into account.     *)
ServerRow == [rev : Rev, seq : Nat, form : Forms,
              by : Devices \cup {Nobody}, seen : SUBSET Edits]

NoServerRow == [rev |-> NoRev, seq |-> 0, form |-> "sealed", by |-> Nobody, seen |-> {}]

(* A document of a push: `base` is base_rev.  NoPush: it is not in the push. *)
Push == [rev : Rev, base : Rev, seen : SUBSET Edits]
NoPush == [rev |-> NoRev, base |-> NoRev, seen |-> {}]

VARIABLES srv,         \* the account's row of each document
          lastSeq,     \* accounts.last_seq
          epoch,       \* accounts.epoch, counted
          rotationDue, \* a restore ran and its epoch rotation has not
          backup       \* the state D1 time travel can return to

serverVars == <<srv, lastSeq, epoch, rotationDue, backup>>

ServerTypeOK ==
    /\ srv \in [Docs -> ServerRow]
    /\ lastSeq \in Nat
    /\ epoch \in Nat \ {0}
    /\ rotationDue \in BOOLEAN
    /\ backup \in [srv : [Docs -> ServerRow], lastSeq : Nat]

EmptyBackup == [srv |-> [doc \in Docs |-> NoServerRow], lastSeq |-> 0]

ServerInit ==
    /\ srv = EmptyBackup.srv
    /\ lastSeq = 0
    /\ epoch = 1
    /\ rotationDue = FALSE
    /\ backup = EmptyBackup

Pushed(push) == {doc \in Docs : push[doc] # NoPush}

\* Mutant: the base isn't compared.
AcceptsAll(push) == Pushed(push)

\* ACCEPT: no base and no row, or the base is the row's revision.  NoRev
\* stands for both kinds of nothing.
Accepts(push) == {doc \in Pushed(push) : srv[doc].rev = push[doc].base}

\* Accepted documents take the account's next sequence numbers, in the
\* order of the request.
Orders(S) == {order \in [S -> 1..Cardinality(S)] :
                \A a, b \in S : order[a] = order[b] => a = b}

\* One push request, in one D1 transaction.
AcceptPush(push, author) ==
    LET accepted == Accepts(push)
    IN  \E order \in Orders(accepted) :
          /\ srv' = [doc \in Docs |->
                       IF doc \in accepted
                         THEN [rev  |-> push[doc].rev, seq |-> lastSeq + order[doc],
                               form |-> "sealed", by |-> author, seen |-> push[doc].seen]
                         ELSE srv[doc]]
          /\ lastSeq' = lastSeq + Cardinality(accepted)
          /\ UNCHANGED <<epoch, rotationDue, backup>>

\* A push of an app whose sealed format this version cannot read.
PushNewerFormat(doc, content, edit) ==
    /\ srv' = [srv EXCEPT ![doc] =
                 [rev  |-> NextRev(srv[doc].rev, content), seq |-> lastSeq + 1,
                  form |-> "newer", by |-> Nobody, seen |-> srv[doc].seen \cup {edit}]]
    /\ lastSeq' = lastSeq + 1
    /\ UNCHANGED <<epoch, rotationDue, backup>>

\* The stored text of a document is damaged.
Damage(doc) ==
    /\ srv[doc].rev # NoRev
    /\ srv[doc].form = "sealed"
    /\ srv' = [srv EXCEPT ![doc].form = "broken"]
    /\ UNCHANGED <<lastSeq, epoch, rotationDue, backup>>

\* The point a restore may return to.
Backup ==
    /\ backup' = [srv |-> srv, lastSeq |-> lastSeq]
    /\ UNCHANGED <<srv, lastSeq, epoch, rotationDue>>

\* `admin restore`: time travel, and the epochs in a second statement.
Restore ==
    /\ srv' = backup.srv
    /\ lastSeq' = backup.lastSeq
    /\ rotationDue' = TRUE
    /\ UNCHANGED <<epoch, backup>>

RotateEpoch ==
    /\ rotationDue
    /\ epoch' = epoch + 1
    /\ rotationDue' = FALSE
    /\ UNCHANGED <<srv, lastSeq, backup>>

-----------------------------------------------------------------------------
(* GET /v2/changes reads the page's sequence numbers first, then its rows, *)
(* in another transaction.                                                 *)

After(since) == {srv[doc].seq : doc \in {d \in Docs : srv[d].seq > since}}

FirstSeqs(since, limit) ==
    {s \in After(since) : Cardinality({t \in After(since) : t <= s}) <= limit}

\* The second read: the rows between, and none for the others.
RowsBetween(since, upto) ==
    [doc \in Docs |-> IF since < srv[doc].seq /\ srv[doc].seq <= upto
                        THEN srv[doc] ELSE NoServerRow]
=============================================================================
