---------------------------- MODULE MCAccountSync ----------------------------
EXTENDS AccountSyncProperties, TLC

CONSTANTS KindOfDocs \* of each document that is not called after its own kind

MCKind == [doc \in Docs |-> IF doc \in Kinds THEN doc ELSE KindOfDocs]

\* Bound: a behaviour writes one of the instance's documents, whichever.
OneDocument == Cardinality({doc \in Docs : \E d \in Devices : Exists(rows[d][doc])}) <= 1

\* Bound: a fourth write only where lines are merged and no loop was closed,
\* and no deletion of what two devices make apart.
WritesOfKind ==
    \A doc \in Docs : (\E d \in Devices : Exists(rows[d][doc])) =>
      /\ edits = 4 => /\ Kind[doc] = "daily"
                      /\ \A d \in Devices : Live(rows[d][doc]) => rows[d][doc].rev.hash.facts = {}
      /\ Kind[doc] \in {"daily", "role"} => deletes = 0

\* Bound: a third write and no second clock value, interruption or late
\* request where a library of another account joins, two writes elsewhere.
ClocksOrBindings ==
    \/ edits <= 2 /\ binds = 0
    \/ /\ interrupts = 0
       /\ \A d \in Devices, doc \in Docs :
            Live(rows[d][doc]) => rows[d][doc].rev.hash.at = 1

\* Bound: one write where the server is restored, three where it is not.
WritesOrRestore == backups + restores = 0 \/ (edits <= 1 /\ deletes = 0)

\* Bound: one document, a third write after the rotation and no other fault
\* where the server is restored, two documents elsewhere.
PagesOrRestore ==
    \/ restores = 0 /\ edits <= 2
    \/ /\ OneDocument /\ interrupts + behinds + damages = 0
       /\ edits + deletes <= 3 /\ (edits = 3 => epoch = 2)

\* A write commutes with every step but its device's own that use the row's
\* revision: it may as well come right before one of those, and a write of
\* a newer app right before a request.
WriteAtUse ==
    edits' # edits => \E d \in Devices :
      \/ rows'[d] # rows[d] /\ pc[d] \in {"entries", "missing", "pick", "results"}
      \/ rows' = rows /\ pc[d] \in {"lengths", "wait"}

\* Devices differ in nothing but their name, and documents of one kind neither.
Symmetric == Permutations(Devices)
SymmetricDocs == Permutations(Devices) \cup Permutations(Docs)
=============================================================================
