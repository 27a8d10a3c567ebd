------------------------------ MODULE Revisions ------------------------------
(***************************************************************************)
(* Document revisions (kanso-core/src/rev.rs): a generation and the hash   *)
(* of a content.  Hashing is injective here, so a revision carries the     *)
(* content itself in place of its hash.                                    *)
(*                                                                         *)
(* Every local write has a number, its edit.  A content keeps, of a note,  *)
(* what the sync rules tell apart:                                         *)
(*   body   the pieces of text (lines, strokes, template) it holds, each   *)
(*          named by the edit that wrote it;                               *)
(*   at     its updatedAt, which a write may keep (an API merge, a tag     *)
(*          removed from the note) and which two clocks may disagree about;*)
(*   facts  the facts that only grow: closed loops, acknowledged           *)
(*          reminders, flashcard answers.                                  *)
(***************************************************************************)
EXTENDS Integers

CONSTANTS MaxEdits, \* bound: how many local writes a behaviour holds
          MaxTime   \* bound: the values updatedAt takes are 1..MaxTime

ASSUME BoundsAssumption == MaxEdits \in Nat /\ MaxTime \in Nat \ {0}

Edits == 1..MaxEdits
Times == 1..MaxTime

Content == [body : SUBSET Edits, at : Times, facts : SUBSET Edits]

\* The one content of every deletion: {"deleted": true}, hashed like any other.
Tomb == [body |-> {}, at |-> 0, facts |-> {}]

Rev == [gen : Nat, hash : Content \cup {Tomb}]

\* NULL in a column that holds a revision.
NoRev == [gen |-> 0, hash |-> Tomb]

Higher(a, b) == IF a >= b THEN a ELSE b

\* Rev::next: one generation above the previous revision, 1 for the first.
NextRev(previous, content) == [gen |-> previous.gen + 1, hash |-> content]

\* The same content one generation above `above`.
Rebased(rev, above) == [gen |-> above + 1, hash |-> rev.hash]
=============================================================================
