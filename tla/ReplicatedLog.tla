--------------------------- MODULE ReplicatedLog ----------------------------
(***************************************************************************)
(* What a shared note promises its members, whatever rooms, sockets,       *)
(* snapshots and epochs do: one log, and on every device the text of a     *)
(* beginning of it, plus what was written there and is not in the log yet. *)
(* A late entry, written under an epoch that had ended, may be in a text   *)
(* or not.                                                                 *)
(***************************************************************************)
EXTENDS Integers, Sequences

CONSTANTS Members, Ids

VARIABLES log,   \* the update at each position, 0 for what changes no text
          late,  \* the late positions
          at,    \* how far each device has read
          text   \* the updates each device's text holds

vars == <<log, late, at, text>>

Updates(seqs) == {log[seq] : seq \in seqs} \ {0}

Init ==
    /\ log = <<>> /\ late = {}
    /\ at = [m \in Members |-> 0]
    /\ text = [m \in Members |-> {}]

Write(m) ==
    /\ \E id \in Ids :
        /\ \A n \in Members : id \notin text[n]
        /\ text' = [text EXCEPT ![m] = @ \cup {id}]
    /\ UNCHANGED <<log, late, at>>

\* The log only grows, and a late entry stays late.
Store ==
    /\ \E x \in Ids \cup {0} : log' = Append(log, x)
    /\ late' \in {late, late \cup {Len(log) + 1}}
    /\ UNCHANGED <<at, text>>

EndEpoch ==
    /\ late' \in SUBSET (1..Len(log)) /\ late \subseteq late'
    /\ UNCHANGED <<log, at, text>>

\* Everything up to k, nothing past it, of late entries any.
Read(m) ==
    /\ \E k \in at[m]..Len(log) :
        LET upTo == 1..k IN
        \E some \in SUBSET Updates(upTo \cap late) :
            /\ at' = [at EXCEPT ![m] = k]
            /\ text' = [text EXCEPT ![m] =
                          @ \cup Updates(((at[m] + 1)..k) \ late) \cup some]
    /\ UNCHANGED <<log, late>>

\* The note starts again from the log, or ends on this device.
Restart(m) ==
    /\ at' = [at EXCEPT ![m] = 0]
    /\ text' = [text EXCEPT ![m] = {}]
    /\ UNCHANGED <<log, late>>

Next ==
    \/ Store \/ EndEpoch
    \/ \E m \in Members : Write(m) \/ Read(m) \/ Restart(m)

Spec == Init /\ [][Next]_vars
=============================================================================
