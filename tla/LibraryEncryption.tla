-------------------------- MODULE LibraryEncryption --------------------------
(***************************************************************************)
(* Turning a plain library into an encrypted one, as every launch does     *)
(* (kanso-sync/src/library_key.rs over kanso-store/src/encrypt.rs): the    *)
(* files beside the library, the key in the system's keychain, and a       *)
(* program that may stop between any two of its steps.                     *)
(***************************************************************************)
EXTENDS Integers

CONSTANTS MaxEdits, MaxFaults  \* bounds

ASSUME BoundsAssumption == MaxEdits \in Nat /\ MaxFaults \in Nat

(* A file: what it is, the newest edit it holds, and its key.  A library   *)
(* is whole or "partial": cut short, or a copy that came out wrong.        *)
File == [kind : {"none", "plain", "sealed", "partial"}, v : Nat, key : Nat]
NoFile == [kind |-> "none", v |-> 0, key |-> 0]
Partial == [NoFile EXCEPT !.kind = "partial"]
Plain(v) == [kind |-> "plain", v |-> v, key |-> 0]
Sealed(v, key) == [kind |-> "sealed", v |-> v, key |-> key]

VARIABLES
    db, copy, safety,  \* the library, <db>.enc and <db>.plain
    same,              \* <db>.plain is another name of the library's file
    log,               \* <db>-wal, when a program that stopped left it
    marker,            \* <db>.encrypting
    keyName,           \* <db>.keyid
    kept, keys,        \* the keys the keychain holds, and those ever made
    at, key, then,     \* the program: its step, its key, what it does next
    links,             \* the disk can make hard links
    edits, lost, faults  \* edits made; the key of a library whose conversion
                         \* is over was lost; counter of a bound

files == <<db, copy, safety, same, log, marker>>
secrets == <<keyName, kept, keys>>
program == <<at, key, then>>
history == <<links, edits, lost, faults>>
vars == <<files, secrets, program, history>>

Steps == {"closed", "name", "recover", "convert", "export", "verify", "swap", "copying", "rename",
          "confirm", "clean", "back", "abandon", "putback", "unmark", "create", "make", "open"}

\* The steps that write with the key.
Keyed == {"name", "create", "make", "convert", "export", "verify", "swap", "copying", "rename"}

TypeOK ==
    /\ db \in File /\ copy \in File /\ safety \in File /\ log \in File
    /\ marker \in {"none", "exporting", "ready", "cleanup"}
    /\ same \in BOOLEAN /\ links \in BOOLEAN /\ lost \in BOOLEAN
    /\ keys \in Nat /\ kept \subseteq 1..keys /\ keyName \in 0..keys /\ key \in 0..keys
    /\ at \in Steps /\ then \in {"reopen", "encrypt", "open", "plain"}
    /\ at \in Keyed => key # 0
    /\ edits \in Nat /\ faults \in 0..MaxFaults

\* A library made before encryption, or none yet.
Init ==
    /\ db \in {NoFile, Plain(1)} /\ edits = db.v
    /\ copy = NoFile /\ safety = NoFile /\ log = NoFile /\ same = FALSE
    /\ marker = "none"
    /\ keyName = 0 /\ kept = {} /\ keys = 0
    /\ at = "closed" /\ key = 0 /\ then = "reopen"
    /\ links \in BOOLEAN
    /\ lost = FALSE /\ faults = 0

-----------------------------------------------------------------------------
(* What the files say *)

\* encryption_unfinished
Unfinished == marker \in {"exporting", "ready"}

\* The library opens, its log replayed into it.
Readable == log.kind = "none" \/ (log.kind = db.kind /\ log.key = db.key)
Newest == IF log.kind = "none" THEN db.v ELSE log.v

\* verify: the copy opens with the key and holds what the plain library does.
\* Mutant: it opens.
OpensWith(plain, sealed, k) == sealed.kind \in {"sealed", "partial"}

Verified(plain, sealed, k) == sealed = Sealed(plain.v, k) /\ plain.kind = "plain"

\* drop_second_name: only a file of its own is overwritten.
\* Mutant: the file is, whatever else it is called.
Overwritten == safety' = NoFile /\ same' = FALSE /\ db' = IF same THEN Partial ELSE db

Dropped == safety' = NoFile /\ same' = FALSE /\ db' = db

GoTo(step) == at' = step /\ UNCHANGED <<key, then>>
Close == at' = "closed" /\ key' = 0 /\ then' = "reopen"
Fault == faults < MaxFaults /\ faults' = faults + 1 /\ UNCHANGED <<links, edits, lost>>
Works == UNCHANGED history

-----------------------------------------------------------------------------
(* Opening a library *)

Known == IF keyName \in kept THEN keyName ELSE 0
NewKey == keys' = keys + 1 /\ kept' = kept \cup {keys + 1} /\ key' = keys + 1 /\ UNCHANGED keyName

\* Mutant: what a conversion left is looked at as any library.
AsAnyLibrary ==
    /\ at = "closed"
    /\ at' = "recover" /\ key' = Known /\ then' = IF db.kind = "plain" THEN "encrypt" ELSE "open"
    /\ (db.kind = "plain") => Known # 0
    /\ UNCHANGED <<files, secrets, history>>

\* open_library, finish_encryption, encrypt_existing, key_for_encrypting.
\* A new key is kept and read back before anything else is written.
Launch ==
    /\ at = "closed"
    /\ CASE Unfinished ->
              /\ at' = "recover" /\ key' = Known
              /\ then' = IF Known = 0 THEN "reopen" ELSE "encrypt"
              /\ UNCHANGED secrets
         [] ~Unfinished /\ db.kind = "plain" /\ Known = 0 ->
              at' = "name" /\ NewKey /\ UNCHANGED then
         [] ~Unfinished /\ db.kind = "plain" /\ Known # 0 ->
              at' = "recover" /\ key' = Known /\ then' = "encrypt" /\ UNCHANGED secrets
         [] ~Unfinished /\ db.kind = "none" /\ Known = 0 ->
              at' = "create" /\ NewKey /\ UNCHANGED then
         [] ~Unfinished /\ db.kind = "none" /\ Known # 0 ->
              at' = "make" /\ key' = Known /\ UNCHANGED <<then, secrets>>
         [] OTHER ->
              at' = "recover" /\ key' = Known /\ then' = "open" /\ UNCHANGED secrets
    /\ UNCHANGED <<files, history>>

\* The keychain keeps no key: the library opens plain, or is made plain.
LaunchWithoutKeychain ==
    /\ at = "closed" /\ ~Unfinished /\ db.kind \in {"none", "plain"} /\ Known = 0
    /\ Readable
    /\ Fault
    /\ db' = [db EXCEPT !.kind = "plain"]
    /\ GoTo("open")
    /\ UNCHANGED <<copy, safety, same, log, marker, secrets>>

\* The key's name, written before the library is touched.
WriteKeyName ==
    /\ at \in {"name", "create"}
    /\ keyName' = key
    /\ at' = IF at = "name" THEN "recover" ELSE "make"
    /\ then' = "encrypt"
    /\ UNCHANGED <<files, kept, keys, key>> /\ Works

MakeLibrary ==
    /\ at = "make"
    /\ db' = Sealed(0, key)
    /\ GoTo("open")
    /\ UNCHANGED <<copy, safety, same, log, marker, secrets>> /\ Works

-----------------------------------------------------------------------------
(* recover *)

Open == IF then \in {"open", "encrypt"} /\ key = db.key /\ key # 0 /\ Readable
        THEN GoTo("open") ELSE Close

\* Mutant: a copy that was being made is taken for the checked one.
ResumesAny == copy.kind # "none"

Resumes == key # 0 /\ marker = "ready" /\ Verified(db, copy, key)

Recover ==
    /\ at = "recover"
    /\ CASE marker = "none" ->
              /\ copy' = NoFile /\ UNCHANGED <<db, safety, same, marker>>
              /\ IF db.kind = "plain" THEN GoTo("convert") ELSE Open
         [] Unfinished /\ db.kind = "plain" ->
              UNCHANGED <<db, copy, safety, same, marker>> /\ GoTo(IF Resumes THEN "swap" ELSE "abandon")
         [] marker = "ready" /\ db.kind = "sealed" ->
              UNCHANGED <<db, copy, safety, same, marker>> /\ GoTo("confirm")
         [] marker = "cleanup" /\ db.kind = "sealed" /\ key # 0 ->
              UNCHANGED <<db, copy, safety, same, marker>> /\ GoTo("clean")
         [] marker = "cleanup" /\ db.kind = "sealed" /\ key = 0 /\ safety.kind = "plain" ->
              db' = NoFile /\ UNCHANGED <<copy, safety, same, marker>> /\ GoTo("putback")
         [] marker = "cleanup" /\ db.kind = "sealed" /\ key = 0 /\ safety.kind # "plain" ->
              UNCHANGED <<db, copy, safety, same, marker>> /\ Close
         [] OTHER ->  \* stuck: the library opens plain
              /\ UNCHANGED <<db, copy, safety, same, marker>>
              /\ IF Readable THEN GoTo("open") ELSE Close
    /\ UNCHANGED <<log, secrets>> /\ Works

\* put_plain_back_without_key: the encrypted library was put aside.
PutPlainBack ==
    /\ at = "putback"
    /\ db' = safety /\ safety' = NoFile /\ copy' = NoFile
    /\ at' = "unmark" /\ then' = "reopen"
    /\ UNCHANGED <<same, log, marker, key, secrets>> /\ Works

\* abandon: the library stays plain.  The second name may not go.
Abandon ==
    /\ at = "abandon"
    /\ copy' = NoFile
    /\ \/ Dropped /\ Works
       \/ safety.kind # "none" /\ Fault /\ UNCHANGED <<db, safety, same>>
    /\ GoTo("unmark")
    /\ UNCHANGED <<log, marker, secrets>>

\* The marker goes last.
Unmark ==
    /\ at = "unmark"
    /\ marker' = "none"
    /\ CASE then = "reopen" -> Close
         [] then # "reopen" /\ db.kind = "sealed" -> GoTo("open")
         [] then = "encrypt" /\ db.kind = "plain" -> GoTo("convert")
         [] OTHER -> GoTo("open")
    /\ UNCHANGED <<db, copy, safety, same, log, secrets>> /\ Works

-----------------------------------------------------------------------------
(* convert *)

\* An own file under the second name is in the way, and the library opens
\* plain; another name of the library goes.  The log goes into the library.
Convert ==
    /\ at = "convert"
    /\ IF (safety.kind # "none" /\ ~same) \/ ~Readable
       THEN /\ UNCHANGED files
            /\ IF Readable THEN GoTo("open") ELSE Close
       ELSE /\ db' = [db EXCEPT !.v = Newest] /\ log' = NoFile
            /\ safety' = NoFile /\ same' = FALSE
            /\ copy' = Partial /\ marker' = "exporting"
            /\ at' = "export" /\ then' = "plain" /\ UNCHANGED key
    /\ UNCHANGED secrets /\ Works

\* The copy is written; it may come out wrong.
Export ==
    /\ at = "export"
    /\ \/ copy' = Sealed(db.v, key) /\ Works
       \/ copy' = Partial /\ Fault
    /\ GoTo("verify")
    /\ UNCHANGED <<db, safety, same, log, marker, secrets>>

ExportFails ==
    /\ at = "export"
    /\ Fault /\ GoTo("abandon")
    /\ UNCHANGED <<files, secrets>>

Verify ==
    /\ at = "verify"
    /\ IF Verified(db, copy, key) THEN marker' = "ready" /\ GoTo("swap")
                                  ELSE UNCHANGED marker /\ GoTo("abandon")
    /\ UNCHANGED <<db, copy, safety, same, log, secrets>> /\ Works

\* finish_swap: a second name a crash left is made again; without hard links
\* it is a copy, in part at first.
KeepPlain ==
    /\ at = "swap" /\ log = NoFile
    /\ IF links THEN safety' = db /\ same' = TRUE /\ GoTo("rename")
                ELSE safety' = Partial /\ same' = FALSE /\ GoTo("copying")
    /\ UNCHANGED <<db, copy, log, marker, secrets>> /\ Works

CopyPlain ==
    /\ at = "copying"
    /\ safety' = db
    /\ GoTo("rename")
    /\ UNCHANGED <<db, copy, same, log, marker, secrets>> /\ Works

Swap ==
    /\ at = "rename"
    /\ db' = copy /\ copy' = NoFile /\ same' = FALSE
    /\ GoTo("confirm")
    /\ UNCHANGED <<safety, log, marker, secrets>> /\ Works

\* confirm_and_clean: the library that took the place is compared again; one
\* that does not match, or has no key, is swapped back.
Confirm ==
    /\ at = "confirm"
    /\ \/ /\ Verified(safety, db, key) /\ Works
          /\ marker' = "cleanup" /\ GoTo("clean")
       \/ /\ IF Verified(safety, db, key) THEN Fault ELSE Works
          /\ UNCHANGED marker
          /\ at' = "back" /\ then' = IF then = "reopen" THEN "reopen" ELSE "plain"
          /\ UNCHANGED key
    /\ UNCHANGED <<db, copy, safety, same, log, secrets>>

SwapBack ==
    /\ at = "back"
    /\ db' = safety /\ safety' = NoFile
    /\ GoTo("unmark")
    /\ UNCHANGED <<copy, same, log, marker, secrets>> /\ Works

\* clean_up: the plaintext goes, or is tried again at the next launch.
\* Mutant: the marker goes all the same.
ForgetsPlain ==
    /\ at = "clean"
    /\ copy' = NoFile
    /\ \/ Dropped /\ Works
       \/ safety.kind # "none" /\ Fault /\ UNCHANGED <<db, safety, same>>
    /\ GoTo("unmark")
    /\ UNCHANGED <<log, marker, secrets>>

CleanUp ==
    /\ at = "clean"
    /\ copy' = NoFile
    /\ \/ Dropped /\ Works /\ GoTo("unmark")
       \/ safety.kind # "none" /\ Fault /\ UNCHANGED <<db, safety, same>> /\ GoTo("open")
    /\ UNCHANGED <<log, marker, secrets>>

-----------------------------------------------------------------------------
(* An open library, and what goes wrong *)

Edit ==
    /\ at = "open" /\ edits < MaxEdits
    /\ edits' = edits + 1
    /\ log' = [db EXCEPT !.v = edits + 1]
    /\ UNCHANGED <<db, copy, safety, same, marker, secrets, program, links, lost, faults>>

\* The last connection empties the log.
Quit ==
    /\ at = "open"
    /\ db' = [db EXCEPT !.v = Newest] /\ log' = NoFile
    /\ Close
    /\ UNCHANGED <<copy, safety, same, marker, secrets>> /\ Works

Crash ==
    /\ at # "closed"
    /\ Fault /\ Close
    /\ UNCHANGED <<files, secrets>>

\* The keychain's item is gone.
LoseKey ==
    /\ at = "closed" /\ Known # 0
    /\ faults < MaxFaults /\ faults' = faults + 1
    /\ kept' = kept \ {keyName}
    /\ lost' = (lost \/ (db.kind = "sealed" /\ ~Unfinished))
    /\ UNCHANGED <<files, keyName, keys, program, links, edits>>

-----------------------------------------------------------------------------
Conversion ==
    \/ Convert \/ Export \/ ExportFails \/ Verify \/ KeepPlain \/ CopyPlain \/ Swap
    \/ Confirm \/ SwapBack \/ CleanUp \/ Abandon \/ Unmark
Opening == Launch \/ LaunchWithoutKeychain \/ WriteKeyName \/ MakeLibrary \/ Recover \/ PutPlainBack
Program == Opening \/ Conversion \/ Quit

Next == Program \/ Edit \/ Crash \/ LoseKey

Spec == Init /\ [][Next]_vars

(* The app is opened and quit again and again, and its steps go on.        *)
FairSpec == Spec /\ WF_vars(Program)
=============================================================================
