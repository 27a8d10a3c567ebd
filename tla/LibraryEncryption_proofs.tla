----------------------- MODULE LibraryEncryption_proofs -----------------------
(***************************************************************************)
(* Proofs about LibraryEncryption, for every number of edits and faults.   *)
(* The inductive invariant says what the marker promises of the files, and *)
(* what each step of the program has ready when it begins.                 *)
(***************************************************************************)
EXTENDS LibraryEncryptionProperties, TLAPS

\* What the marker promises of the files.
MarkerInv ==
    /\ db.kind \in {"none", "plain", "sealed"}
    /\ marker = "none" /\ db.kind # "plain" => safety.kind = "none"
    /\ marker = "exporting" => db.kind = "plain" /\ log = NoFile
    /\ marker = "ready" =>
        /\ log = NoFile
        /\ \/ db.kind = "plain"
           \/ /\ db.kind = "sealed" /\ same = FALSE
              /\ safety.kind = "plain" /\ safety.v = db.v
    /\ db.kind = "none" => ~Unfinished
    /\ log.kind = "plain" => db.kind = "plain"
    /\ db.kind \in {"none", "plain"} => db.key = 0
    /\ safety.kind = "plain" => safety.key = 0
    /\ db.kind = "sealed" => db.key # 0

\* The steps that go on with the key of the key's name, if there is one.
Named == {"recover", "make", "convert", "export", "verify", "swap", "copying", "rename", "confirm",
          "clean", "back", "abandon", "putback", "unmark"}

KeyInv ==
    /\ at = "closed" => key = 0
    /\ key # 0 => key \in kept
    /\ at \in Named => key = Known
    /\ at \in {"recover", "confirm", "clean", "back", "abandon", "unmark"} /\ then = "encrypt" => key # 0
    /\ at = "recover" /\ marker = "none" /\ db.kind = "plain" => key # 0

\* What each step has ready.
StepInv ==
    /\ at \in {"name", "convert"} => db.kind = "plain" /\ ~Unfinished
    /\ at = "convert" => marker = "none"
    /\ at \in {"create", "make"} => db.kind = "none" /\ ~Unfinished
    /\ at = "recover" => db.kind # "none"
    /\ at \in {"export", "verify"} => marker = "exporting"
    /\ at \in {"swap", "copying", "rename"} =>
        marker = "ready" /\ db.kind = "plain" /\ copy = Sealed(db.v, key)
    /\ at = "rename" => safety = db
    /\ at \in {"confirm", "back"} => marker = "ready" /\ db.kind = "sealed"
    /\ at = "clean" => marker = "cleanup" /\ db.kind = "sealed"
    /\ at = "abandon" => Unfinished /\ db.kind = "plain"
    /\ at = "unmark" =>
        /\ db.kind # "none"
        /\ db.kind = "sealed" => safety.kind = "none" /\ marker = "cleanup"
    /\ at = "putback" => lost /\ safety.kind = "plain" /\ marker = "cleanup" /\ db.kind = "none"
    /\ at = "open" => ~Unfinished /\ db.kind # "none"

\* Where the notes are, as long as no key of a finished library is lost.
NotesInv ==
    ~lost =>
        /\ Readable /\ Newest = edits
        /\ db.kind = "none" => db = NoFile /\ log = NoFile
        /\ db.kind = "sealed" /\ ~Unfinished => db.key = keyName /\ db.key \in kept

IInv == TypeOK /\ MarkerInv /\ KeyInv /\ StepInv /\ NotesInv

-----------------------------------------------------------------------------
(* Types *)

LEMMA FilesAreFiles ==
  /\ NoFile \in File /\ Partial \in File
  /\ \A f \in File, v \in Nat : [f EXCEPT !.v = v] \in File
BY DEF File, NoFile, Partial

LEMMA CleanUpTypes ==
  ASSUME IInv, CleanUp
  PROVE  TypeOK'
<1> USE DEF IInv, TypeOK, CleanUp
<1>1. copy' \in File /\ safety' \in File /\ db' \in File /\ log' \in File /\ same' \in BOOLEAN
    BY FilesAreFiles DEF Dropped
<1>2. at' \in Steps /\ then' = then /\ key' = key /\ at' \notin Keyed
    BY DEF GoTo, Steps, Keyed
<1>3. UNCHANGED <<marker, links, lost, edits>> /\ faults' \in 0..MaxFaults
    BY BoundsAssumption DEF Works, Fault, history
<1> QED BY <1>1, <1>2, <1>3 DEF secrets

LEMMA AbandonTypes ==
  ASSUME IInv, Abandon
  PROVE  TypeOK'
<1> USE DEF IInv, TypeOK, Abandon
<1>1. copy' \in File /\ safety' \in File /\ db' \in File /\ log' \in File /\ same' \in BOOLEAN
    BY FilesAreFiles DEF Dropped
<1>2. at' \in Steps /\ then' = then /\ key' = key /\ at' \notin Keyed
    BY DEF GoTo, Steps, Keyed
<1>3. UNCHANGED <<marker, links, lost, edits>> /\ faults' \in 0..MaxFaults
    BY BoundsAssumption DEF Works, Fault, history
<1> QED BY <1>1, <1>2, <1>3 DEF secrets

LEMMA ConvertTypes ==
  ASSUME IInv, Convert
  PROVE  TypeOK'
<1> USE DEF IInv, TypeOK, Convert
<1>1. Newest \in Nat BY DEF Newest, File
<1>2. copy' \in File /\ safety' \in File /\ db' \in File /\ log' \in File /\ same' \in BOOLEAN
    BY FilesAreFiles, <1>1 DEF files
<1>3. /\ at' \in Steps /\ then' \in {"reopen", "encrypt", "open", "plain"}
      /\ key' \in 0..keys /\ (at' \in Keyed => key' # 0)
    BY DEF GoTo, Close, Steps, Keyed
<1>4. marker' \in {"none", "exporting", "ready", "cleanup"} /\ UNCHANGED history
    BY DEF Works, files
<1> QED BY <1>2, <1>3, <1>4 DEF secrets, history

LEMMA SwapTypes ==
  ASSUME IInv, Swap
  PROVE  TypeOK'
<1> USE DEF IInv, TypeOK, Swap
<1>1. copy' \in File /\ safety' \in File /\ db' \in File /\ log' \in File /\ same' \in BOOLEAN
    BY FilesAreFiles
<1>2. at' \in Steps /\ then' = then /\ key' = key /\ at' \notin Keyed
    BY DEF GoTo, Steps, Keyed
<1> QED BY <1>1, <1>2 DEF secrets, Works, history

LEMMA RecoverTypes ==
  ASSUME IInv, Recover
  PROVE  TypeOK'
<1> USE DEF IInv, TypeOK, Recover
<1>1. copy' \in File /\ safety' \in File /\ db' \in File /\ log' \in File /\ same' \in BOOLEAN
    BY FilesAreFiles
<1>2. at' \in Steps /\ then' \in {"reopen", "encrypt", "open", "plain"} /\ key' \in 0..keys
    BY DEF GoTo, Close, Steps, Open, Unfinished
<1>3. at' \in Keyed => key' # 0
    BY DEF GoTo, Close, Keyed, Open, KeyInv, Resumes, MarkerInv, Unfinished
<1>4. marker' \in {"none", "exporting", "ready", "cleanup"} /\ UNCHANGED history
    BY DEF Works, Unfinished
<1> QED BY <1>1, <1>2, <1>3, <1>4 DEF secrets, history

\* Every step keeps the types.
LEMMA TypesStep ==
  ASSUME IInv, [Next]_vars
  PROVE  TypeOK'
<1> USE DEF IInv, TypeOK, KeyInv, MarkerInv, StepInv, File, NoFile,
        Partial, Sealed, Steps, Keyed, Named, Unfinished, Newest, Known
<1>1. CASE Launch
    BY <1>1, BoundsAssumption DEF Launch, NewKey, Known, Unfinished, files,
       secrets, program, history
<1>2. CASE LaunchWithoutKeychain
    BY <1>2, BoundsAssumption DEF LaunchWithoutKeychain, Fault, GoTo,
       Known, Readable, Unfinished, files, secrets, program, history
<1>3. CASE WriteKeyName
    BY <1>3, BoundsAssumption DEF WriteKeyName, Works, files, secrets,
       program, history
<1>4. CASE MakeLibrary
    BY <1>4, BoundsAssumption DEF MakeLibrary, Works, GoTo, files, secrets,
       program, history
<1>5. CASE Recover BY <1>5, RecoverTypes
<1>6. CASE PutPlainBack
    BY <1>6, BoundsAssumption DEF PutPlainBack, Works, files, secrets,
       program, history
<1>7. CASE Convert BY <1>7, ConvertTypes
<1>8. CASE Export
    BY <1>8, BoundsAssumption DEF Export, Works, Fault, GoTo, files,
       secrets, program, history
<1>9. CASE ExportFails
    BY <1>9, BoundsAssumption DEF ExportFails, Fault, GoTo, files, secrets,
       program, history
<1>10. CASE Verify
    BY <1>10, BoundsAssumption DEF Verify, Verified, Works, GoTo, files,
       secrets, program, history
<1>11. CASE KeepPlain
    BY <1>11, BoundsAssumption DEF KeepPlain, Works, GoTo, files, secrets,
       program, history
<1>12. CASE CopyPlain
    BY <1>12, BoundsAssumption DEF CopyPlain, Works, GoTo, files, secrets,
       program, history
<1>13. CASE Swap BY <1>13, SwapTypes
<1>14. CASE Confirm
    BY <1>14, BoundsAssumption DEF Confirm, Verified, Works, Fault, GoTo,
       files, secrets, program, history
<1>15. CASE SwapBack
    BY <1>15, BoundsAssumption DEF SwapBack, Works, GoTo, files, secrets,
       program, history
<1>16. CASE CleanUp BY <1>16, CleanUpTypes
<1>17. CASE Abandon BY <1>17, AbandonTypes
<1>18. CASE Unmark
    BY <1>18, BoundsAssumption DEF Unmark, Works, GoTo, Close, files,
       secrets, program, history
<1>19. CASE Quit
    BY <1>19, BoundsAssumption DEF Quit, Works, Newest, Close, files,
       secrets, program, history
<1>20. CASE Edit
    BY <1>20, BoundsAssumption DEF Edit, files, secrets, program, history
<1>21. CASE Crash
    BY <1>21, BoundsAssumption DEF Crash, Fault, Close, files, secrets,
       program, history
<1>22. CASE LoseKey
    BY <1>22, BoundsAssumption DEF LoseKey, Known, Unfinished, files,
       secrets, program, history
<1>23. CASE UNCHANGED vars BY <1>23 DEF vars, files, secrets, program, history
<1> QED
    BY <1>1, <1>2, <1>3, <1>4, <1>5, <1>6, <1>7, <1>8, <1>9, <1>10, <1>11,
       <1>12, <1>13, <1>14, <1>15, <1>16, <1>17, <1>18, <1>19, <1>20, <1>21,
       <1>22, <1>23 DEF Next, Program, Opening, Conversion

\* Every step keeps the marker's promises.
LEMMA MarkerStep ==
  ASSUME IInv, [Next]_vars
  PROVE  MarkerInv'
<1> USE DEF IInv, TypeOK, MarkerInv, KeyInv, StepInv, NotesInv, File,
        NoFile, Partial, Sealed, Unfinished, Keyed, Known, Named
<1>1. CASE Launch
    BY <1>1 DEF Launch, NewKey, Known, Unfinished, files, secrets, program,
       history
<1>2. CASE LaunchWithoutKeychain
    BY <1>2 DEF LaunchWithoutKeychain, Fault, GoTo, Known, Readable,
       Unfinished, files, secrets, program, history
<1>3. CASE WriteKeyName
    BY <1>3 DEF WriteKeyName, Works, files, secrets, program, history
<1>4. CASE MakeLibrary
    BY <1>4 DEF MakeLibrary, Works, GoTo, files, secrets, program, history
<1>5. CASE Recover
    BY <1>5 DEF Recover, Works, GoTo, Open, Close, Resumes, Verified,
       Readable, Unfinished, files, secrets, program, history
<1>6. CASE PutPlainBack
    BY <1>6 DEF PutPlainBack, Works, files, secrets, program, history
<1>7. CASE Convert
    BY <1>7 DEF Convert, Works, GoTo, Close, Readable, Newest, files,
       secrets, program, history
<1>8. CASE Export
    BY <1>8 DEF Export, Works, Fault, GoTo, files, secrets, program,
       history
<1>9. CASE ExportFails
    BY <1>9 DEF ExportFails, Fault, GoTo, files, secrets, program, history
<1>10. CASE Verify
    BY <1>10 DEF Verify, Verified, Works, GoTo, files, secrets, program,
       history
<1>11. CASE KeepPlain
    BY <1>11 DEF KeepPlain, Works, GoTo, files, secrets, program, history
<1>12. CASE CopyPlain
    BY <1>12 DEF CopyPlain, Works, GoTo, files, secrets, program, history
<1>13. CASE Swap
    BY <1>13 DEF Swap, Works, GoTo, files, secrets, program, history
<1>14. CASE Confirm
    BY <1>14 DEF Confirm, Verified, Works, Fault, GoTo, files, secrets,
       program, history
<1>15. CASE SwapBack
    BY <1>15 DEF SwapBack, Works, GoTo, files, secrets, program, history
<1>16. CASE CleanUp
    BY <1>16 DEF CleanUp, Works, Fault, GoTo, Dropped, files, secrets,
       program, history
<1>17. CASE Abandon
    BY <1>17 DEF Abandon, Works, Fault, GoTo, Dropped, files, secrets,
       program, history
<1>18. CASE Unmark
    BY <1>18 DEF Unmark, Works, GoTo, Close, files, secrets, program,
       history
<1>19. CASE Quit
    BY <1>19 DEF Quit, Works, Newest, Close, files, secrets, program,
       history
<1>20. CASE Edit
    BY <1>20 DEF Edit, files, secrets, program, history
<1>21. CASE Crash
    BY <1>21 DEF Crash, Fault, Close, files, secrets, program, history
<1>22. CASE LoseKey
    BY <1>22 DEF LoseKey, Known, Unfinished, files, secrets, program,
       history
<1>23. CASE UNCHANGED vars BY <1>23 DEF vars, files, secrets, program, history
<1> QED
    BY <1>1, <1>2, <1>3, <1>4, <1>5, <1>6, <1>7, <1>8, <1>9, <1>10, <1>11,
       <1>12, <1>13, <1>14, <1>15, <1>16, <1>17, <1>18, <1>19, <1>20, <1>21,
       <1>22, <1>23 DEF Next, Program, Opening, Conversion

\* Every step keeps the key that the program goes on with.
LEMMA KeyStep ==
  ASSUME IInv, [Next]_vars
  PROVE  KeyInv'
<1> USE DEF IInv, TypeOK, MarkerInv, KeyInv, StepInv, NotesInv, File,
        Sealed, Named, Known, Unfinished, Keyed
<1>1. CASE Launch
    BY <1>1 DEF Launch, NewKey, Known, Unfinished, files, secrets, program,
       history
<1>2. CASE LaunchWithoutKeychain
    BY <1>2 DEF LaunchWithoutKeychain, Fault, GoTo, Known, Readable,
       Unfinished, files, secrets, program, history
<1>3. CASE WriteKeyName
    BY <1>3 DEF WriteKeyName, Works, files, secrets, program, history
<1>4. CASE MakeLibrary
    BY <1>4 DEF MakeLibrary, Works, GoTo, files, secrets, program, history
<1>5. CASE Recover
    BY <1>5 DEF Recover, Works, GoTo, Open, Close, Resumes, Verified,
       Readable, Unfinished, files, secrets, program, history
<1>6. CASE PutPlainBack
    BY <1>6 DEF PutPlainBack, Works, files, secrets, program, history
<1>7. CASE Convert
    BY <1>7 DEF Convert, Works, GoTo, Close, Readable, Newest, files,
       secrets, program, history
<1>8. CASE Export
    BY <1>8 DEF Export, Works, Fault, GoTo, files, secrets, program,
       history
<1>9. CASE ExportFails
    BY <1>9 DEF ExportFails, Fault, GoTo, files, secrets, program, history
<1>10. CASE Verify
    BY <1>10 DEF Verify, Verified, Works, GoTo, files, secrets, program,
       history
<1>11. CASE KeepPlain
    BY <1>11 DEF KeepPlain, Works, GoTo, files, secrets, program, history
<1>12. CASE CopyPlain
    BY <1>12 DEF CopyPlain, Works, GoTo, files, secrets, program, history
<1>13. CASE Swap
    BY <1>13 DEF Swap, Works, GoTo, files, secrets, program, history
<1>14. CASE Confirm
    BY <1>14 DEF Confirm, Verified, Works, Fault, GoTo, files, secrets,
       program, history
<1>15. CASE SwapBack
    BY <1>15 DEF SwapBack, Works, GoTo, files, secrets, program, history
<1>16. CASE CleanUp
    BY <1>16 DEF CleanUp, Works, Fault, GoTo, Dropped, files, secrets,
       program, history
<1>17. CASE Abandon
    BY <1>17 DEF Abandon, Works, Fault, GoTo, Dropped, files, secrets,
       program, history
<1>18. CASE Unmark
    BY <1>18 DEF Unmark, Works, GoTo, Close, files, secrets, program,
       history
<1>19. CASE Quit
    BY <1>19 DEF Quit, Works, Newest, Close, files, secrets, program,
       history
<1>20. CASE Edit
    BY <1>20 DEF Edit, files, secrets, program, history
<1>21. CASE Crash
    BY <1>21 DEF Crash, Fault, Close, files, secrets, program, history
<1>22. CASE LoseKey
    BY <1>22 DEF LoseKey, Known, Unfinished, files, secrets, program,
       history
<1>23. CASE UNCHANGED vars BY <1>23 DEF vars, files, secrets, program, history
<1> QED
    BY <1>1, <1>2, <1>3, <1>4, <1>5, <1>6, <1>7, <1>8, <1>9, <1>10, <1>11,
       <1>12, <1>13, <1>14, <1>15, <1>16, <1>17, <1>18, <1>19, <1>20, <1>21,
       <1>22, <1>23 DEF Next, Program, Opening, Conversion

\* Every step leaves ready what the next one begins with.
LEMMA StepStep ==
  ASSUME IInv, [Next]_vars
  PROVE  StepInv'
<1> USE DEF IInv, TypeOK, MarkerInv, KeyInv, StepInv, NotesInv, File,
        NoFile, Sealed, Unfinished, Keyed, Known, Named, Readable
<1>1. CASE Launch
    BY <1>1 DEF Launch, NewKey, Known, Unfinished, files, secrets, program,
       history
<1>2. CASE LaunchWithoutKeychain
    BY <1>2 DEF LaunchWithoutKeychain, Fault, GoTo, Known, Readable,
       Unfinished, files, secrets, program, history
<1>3. CASE WriteKeyName
    BY <1>3 DEF WriteKeyName, Works, files, secrets, program, history
<1>4. CASE MakeLibrary
    BY <1>4 DEF MakeLibrary, Works, GoTo, files, secrets, program, history
<1>5. CASE Recover
    BY <1>5 DEF Recover, Works, GoTo, Open, Close, Resumes, Verified,
       Readable, Unfinished, files, secrets, program, history
<1>6. CASE PutPlainBack
    BY <1>6 DEF PutPlainBack, Works, files, secrets, program, history
<1>7. CASE Convert
    BY <1>7 DEF Convert, Works, GoTo, Close, Readable, Newest, files,
       secrets, program, history
<1>8. CASE Export
    BY <1>8 DEF Export, Works, Fault, GoTo, files, secrets, program,
       history
<1>9. CASE ExportFails
    BY <1>9 DEF ExportFails, Fault, GoTo, files, secrets, program, history
<1>10. CASE Verify
    BY <1>10 DEF Verify, Verified, Works, GoTo, files, secrets, program,
       history
<1>11. CASE KeepPlain
    BY <1>11 DEF KeepPlain, Works, GoTo, files, secrets, program, history
<1>12. CASE CopyPlain
    BY <1>12 DEF CopyPlain, Works, GoTo, files, secrets, program, history
<1>13. CASE Swap
    BY <1>13 DEF Swap, Works, GoTo, files, secrets, program, history
<1>14. CASE Confirm
    BY <1>14 DEF Confirm, Verified, Works, Fault, GoTo, files, secrets,
       program, history
<1>15. CASE SwapBack
    BY <1>15 DEF SwapBack, Works, GoTo, files, secrets, program, history
<1>16. CASE CleanUp
    BY <1>16 DEF CleanUp, Works, Fault, GoTo, Dropped, files, secrets,
       program, history
<1>17. CASE Abandon
    BY <1>17 DEF Abandon, Works, Fault, GoTo, Dropped, files, secrets,
       program, history
<1>18. CASE Unmark
    BY <1>18 DEF Unmark, Works, GoTo, Close, files, secrets, program,
       history
<1>19. CASE Quit
    BY <1>19 DEF Quit, Works, Newest, Close, files, secrets, program,
       history
<1>20. CASE Edit
    BY <1>20 DEF Edit, files, secrets, program, history
<1>21. CASE Crash
    BY <1>21 DEF Crash, Fault, Close, files, secrets, program, history
<1>22. CASE LoseKey
    BY <1>22 DEF LoseKey, Known, Unfinished, files, secrets, program,
       history
<1>23. CASE UNCHANGED vars BY <1>23 DEF vars, files, secrets, program, history
<1> QED
    BY <1>1, <1>2, <1>3, <1>4, <1>5, <1>6, <1>7, <1>8, <1>9, <1>10, <1>11,
       <1>12, <1>13, <1>14, <1>15, <1>16, <1>17, <1>18, <1>19, <1>20, <1>21,
       <1>22, <1>23 DEF Next, Program, Opening, Conversion

\* No step loses the notes while the keys are kept.
LEMMA NotesStep ==
  ASSUME IInv, [Next]_vars
  PROVE  NotesInv'
<1> USE DEF IInv, TypeOK, MarkerInv, KeyInv, StepInv, NotesInv, File,
        NoFile, Sealed, Named, Keyed, Known, Unfinished, Readable, Newest
<1>1. CASE Launch
    BY <1>1 DEF Launch, NewKey, Known, Unfinished, files, secrets, program,
       history
<1>2. CASE LaunchWithoutKeychain
    BY <1>2 DEF LaunchWithoutKeychain, Fault, GoTo, Known, Readable,
       Unfinished, files, secrets, program, history
<1>3. CASE WriteKeyName
    BY <1>3 DEF WriteKeyName, Works, files, secrets, program, history
<1>4. CASE MakeLibrary
    BY <1>4 DEF MakeLibrary, Works, GoTo, files, secrets, program, history
<1>5. CASE Recover
    BY <1>5 DEF Recover, Works, GoTo, Open, Close, Resumes, Verified,
       Readable, Unfinished, files, secrets, program, history
<1>6. CASE PutPlainBack
    BY <1>6 DEF PutPlainBack, Works, files, secrets, program, history
<1>7. CASE Convert
    BY <1>7 DEF Convert, Works, GoTo, Close, Readable, Newest, files,
       secrets, program, history
<1>8. CASE Export
    BY <1>8 DEF Export, Works, Fault, GoTo, files, secrets, program,
       history
<1>9. CASE ExportFails
    BY <1>9 DEF ExportFails, Fault, GoTo, files, secrets, program, history
<1>10. CASE Verify
    BY <1>10 DEF Verify, Verified, Works, GoTo, files, secrets, program,
       history
<1>11. CASE KeepPlain
    BY <1>11 DEF KeepPlain, Works, GoTo, files, secrets, program, history
<1>12. CASE CopyPlain
    BY <1>12 DEF CopyPlain, Works, GoTo, files, secrets, program, history
<1>13. CASE Swap
    BY <1>13 DEF Swap, Works, GoTo, files, secrets, program, history
<1>14. CASE Confirm
    BY <1>14 DEF Confirm, Verified, Works, Fault, GoTo, files, secrets,
       program, history
<1>15. CASE SwapBack
    BY <1>15 DEF SwapBack, Works, GoTo, files, secrets, program, history
<1>16. CASE CleanUp
    BY <1>16 DEF CleanUp, Works, Fault, GoTo, Dropped, files, secrets,
       program, history
<1>17. CASE Abandon
    BY <1>17 DEF Abandon, Works, Fault, GoTo, Dropped, files, secrets,
       program, history
<1>18. CASE Unmark
    BY <1>18 DEF Unmark, Works, GoTo, Close, files, secrets, program,
       history
<1>19. CASE Quit
    BY <1>19 DEF Quit, Works, Newest, Close, files, secrets, program,
       history
<1>20. CASE Edit
    BY <1>20 DEF Edit, files, secrets, program, history
<1>21. CASE Crash
    BY <1>21 DEF Crash, Fault, Close, files, secrets, program, history
<1>22. CASE LoseKey
    BY <1>22 DEF LoseKey, Known, Unfinished, files, secrets, program,
       history
<1>23. CASE UNCHANGED vars BY <1>23 DEF vars, files, secrets, program, history
<1> QED
    BY <1>1, <1>2, <1>3, <1>4, <1>5, <1>6, <1>7, <1>8, <1>9, <1>10, <1>11,
       <1>12, <1>13, <1>14, <1>15, <1>16, <1>17, <1>18, <1>19, <1>20, <1>21,
       <1>22, <1>23 DEF Next, Program, Opening, Conversion

-----------------------------------------------------------------------------
(* What holds of every behaviour *)

LEMMA InitInv == Init => IInv
<1> SUFFICES ASSUME Init PROVE IInv OBVIOUS
<1> USE DEF Init, File, NoFile, Plain, Unfinished
<1>1. TypeOK
  <2>1. db \in File /\ edits \in Nat OBVIOUS
  <2>2. faults \in 0..MaxFaults /\ kept \subseteq 1..keys /\ keyName \in 0..keys /\ key \in 0..keys
      BY BoundsAssumption
  <2> QED BY <2>1, <2>2 DEF TypeOK, Steps, Keyed
<1>2. MarkerInv BY DEF MarkerInv
<1>3. KeyInv BY DEF KeyInv, Named, Known
<1>4. StepInv BY DEF StepInv
<1>5. NotesInv BY DEF NotesInv, Readable, Newest
<1> QED BY <1>1, <1>2, <1>3, <1>4, <1>5 DEF IInv

\* The invariant that the properties follow from: types, what the marker
\* promises of the files, the program's key, what each step has ready, and
\* where the notes are.
THEOREM Invariance == Spec => []IInv
<1>1. Init => IInv BY InitInv
<1>2. IInv /\ [Next]_vars => IInv'
    BY TypesStep, MarkerStep, KeyStep, StepStep, NotesStep DEF IInv
<1> QED BY <1>1, <1>2, PTL DEF Spec

\* Every variable keeps its type, and a step that writes with the key has one.
THEOREM TypeCorrect == Spec => []TypeOK
<1>1. IInv => TypeOK BY DEF IInv
<1> QED BY <1>1, Invariance, PTL

\* Whatever stops the program between two steps of a conversion, and even if
\* the key is lost in the middle of one, the newest notes are in a library that
\* opens or whole in the plain copy beside it (encrypt.rs, library_key.rs).
THEOREM NotesSurvive == Spec => []NotesAreKept
<1>1. ASSUME IInv, ~lost
      PROVE  InLibrary \/ InSafety \/ (db = NoFile /\ edits = 0)
  <2> USE <1>1 DEF IInv, TypeOK, MarkerInv, NotesInv, Newest
  <2>1. CASE db.kind = "none" BY <2>1 DEF NoFile
  <2>2. CASE db.kind = "plain" BY <2>2 DEF InLibrary
  <2>3. CASE db.kind = "sealed" /\ ~Unfinished BY <2>3 DEF InLibrary
  <2>4. CASE db.kind = "sealed" /\ Unfinished
    <3>1. marker = "ready" /\ log = NoFile BY <2>4 DEF Unfinished
    <3>2. safety.kind = "plain" /\ safety.v = edits BY <2>4, <3>1 DEF NoFile
    <3> QED BY <2>4, <3>2 DEF InSafety
  <2> QED BY <2>1, <2>2, <2>3, <2>4
<1>2. IInv => NotesAreKept BY <1>1 DEF NotesAreKept
<1> QED BY <1>2, Invariance, PTL

\* A library that the program has open shows every note that was written.
THEOREM OpenIsWhole == Spec => []OpenShowsEverything
<1>1. IInv => OpenShowsEverything
    BY DEF IInv, TypeOK, MarkerInv, StepInv, NotesInv, OpenShowsEverything, InLibrary
<1> QED BY <1>1, Invariance, PTL

\* Beside an encrypted library whose marker is gone nothing readable is left.
THEOREM PlaintextIsGone == Spec => []NoPlaintextBeside
<1>1. IInv => NoPlaintextBeside
    BY DEF IInv, MarkerInv, NoPlaintextBeside
<1> QED BY <1>1, Invariance, PTL
=============================================================================
