------------------------------- MODULE Store -------------------------------
(***************************************************************************)
(* tbox::framework::Store: one file per key, rewritten as a whole through  *)
(* a temporary file and a rename.  A file is Absent, Torn or holds the     *)
(* value last saved under its key; the caller owns the variable and these  *)
(* operators give the outcomes of one access to it.                        *)
(***************************************************************************)
EXTENDS Naturals

CONSTANTS
    Absent,     \* no file, and what load answers for it: std::nullopt
    Torn,       \* a file that was cut short: JSON that does not parse
    Faults      \* the faults of the disk and of the process that may occur

FaultKinds ==
    { "init",     \* the directories of the store cannot be created
      "save",     \* the temporary file cannot be opened or renamed
      "torn",     \* the temporary file is cut short, and renamed all the same
      "read",     \* an existing file cannot be opened for reading
      "crash" }   \* the process dies between two accesses

ASSUME FaultsAssumption == Faults \subseteq FaultKinds
ASSUME AbsentAssumption == Absent # Torn

Outcome(ok, file) == [ok |-> ok, file |-> file]

Under(fault, outcomes) == IF fault \in Faults THEN outcomes ELSE {}

\* Slips of atomic_write: the value written in place, a lost rename error.
SaveInPlace(old, new) ==
    {Outcome(TRUE, new)} \cup Under("save", {Outcome(FALSE, Torn)})

SaveReportsSuccess(old, new) ==
    {Outcome(TRUE, new)} \cup Under("save", {Outcome(TRUE, old)})

(***************************************************************************)
(* The write errors of the temporary file's stream are never looked at     *)
(* (framework_store.cpp:120-122), so a short write is reported as a        *)
(* success; a failed open or rename leaves the old file in place.          *)
(***************************************************************************)
Save(old, new) ==
    {Outcome(TRUE, new)}
      \cup Under("save", {Outcome(FALSE, old)})
      \cup Under("torn", {Outcome(TRUE, Torn)})

(***************************************************************************)
(* A file that is missing, unreadable or unparsable loads as nullopt.      *)
(***************************************************************************)
Load(file) ==
    {IF file = Torn THEN Absent ELSE file} \cup Under("read", {Absent})

Initializes == {TRUE} \cup Under("init", {FALSE})
=============================================================================
