------------------------------ MODULE AccountFile ------------------------------
(***************************************************************************)
(* The server's account file (AccountStore, src/src/server/accounts.cpp),  *)
(* on POSIX: every registration and every login rewrites it whole, into a  *)
(* temporary file that is synced and renamed over it.  The server can be   *)
(* killed, or the machine lose power, between any two steps; it then       *)
(* starts from the file.  An account is its name: what else is stored of   *)
(* it is written and read with it.                                         *)
(***************************************************************************)

CONSTANT Accounts

VARIABLES
  byFold,     \* AccountStore::byFold_
  saving,     \* the step save() is at, or where the server is otherwise
  candidate,  \* the account create() is registering, or none: noteLogin()
  temp,       \* path + ".tmp"
  path,       \* the account file
  onDisk,     \* the account file, should the power go now
  known       \* history: accounts whose players were told they have them

accVars == <<byFold, saving, candidate, temp, path, onDisk, known>>

\* A file: absent, cut off, written, or synced since; and the accounts in it.
Absent == [text |-> "absent", has |-> {}]
CutOff == [text |-> "cut off", has |-> {}]
Written(accounts) == [text |-> "written", has |-> accounts]
SyncedFile(accounts) == [text |-> "synced", has |-> accounts]
AccountFiles == {Absent, CutOff} \cup {Written(x) : x \in SUBSET Accounts}
                          \cup {SyncedFile(x) : x \in SUBSET Accounts}
NoAccount == "none"

ASSUME AccountsAssumption == NoAccount \notin Accounts

\* Every variable holds what the code can put in it.
AccTypeOK ==
  /\ byFold \subseteq Accounts /\ known \subseteq Accounts
  /\ saving \in {"no", "open", "write", "sync", "rename", "down"}
  /\ candidate \in Accounts \cup {NoAccount}
  /\ {temp, path} \subseteq AccountFiles /\ onDisk \subseteq AccountFiles

AccInit ==
  /\ byFold = {} /\ known = {}
  /\ saving = "no" /\ candidate = NoAccount
  /\ temp = Absent /\ path = Absent /\ onDisk = {Absent}

\* create(): the new account is in memory before it is saved.
CreateAccount(a) ==
  /\ saving = "no" /\ a \notin byFold
  /\ byFold' = byFold \cup {a}
  /\ saving' = "open" /\ candidate' = a
  /\ UNCHANGED <<temp, path, onDisk, known>>

\* noteLogin(): what it records is not a new account, but all are written.
NoteLogin ==
  /\ saving = "no" /\ byFold # {}
  /\ saving' = "open" /\ candidate' = NoAccount
  /\ UNCHANGED <<byFold, temp, path, onDisk, known>>

\* A step that fails removes the temporary file; create() takes its account
\* back, noteLogin() lets it be.
SaveFails ==
  /\ saving' = "no" /\ candidate' = NoAccount
  /\ temp' = Absent
  /\ byFold' = byFold \ {candidate}
  /\ UNCHANGED <<path, onDisk, known>>

\* open() that fails has nothing to remove.
OpenFails ==
  /\ saving' = "no" /\ candidate' = NoAccount
  /\ byFold' = byFold \ {candidate}
  /\ UNCHANGED <<temp, path, onDisk, known>>

SavesOn(step, file) ==
  /\ saving' = step /\ temp' = file
  /\ UNCHANGED <<byFold, candidate, path, onDisk, known>>

OpenTemp == saving = "open" /\ (SavesOn("write", CutOff) \/ OpenFails \/ SaveFails)

WriteTemp == saving = "write" /\ (SavesOn("sync", Written(byFold)) \/ SaveFails)

SyncTempLater == saving = "sync" /\ (SavesOn("rename", temp) \/ SaveFails)

SyncTemp == saving = "sync" /\ (SavesOn("rename", SyncedFile(temp.has)) \/ SaveFails)

\* What the power can leave once the rename is done.  The directory is not
\* synced, so the file may still be the old one; the new one is whole only
\* if it was synced before.
Renamed == onDisk \cup {IF temp.text = "synced" THEN temp ELSE CutOff}

\* rename(): the file is the new one at once, and the player is told.
RenameTemp ==
  /\ saving = "rename"
  /\ \/ /\ path' = temp /\ temp' = Absent
        /\ onDisk' = Renamed
        /\ known' = known \cup ({candidate} \ {NoAccount})
        /\ saving' = "no" /\ candidate' = NoAccount
        /\ UNCHANGED byFold
     \/ SaveFails

\* The directory reaches the disk in its own time.
DirectorySettles ==
  /\ onDisk' = {path}
  /\ onDisk # {path}
  /\ UNCHANGED <<byFold, saving, candidate, temp, path, known>>

ServerKilled ==
  /\ saving # "down"
  /\ saving' = "down" /\ candidate' = NoAccount /\ byFold' = {}
  /\ UNCHANGED <<temp, path, onDisk, known>>

\* Without the directory's sync, accounts of the last moments may be gone.
PowerLost ==
  /\ saving' = "down" /\ candidate' = NoAccount /\ byFold' = {}
  /\ \E text \in onDisk : path' = text /\ onDisk' = {text} /\ known' = known \cap text.has
  /\ temp' \in {temp, CutOff, Absent}

\* load(): the accounts there are in the file (of one that is cut off, those
\* before the cut, here none).
ServerStarts ==
  /\ saving = "down"
  /\ byFold' = path.has
  /\ saving' = "no"
  /\ UNCHANGED <<candidate, temp, path, onDisk, known>>

AccNext ==
  \/ \E a \in Accounts : CreateAccount(a)
  \/ NoteLogin \/ OpenTemp \/ WriteTemp \/ SyncTemp \/ RenameTemp
  \/ DirectorySettles \/ ServerKilled \/ PowerLost \/ ServerStarts

AccSpec == AccInit /\ [][AccNext]_accVars

\* Whatever ends the server at whatever step, the file is a whole one, it has
\* every account whose player was told so, and a server at rest holds just
\* what is in it: no account that a failed save left behind, and none lost
\* (accounts.h:40-41).
AccountsKept ==
  /\ CutOff \notin {path} \cup onDisk
  /\ known \subseteq path.has
  /\ saving = "no" => byFold = path.has

=============================================================================
