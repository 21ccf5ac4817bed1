------------------------------ MODULE FileProofs ------------------------------
(***************************************************************************)
(* What the game keeps in files, for any set of accounts, any number of    *)
(* recovery passes at work, and any numbers of bundles, recordings and     *)
(* power cuts.                                                             *)
(*                                                                         *)
(* Recordings.  While one game at a time is recorded and no pass meets a   *)
(* recording between its creation and its lock, a live recording is left   *)
(* alone, what was flushed or synced is not lost, and a file offered as a  *)
(* replay is a whole one.  The recovery goes by name where the lock goes   *)
(* by file: it removes the .part after it has closed it, and renames what  *)
(* the name leads to.  So the argument is that a base only ever leads to   *)
(* one recording (OneRecording): a recording starts at a base that nothing *)
(* is known of, in the directory, on the disk or in a process              *)
(* (FreshBases).  Then whoever writes a recording holds the lock of what   *)
(* its base leads to, and who removes it has seen that it is worth         *)
(* nothing, which it remains.                                              *)
(*                                                                         *)
(* Accounts.  Whatever ends the server at whatever step of a save, and     *)
(* whatever a power cut leaves of the directory, the account file is whole *)
(* and has every account whose player was told so.                         *)
(*                                                                         *)
(* The end composes the two with the packages of a lobby.                  *)
(***************************************************************************)
EXTENDS MCKeep, PackagesProofs

-----------------------------------------------------------------------------
(* Recordings.                                                             *)

\* One process records at a time, and no recovery pass meets a recording that
\* is created and not locked yet.
OneGame == (\A p, q \in Recorders : p = q) /\ ~MeetsCreation

\* Places where a process holds the lock of the file it has open, where it has
\* a file open, and the ones that only a recorder, or only a recovery, is at.
Locking == {"header", "live", "read", "truncate", "trail", "count", "sync",
            "name", "rename", "dirsync"}
Opening == Locking \cup {"lock", "win"}
BeginsAt == {"look", "create", "lock", "header", "undo", "live", "nothing"}

HasItsFile(p) ==
  /\ proc[p].at \in Opening <=> proc[p].open # NoFile
  /\ \A f \in Files : lock[f] = p <=> proc[p].at \in Locking /\ proc[p].open = f
  /\ proc[p].at \in BeginsAt => p \in Recorders
  /\ proc[p].at = "idle" => proc[p] = Idle
AllHaveTheirFiles == \A p \in Processes : HasItsFile(p)

-----------------------------------------------------------------------------
(* A base and the one recording that is ever made at it.                    *)

\* File f has been seen at base b: in the directory, in what of it is on the
\* disk, or by a process that has it open there.
TracedIn(f, b, parts, finals, sidecars) ==
  f \in {parts[b], sidecars[b], finals[<<b, 0>>], finals[<<b, 1>>]}
Opened(f, b) == \E p \in Processes : proc[p].base = b /\ proc[p].open = f
Traced(f, b) ==
  \/ TracedIn(f, b, part, final, sidecar)
  \/ TracedIn(f, b, synced.part, synced.final, synced.sidecar)
  \/ Opened(f, b)

OneRecording ==
  \A f, g \in Files, b, c \in Bases :
    Traced(f, b) /\ Traced(g, c) => (f = g <=> b = c)

Untraced(b) == \A f \in Files : ~Traced(f, b)
Visits(p, b) == proc[p].at # "idle" /\ proc[p].base = b

\* The bases that a recorder is still to create a file at.
Later(b, g) == b > started[g] \/ (b = started[g] /\ proc[g].at \in {"look", "create"})

\* A recording starts at a base of its own: nothing is known of a base until
\* its file is created, nor of any later one.
FreshBases ==
  \A g \in Recorders :
    /\ started[g] =< now
    /\ proc[g].at # "idle" => proc[g].base = started[g]
    /\ \A b \in Bases : Later(b, g) =>
         Untraced(b) /\ \A p \in Processes \ {g} : ~Visits(p, b)

-----------------------------------------------------------------------------
(* Where a process is and what is at its base.                              *)

\* The file is written, or about to be named, by the one at these places, ...
Writing == {"lock", "header", "live", "truncate", "trail", "count", "sync", "name", "rename"}
\* ... removed by name, by who has closed it, ...
Removing == {"undo", "nothing", "discard"}
\* ... and has lost its first name.
RenamedPart == {"dirsync", "unchk"}

NameFree(parts, finals) ==
  \A b \in Bases : parts[b] # NoFile => \A a \in Alternatives : finals[<<b, a>>] = NoFile

Placed(p) ==
  LET b == proc[p].base
      f == proc[p].open
  IN /\ proc[p].at \in Writing => part[b] = f
     /\ proc[p].at \in RenamedPart => part[b] = NoFile
     /\ proc[p].at = "read" => part[b] = f \/ Worthless(f)
     /\ proc[p].at \in Removing /\ part[b] # NoFile =>
          /\ Worthless(part[b])
          /\ \A q \in Processes : proc[q].at \in Writing => proc[q].base # b
     /\ proc[p].at = "lock" =>
          /\ lock[f] = Nobody
          /\ \A q \in Processes \ {p} : proc[q].open # f
AtPlaces == \A p \in Processes : Placed(p)

\* What a file holds when a process is somewhere with it.
Prepared(p) ==
  LET f == proc[p].open
  IN /\ proc[p].at \in {"lock", "header"} => ~file[f].header /\ file[f].bundles = 0
     /\ proc[p].at = "live" =>
          file[f].header /\ file[f].bundles =< log[p] /\ sidecar[proc[p].base] = f
     /\ proc[p].at \in {"truncate", "trail", "count", "sync", "name", "rename"} => ~Worthless(f)
     /\ proc[p].at \in {"trail", "count"} => ~file[f].torn
     /\ proc[p].at = "count" => file[f].trail = "whole"
     /\ proc[p].at \in {"sync", "name", "rename"} => Complete(f)
     /\ proc[p].at \in {"name", "rename"} => synced.file[f] = file[f]
AllPrepared == \A p \in Processes : Prepared(p)

-----------------------------------------------------------------------------
(* What survives.                                                           *)

\* A replay is whole, and so on the disk.
WholeIn(finals) ==
  \A n \in DOMAIN finals : finals[n] # NoFile =>
    /\ ~Worthless(finals[n]) /\ Complete(finals[n])
    /\ synced.file[finals[n]] = file[finals[n]]

NamedIn(f, parts, finals) ==
  (\E b \in Bases : parts[b] = f) \/ (\E n \in Bases \X Alternatives : finals[n] = f)

\* What is on the disk of a file has a name there and here, and only grows;
\* bundles come after a header.
OnDisk ==
  \A f \in Files :
    /\ synced.file[f].bundles > 0 =>
         /\ synced.file[f].header /\ file[f].header
         /\ file[f].bundles >= synced.file[f].bundles
         /\ NamedIn(f, part, final) /\ NamedIn(f, synced.part, synced.final)
    /\ file[f].bundles > 0 => file[f].header

RecInv ==
  /\ RecTypeOK /\ AllHaveTheirFiles
  /\ OneRecording /\ FreshBases
  /\ NameFree(part, final) /\ NameFree(part, synced.final) /\ NameFree(synced.part, synced.final)
  /\ AtPlaces /\ AllPrepared
  /\ WholeIn(final) /\ WholeIn(synced.final)
  /\ NothingFlushedIsLost /\ OnDisk

-----------------------------------------------------------------------------
(* Types.                                                                   *)

ProcType == [at : Places, base : Bases, open : Files \cup {NoFile}, alternative : Alternatives]
Named0 == Files \cup {NoFile}
DiskType == [file : [Files -> Contents], part : [Bases -> Named0],
             final : [Bases \X Alternatives -> Named0], sidecar : [Bases -> Named0]]

\* RecTypeOK without what it says of locks, which AllHaveTheirFiles says.
VarsOK ==
  /\ part \in [Bases -> Named0]
  /\ final \in [Bases \X Alternatives -> Named0]
  /\ sidecar \in [Bases -> Named0]
  /\ file \in [Files -> Contents]
  /\ synced \in DiskType
  /\ lock \in [Files -> Processes \cup {Nobody}]
  /\ proc \in [Processes -> ProcType]
  /\ now \in Bases /\ started \in [Recorders -> 0 .. NBases]
  /\ log \in [Recorders -> 0 .. MaxBundles]
  /\ promised \in [Files -> 0 .. MaxBundles]
  /\ cuts \in 0 .. MaxCuts

LEMMA Typing ==
  /\ RecTypeOK => VarsOK
  /\ VarsOK /\ AllHaveTheirFiles => RecTypeOK
<1>1. RecTypeOK => VarsOK BY DEF RecTypeOK, VarsOK, ProcType, Named0, DiskType
<1>2. ASSUME VarsOK, AllHaveTheirFiles PROVE RecTypeOK
  <2>1. ASSUME NEW f \in Files, lock[f] # Nobody PROVE proc[lock[f]].open = f
    <3>1. lock[f] \in Processes BY <1>2, <2>1 DEF VarsOK
    <3> QED BY <1>2, <3>1 DEF AllHaveTheirFiles, HasItsFile
  <2> QED BY <1>2, <2>1 DEF RecTypeOK, VarsOK, ProcType, Named0, DiskType
<1> QED BY <1>1, <1>2

\* No base is a file's name for none, and nobody is a process.
LEMMA NobodyApart == /\ NoFile \notin Files
               /\ Nobody \notin Processes
               /\ NBases \in Nat /\ 1 \in Bases
BY RecordingAssumption DEF NoFile, Files, Processes, Bases

LEMMA IdleTyped == Idle \in ProcType
BY NobodyApart DEF Idle, ProcType, Places, Alternatives

\* What the ways to go on do to a process.
LEMMA Going ==
  ASSUME VarsOK, NEW p \in Processes, NEW place \in Places, Goes(p, place)
  PROVE  /\ proc' \in [Processes -> ProcType]
         /\ \A q \in Processes \ {p} : proc'[q] = proc[q]
         /\ proc'[p].at = place /\ proc'[p].base = proc[p].base
         /\ proc'[p].open = proc[p].open /\ proc'[p].alternative = proc[p].alternative
BY DEF VarsOK, Goes, ProcType

LEMMA Closing ==
  ASSUME VarsOK, NEW p \in Processes, NEW place \in Places, Closes(p, place)
  PROVE  /\ proc' \in [Processes -> ProcType]
         /\ \A q \in Processes \ {p} : proc'[q] = proc[q]
         /\ place = "idle" => proc'[p] = Idle
         /\ place # "idle" => /\ proc'[p].at = place /\ proc'[p].base = proc[p].base
                              /\ proc'[p].open = NoFile
         /\ lock' = [f \in Files |-> IF lock[f] = p THEN Nobody ELSE lock[f]]
<1>1. proc \in [Processes -> ProcType] BY DEF VarsOK
<1>2. [proc[p] EXCEPT !.at = place, !.open = NoFile] \in ProcType
  BY <1>1 DEF ProcType
<1> DEFINE new == IF place = "idle" THEN Idle ELSE [proc[p] EXCEPT !.at = place, !.open = NoFile]
<1>3. new \in ProcType BY <1>2, IdleTyped
<1>4. proc' = [proc EXCEPT ![p] = new] BY DEF Closes
<1>5. place # "idle" => /\ new.at = place /\ new.base = proc[p].base /\ new.open = NoFile
  BY <1>1 DEF ProcType
<1>6. place = "idle" => new = Idle OBVIOUS
<1> HIDE DEF new
<1>7. proc'[p] = new /\ \A q \in Processes \ {p} : proc'[q] = proc[q]
  BY <1>1, <1>4
<1>8. proc' \in [Processes -> ProcType] BY <1>1, <1>3, <1>4
<1> QED BY <1>5, <1>6, <1>7, <1>8 DEF Closes

\* A process that gives up, or has nothing more to do.
LEMMA Resting ==
  ASSUME VarsOK, NEW p \in Processes, proc' = [proc EXCEPT ![p] = Idle]
  PROVE  /\ proc' \in [Processes -> ProcType]
         /\ \A q \in Processes \ {p} : proc'[q] = proc[q]
         /\ proc'[p] = Idle
BY IdleTyped DEF VarsOK

-----------------------------------------------------------------------------
(* What a step of one process does.                                         *)

Changing == {"header", "live", "truncate", "trail", "count"}

\* To the files, the locks and the disk: only to the file it has open.
FileEffect(p) ==
  \A f \in Files :
    /\ \/ file'[f] = file[f]
       \/ proc[p].at \in Changing /\ proc[p].open = f
    /\ file[f].header => file'[f].header
    /\ file[f].bundles =< file'[f].bundles
    /\ file'[f].bundles = file[f].bundles \/ (proc[p].at = "live" /\ proc[p].open = f)
    /\ \/ lock'[f] = lock[f]
       \/ proc[p].open = f /\ lock[f] \in {p, Nobody} /\ lock'[f] \in {p, Nobody}
    /\ \/ synced'.file[f] = synced.file[f]
       \/ /\ proc[p].at \in {"live", "sync"} /\ proc[p].open = f
          /\ synced'.file[f] = file[f] /\ file' = file /\ synced'.part = part

\* To the directory: only to what is at its base.
DirectoryEffect(p) ==
  LET at == proc[p].at
      b == proc[p].base
  IN /\ \/ part' = part
        \/ at \in Removing \cup {"rename"} /\ part' = [part EXCEPT ![b] = NoFile]
     /\ \/ sidecar' = sidecar
        \/ at = "header" /\ sidecar' = [sidecar EXCEPT ![b] = proc[p].open]
        \/ at \in Removing \cup {"unchk"} /\ sidecar' = [sidecar EXCEPT ![b] = NoFile]
     /\ \/ final' = final
        \/ /\ at = "rename" /\ part[b] # NoFile /\ part' = [part EXCEPT ![b] = NoFile]
           /\ final' = [final EXCEPT ![<<b, proc[p].alternative>>] = part[b]]
     /\ at = "rename" /\ part' # part => final' # final
     /\ \/ synced'.part = synced.part /\ synced'.final = synced.final
                                      /\ synced'.sidecar = synced.sidecar
        \/ /\ synced'.part = part /\ synced'.final = final /\ synced'.sidecar = sidecar
           /\ UNCHANGED directory /\ file' = file

Effect(p) ==
  /\ VarsOK'
  /\ \A q \in Processes \ {p} : proc'[q] = proc[q]
  /\ FileEffect(p) /\ DirectoryEffect(p)
  /\ \A q \in Recorders \ {p} : log'[q] = log[q]

\* Where recordings start at bases of their own, no name is taken.
LEMMA NameIsFree ==
  ASSUME RecInv, NEW p \in Processes
  PROVE  /\ proc[p].at = "look" => final[<<proc[p].base, 0>>] = NoFile
         /\ proc[p].at = "create" => part[proc[p].base] = NoFile
         /\ proc[p].at = "lock" => lock[proc[p].open] = Nobody
         /\ proc[p].at = "rename" => part[proc[p].base] = proc[p].open
                                     /\ proc[p].open # NoFile
<1>1. VarsOK BY Typing DEF RecInv
<1>2. proc[p].base \in Bases /\ <<proc[p].base, 0>> \in Bases \X Alternatives
  BY <1>1 DEF VarsOK, ProcType, Alternatives
<1>3. ASSUME proc[p].at \in {"look", "create"} PROVE p \in Recorders /\ Untraced(proc[p].base)
  <2>1. p \in Recorders BY <1>3 DEF RecInv, AllHaveTheirFiles, HasItsFile, BeginsAt
  <2> QED BY <1>2, <1>3, <2>1 DEF RecInv, FreshBases, Later
<1>4. part[proc[p].base] \in Files \cup {NoFile}
      /\ final[<<proc[p].base, 0>>] \in Files \cup {NoFile}
  BY <1>1, <1>2 DEF VarsOK, Named0
<1>5. proc[p].at \in {"look", "create"} =>
        part[proc[p].base] = NoFile /\ final[<<proc[p].base, 0>>] = NoFile
  BY <1>2, <1>3, <1>4 DEF Untraced, Traced, TracedIn
<1>6. Placed(p) BY DEF RecInv, AtPlaces
<1>7. HasItsFile(p) BY DEF RecInv, AllHaveTheirFiles
<1>8. proc[p].at = "lock" => lock[proc[p].open] = Nobody BY <1>6 DEF Placed
<1>9. proc[p].at = "rename" => part[proc[p].base] = proc[p].open /\ proc[p].open # NoFile
  BY <1>6, <1>7 DEF Placed, Writing, HasItsFile, Opening, Locking
<1> QED BY <1>5, <1>8, <1>9

\* The fields that DirectoryEffect and FileEffect say stay as they are.
LEMMA NothingOnFile ==
  ASSUME VarsOK, NEW p \in Processes, UNCHANGED <<file, synced>>,
         \/ UNCHANGED lock
         \/ HasItsFile(p) /\ lock' = [f \in Files |-> IF lock[f] = p THEN Nobody ELSE lock[f]]
  PROVE  FileEffect(p)
<1>1. \A f \in Files : file[f].bundles =< file[f].bundles BY DEF VarsOK, Contents
<1>2. ASSUME NEW f \in Files
      PROVE  \/ lock'[f] = lock[f]
             \/ proc[p].open = f /\ lock[f] \in {p, Nobody} /\ lock'[f] \in {p, Nobody}
  BY DEF VarsOK, HasItsFile
<1> QED BY <1>1, <1>2 DEF FileEffect

LEMMA NothingInDirectory ==
  ASSUME VarsOK, NEW p \in Processes, UNCHANGED directory,
         \/ synced'.part = synced.part /\ synced'.final = synced.final
                                       /\ synced'.sidecar = synced.sidecar
         \/ /\ synced'.part = part /\ synced'.final = final /\ synced'.sidecar = sidecar
            /\ file' = file
  PROVE  DirectoryEffect(p)
BY DEF DirectoryEffect, directory

\* A write to its own file that keeps the header and the bundles.
LEMMA Writes ==
  ASSUME VarsOK, NEW p \in Processes, proc[p].at \in Changing, proc[p].open \in Files,
         NEW c \in Contents, file' = [file EXCEPT ![proc[p].open] = c],
         file[proc[p].open].header => c.header,
         file[proc[p].open].bundles =< c.bundles,
         c.bundles = file[proc[p].open].bundles \/ proc[p].at = "live",
         UNCHANGED synced,
         \/ UNCHANGED lock
         \/ HasItsFile(p) /\ lock' = [f \in Files |-> IF lock[f] = p THEN Nobody ELSE lock[f]]
  PROVE  FileEffect(p) /\ file' \in [Files -> Contents]
<1>1. file' \in [Files -> Contents] BY DEF VarsOK
<1>2. \A f \in Files : file[f].bundles =< file[f].bundles BY DEF VarsOK, Contents
<1>3. ASSUME NEW f \in Files
      PROVE  \/ lock'[f] = lock[f]
             \/ proc[p].open = f /\ lock[f] \in {p, Nobody} /\ lock'[f] \in {p, Nobody}
  BY DEF VarsOK, HasItsFile
<1>4. \A f \in Files : f # proc[p].open => file'[f] = file[f] BY DEF VarsOK
<1>5. file'[proc[p].open] = c BY DEF VarsOK
<1>6. ASSUME NEW f \in Files
      PROVE  /\ \/ file'[f] = file[f]
                \/ proc[p].at \in Changing /\ proc[p].open = f
             /\ file[f].header => file'[f].header
             /\ file[f].bundles =< file'[f].bundles
             /\ file'[f].bundles = file[f].bundles \/ (proc[p].at = "live" /\ proc[p].open = f)
  <2>1. CASE f = proc[p].open BY <1>5, <2>1
  <2>2. CASE f # proc[p].open BY <1>2, <1>4, <2>2
  <2> QED BY <2>1, <2>2
<1> QED BY <1>1, <1>3, <1>6 DEF FileEffect

LEMMA ClosesTyped ==
  ASSUME VarsOK, lock' \in {lock} \cup {[f \in Files |-> IF lock[f] = p THEN Nobody ELSE lock[f]] : p \in Processes}
  PROVE  lock' \in [Files -> Processes \cup {Nobody}]
BY DEF VarsOK

\* The steps on the way to a live recording.
LEMMA StartEffect ==
  ASSUME RecInv, NEW p \in Processes,
         OpenRecording(p) \/ Look(p) \/ Lock(p) \/ WriteHeader(p) \/ Undo(p) \/ RemoveEmpty(p) \/ Discard(p)
  PROVE  Effect(p)
<1>1. VarsOK /\ HasItsFile(p) BY Typing DEF RecInv, AllHaveTheirFiles
<1>2. CASE OpenRecording(p)
  <2>1. p \in Recorders BY <1>2 DEF OpenRecording
  <2>2. proc' \in [Processes -> ProcType] /\ \A q \in Processes \ {p} : proc'[q] = proc[q]
    <3> DEFINE k == [proc[p] EXCEPT !.at = "look", !.base = now]
    <3>1. proc[p] \in ProcType /\ proc \in [Processes -> ProcType] /\ now \in Bases
      BY <1>1 DEF VarsOK
    <3>2. k \in ProcType BY <3>1 DEF ProcType, Places
    <3>3. proc' = [proc EXCEPT ![p] = k] BY <1>2 DEF OpenRecording
    <3> HIDE DEF k
    <3> QED BY <3>1, <3>2, <3>3
  <2>3. started' \in [Recorders -> 0 .. NBases]
    BY <1>1, <1>2, NobodyApart DEF OpenRecording, VarsOK, Bases
  <2>4. VarsOK' BY <1>1, <1>2, <2>2, <2>3 DEF OpenRecording, VarsOK, directory
  <2> QED BY <1>1, <1>2, <2>2, <2>4, NothingOnFile, NothingInDirectory DEF OpenRecording, Effect
<1>3. CASE Look(p)
  <2>1. Goes(p, "create") BY <1>3, NameIsFree DEF Look, At
  <2>2. proc' \in [Processes -> ProcType] /\ \A q \in Processes \ {p} : proc'[q] = proc[q]
    BY <1>1, <2>1, Going DEF Places
  <2>3. VarsOK' BY <1>1, <1>3, <2>2 DEF Look, VarsOK, directory, time
  <2> QED BY <1>1, <1>3, <2>2, <2>3, NothingOnFile, NothingInDirectory DEF Look, Effect
<1>4. CASE Lock(p)
  <2>1. /\ lock' = [lock EXCEPT ![proc[p].open] = p] /\ lock[proc[p].open] = Nobody
        /\ Goes(p, "header")
    BY <1>4, NameIsFree DEF Lock, At
  <2>2. proc' \in [Processes -> ProcType] /\ \A q \in Processes \ {p} : proc'[q] = proc[q]
    BY <1>1, <2>1, Going DEF Places
  <2>3. VarsOK' BY <1>1, <1>4, <2>1, <2>2 DEF Lock, VarsOK, directory, time
  <2>4. FileEffect(p)
    <3>1. \A f \in Files : file[f].bundles =< file[f].bundles BY <1>1 DEF VarsOK, Contents
    <3>2. ASSUME NEW f \in Files
          PROVE  \/ lock'[f] = lock[f]
                 \/ proc[p].open = f /\ lock[f] \in {p, Nobody} /\ lock'[f] \in {p, Nobody}
      BY <1>1, <2>1 DEF VarsOK
    <3> QED BY <1>4, <3>1, <3>2 DEF Lock, FileEffect
  <2> QED BY <1>1, <1>4, <2>2, <2>3, <2>4, NothingInDirectory DEF Lock, Effect
<1>5. CASE WriteHeader(p)
  <2> DEFINE f == proc[p].open
  <2>1. proc[p].at = "header" /\ f \in Files
    BY <1>1, <1>5 DEF WriteHeader, At, HasItsFile, Opening, Locking, VarsOK, ProcType
  <2>2. sidecar' = [sidecar EXCEPT ![proc[p].base] = f] /\ sidecar' \in [Bases -> Named0]
    BY <1>1, <1>5, <2>1 DEF WriteHeader, VarsOK, Named0
  <2>3. DirectoryEffect(p) BY <1>5, <2>1, <2>2 DEF WriteHeader, DirectoryEffect
  <2>4. CASE file' = [file EXCEPT ![f].header = TRUE] /\ Goes(p, "live") /\ UNCHANGED lock
    <3> DEFINE c == [file[f] EXCEPT !.header = TRUE]
    <3>0. file[f] \in Contents BY <1>1, <2>1 DEF VarsOK
    <3>1. /\ c \in Contents /\ c.header
          /\ file[f].bundles =< c.bundles /\ c.bundles = file[f].bundles
      <4>1. file[f].bundles \in Int BY <3>0 DEF Contents
      <4>2. c \in Contents /\ c.header /\ file[f].bundles = c.bundles BY <3>0 DEF Contents
      <4> QED BY <4>1, <4>2
    <3>2. file' = [file EXCEPT ![f] = c] BY <1>1, <2>1, <2>4 DEF VarsOK
    <3> HIDE DEF c
    <3>3. FileEffect(p) /\ file' \in [Files -> Contents]
      BY <1>1, <1>5, <2>1, <2>4, <3>1, <3>2, Writes DEF WriteHeader, Changing
    <3>4. proc' \in [Processes -> ProcType] /\ \A q \in Processes \ {p} : proc'[q] = proc[q]
      BY <1>1, <2>4, Going DEF Places
    <3>5. VarsOK' BY <1>1, <1>5, <2>2, <2>4, <3>3, <3>4 DEF WriteHeader, VarsOK, time
    <3> QED BY <1>5, <2>3, <3>3, <3>4, <3>5 DEF WriteHeader, Effect
  <2>5. CASE Closes(p, "undo") /\ UNCHANGED file
    <3>1. /\ proc' \in [Processes -> ProcType] /\ \A q \in Processes \ {p} : proc'[q] = proc[q]
          /\ lock' = [g \in Files |-> IF lock[g] = p THEN Nobody ELSE lock[g]]
      BY <1>1, <2>5, Closing DEF Places
    <3>2. FileEffect(p) BY <1>1, <1>5, <2>5, <3>1, NothingOnFile DEF WriteHeader
    <3>3. VarsOK' BY <1>1, <1>5, <2>2, <2>5, <3>1, ClosesTyped DEF WriteHeader, VarsOK, time
    <3> QED BY <1>5, <2>3, <3>1, <3>2, <3>3 DEF WriteHeader, Effect
  <2> QED BY <1>5, <2>4, <2>5 DEF WriteHeader
<1>6. CASE Undo(p) \/ RemoveEmpty(p) \/ Discard(p)
  <2>1. RemovesPart(p) /\ proc[p].at \in Removing
    BY <1>6 DEF Undo, RemoveEmpty, Discard, At, Removing
  <2>2. /\ proc' \in [Processes -> ProcType] /\ \A q \in Processes \ {p} : proc'[q] = proc[q]
    BY <1>1, <2>1, Resting DEF RemovesPart
  <2>3. part' \in [Bases -> Named0] /\ sidecar' \in [Bases -> Named0]
    BY <1>1, <2>1 DEF RemovesPart, VarsOK, Named0
  <2>4. VarsOK' BY <1>1, <2>1, <2>2, <2>3 DEF RemovesPart, VarsOK, time
  <2>5. FileEffect(p) BY <1>1, <2>1, NothingOnFile DEF RemovesPart
  <2>6. DirectoryEffect(p) BY <2>1 DEF RemovesPart, DirectoryEffect, Removing
  <2> QED BY <2>1, <2>2, <2>4, <2>5, <2>6 DEF RemovesPart, Effect
<1> QED BY <1>2, <1>3, <1>4, <1>5, <1>6

\* A flush, good or bad, only adds bundles.
LEMMA FlushEffect ==
  ASSUME RecInv, NEW p \in Processes, proc[p].at = "live", FlushOk(p) \/ FlushFails(p),
         UNCHANGED synced,
         \/ UNCHANGED lock
         \/ lock' = [f \in Files |-> IF lock[f] = p THEN Nobody ELSE lock[f]]
  PROVE  /\ FileEffect(p) /\ file' \in [Files -> Contents]
         /\ promised' \in [Files -> 0 .. MaxBundles]
<1> DEFINE f == proc[p].open
<1>1. VarsOK /\ HasItsFile(p) /\ Prepared(p)
  BY Typing DEF RecInv, AllHaveTheirFiles, AllPrepared
<1>2. f \in Files /\ p \in Recorders
  BY <1>1 DEF HasItsFile, Opening, Locking, BeginsAt, VarsOK, ProcType
<1>3. file[f] \in Contents /\ file[f].bundles =< log[p] /\ log[p] \in 0 .. MaxBundles
  BY <1>1, <1>2 DEF VarsOK, Prepared
<1>4. MaxBundles \in Nat BY RecordingAssumption
<1>5. CASE FlushOk(p)
  <2> DEFINE c == [file[f] EXCEPT !.bundles = log[p], !.torn = FALSE]
  <2>1. c \in Contents /\ c.header = file[f].header /\ c.bundles = log[p]
    BY <1>3 DEF Contents
  <2>2. file' = [file EXCEPT ![f] = c] /\ promised' = [promised EXCEPT ![f] = log[p]]
    BY <1>5 DEF FlushOk, Flushed
  <2> HIDE DEF c
  <2> QED BY <1>1, <1>2, <1>3, <2>1, <2>2, Writes DEF Changing, VarsOK
<1>6. CASE FlushFails(p)
  <2>1. PICK n, torn : /\ n \in file[f].bundles .. log[p] - 1 /\ torn \in BOOLEAN
                       /\ file' = [file EXCEPT ![f].bundles = n, ![f].torn = torn]
    BY <1>6 DEF FlushFails
  <2>2. promised' = promised BY <1>6 DEF FlushFails
  <2> DEFINE c == [file[f] EXCEPT !.bundles = n, !.torn = torn]
  <2>3. file[f].bundles \in 0 .. MaxBundles BY <1>3 DEF Contents
  <2>4. n \in 0 .. MaxBundles /\ file[f].bundles =< n BY <1>3, <1>4, <2>1, <2>3
  <2>5. c \in Contents /\ c.header = file[f].header /\ c.bundles = n
    BY <1>3, <2>1, <2>4 DEF Contents
  <2>6. file' = [file EXCEPT ![f] = c] BY <1>1, <1>2, <2>1 DEF VarsOK
  <2> HIDE DEF c
  <2> QED BY <1>1, <1>2, <1>3, <2>2, <2>4, <2>5, <2>6, Writes DEF Changing, VarsOK
<1> QED BY <1>5, <1>6

\* The steps of a live recording, up to its last flush.
LEMMA LiveEffect ==
  ASSUME RecInv, NEW p \in Processes,
         AppendBundle(p) \/ Flush(p) \/ SyncAsync(p) \/ Finish(p)
  PROVE  Effect(p)
<1>1. VarsOK /\ HasItsFile(p) BY Typing DEF RecInv, AllHaveTheirFiles
<1>2. proc[p].at = "live" BY DEF AppendBundle, Flush, SyncAsync, Finish, At
<1>3. proc[p].open \in Files /\ p \in Recorders
  BY <1>1, <1>2 DEF HasItsFile, Opening, Locking, BeginsAt, VarsOK, ProcType
<1>4. CASE AppendBundle(p)
  <2>1. log[p] + 1 \in 0 .. MaxBundles
    BY <1>1, <1>3, <1>4, RecordingAssumption DEF AppendBundle, VarsOK
  <2>2. VarsOK' BY <1>1, <1>3, <1>4, <2>1 DEF AppendBundle, VarsOK, directory, time
  <2> QED BY <1>1, <1>4, <2>2, NothingOnFile, NothingInDirectory DEF AppendBundle, Effect, VarsOK
<1>5. CASE Flush(p)
  <2>1. /\ FileEffect(p) /\ file' \in [Files -> Contents]
        /\ promised' \in [Files -> 0 .. MaxBundles]
    BY <1>2, <1>5, FlushEffect DEF Flush
  <2>2. VarsOK' BY <1>1, <1>5, <2>1 DEF Flush, VarsOK, directory, time
  <2> QED BY <1>1, <1>5, <2>1, <2>2, NothingInDirectory DEF Flush, Effect
<1>6. CASE SyncAsync(p)
  <2>1. synced' = Synced(proc[p].open) /\ file' = file /\ UNCHANGED <<directory, lock>>
    BY <1>6 DEF SyncAsync
  <2>2. synced' \in DiskType BY <1>1, <1>3, <2>1 DEF Synced, VarsOK, DiskType
  <2>3. VarsOK' BY <1>1, <1>6, <2>2 DEF SyncAsync, VarsOK, directory, time
  <2>4. DirectoryEffect(p)
    BY <1>1, <2>1, NothingInDirectory DEF Synced, directory
  <2>5. FileEffect(p)
    <3>1. \A f \in Files : file[f].bundles =< file[f].bundles BY <1>1 DEF VarsOK, Contents
    <3>2. \A f \in Files : synced'.file[f] = IF f = proc[p].open THEN file[f] ELSE synced.file[f]
      BY <1>1, <2>1 DEF Synced, VarsOK, DiskType
    <3>3. synced'.part = part BY <2>1 DEF Synced
    <3> QED BY <1>2, <2>1, <3>1, <3>2, <3>3 DEF FileEffect
  <2> QED BY <1>6, <2>3, <2>4, <2>5 DEF SyncAsync, Effect
<1>7. CASE Finish(p)
  <2>1. log' = [log EXCEPT ![p] = 0] /\ UNCHANGED <<directory, synced, cuts, time>>
    BY <1>7 DEF Finish
  <2>2. log' \in [Recorders -> 0 .. MaxBundles] /\ \A q \in Recorders \ {p} : log'[q] = log[q]
    <3>1. 0 \in 0 .. MaxBundles BY RecordingAssumption
    <3> QED BY <1>1, <2>1, <3>1 DEF VarsOK
  <2>3. DirectoryEffect(p) BY <1>1, <2>1, NothingInDirectory
  <2>4. /\ FileEffect(p) /\ file' \in [Files -> Contents]
        /\ promised' \in [Files -> 0 .. MaxBundles]
        /\ lock' \in [Files -> Processes \cup {Nobody}]
        /\ proc' \in [Processes -> ProcType]
        /\ \A q \in Processes \ {p} : proc'[q] = proc[q]
    <3>1. CASE FlushFails(p) /\ Closes(p, "idle")
      <4>1. /\ proc' \in [Processes -> ProcType] /\ \A q \in Processes \ {p} : proc'[q] = proc[q]
            /\ lock' = [g \in Files |-> IF lock[g] = p THEN Nobody ELSE lock[g]]
        BY <1>1, <3>1, Closing DEF Places
      <4> QED BY <1>1, <1>2, <2>1, <3>1, <4>1, FlushEffect, ClosesTyped
    <3>2. CASE Closes(p, "nothing") /\ UNCHANGED <<file, promised>>
      <4>1. /\ proc' \in [Processes -> ProcType] /\ \A q \in Processes \ {p} : proc'[q] = proc[q]
            /\ lock' = [g \in Files |-> IF lock[g] = p THEN Nobody ELSE lock[g]]
        BY <1>1, <3>2, Closing DEF Places
      <4>2. FileEffect(p) BY <1>1, <2>1, <3>2, <4>1, NothingOnFile
      <4> QED BY <1>1, <3>2, <4>1, <4>2, ClosesTyped DEF VarsOK
    <3>3. CASE FlushOk(p) /\ Goes(p, "trail") /\ UNCHANGED lock
      <4>1. proc' \in [Processes -> ProcType] /\ \A q \in Processes \ {p} : proc'[q] = proc[q]
        BY <1>1, <3>3, Going DEF Places
      <4> QED BY <1>1, <1>2, <2>1, <3>3, <4>1, FlushEffect DEF VarsOK
    <3> QED BY <1>7, <3>1, <3>2, <3>3 DEF Finish
  <2>5. VarsOK' BY <1>1, <2>1, <2>2, <2>4 DEF VarsOK, directory, time
  <2> QED BY <2>2, <2>3, <2>4, <2>5 DEF Effect
<1> QED BY <1>4, <1>5, <1>6, <1>7

\* A write of the file's end, or one that fails and leaves the rest to the next
\* recovery.
LEMMA EndEffect ==
  ASSUME RecInv, NEW p \in Processes, WriteTrail(p) \/ WriteCount(p) \/ Truncate(p)
  PROVE  Effect(p)
<1> DEFINE f == proc[p].open
<1>1. VarsOK /\ HasItsFile(p) BY Typing DEF RecInv, AllHaveTheirFiles
<1>2. proc[p].at \in {"trail", "count", "truncate"}
  BY DEF WriteTrail, WriteCount, Truncate, At
<1>3. f \in Files /\ proc[p].at \in Changing
  BY <1>1, <1>2 DEF HasItsFile, Opening, Locking, VarsOK, ProcType, Changing
<1>4. UNCHANGED <<directory, synced, log, promised, cuts, time>>
  BY DEF WriteTrail, WriteCount, Truncate, Fails
<1>5. DirectoryEffect(p) BY <1>1, <1>4, NothingInDirectory
<1>6. file[f] \in Contents BY <1>1, <1>3 DEF VarsOK
<1>7. \/ file' = [file EXCEPT ![f].torn = FALSE, ![f].trail = "none"]
      \/ file' = [file EXCEPT ![f].trail = "whole"]
      \/ file' = [file EXCEPT ![f].trail = "torn"]
      \/ file' = [file EXCEPT ![f].count = file[f].bundles]
      \/ file' = file
  BY DEF WriteTrail, WriteCount, Truncate
<1>8. \E c \in Contents : /\ file' = [file EXCEPT ![f] = c]
                          /\ c.header = file[f].header /\ c.bundles = file[f].bundles
  <2>1. CASE file' = [file EXCEPT ![f].torn = FALSE, ![f].trail = "none"]
    <3> DEFINE c == [file[f] EXCEPT !.torn = FALSE, !.trail = "none"]
    <3>1. c \in Contents /\ c.header = file[f].header /\ c.bundles = file[f].bundles
      BY <1>6 DEF Contents
    <3>2. file' = [file EXCEPT ![f] = c] BY <1>1, <1>3, <2>1 DEF VarsOK
    <3> QED BY <3>1, <3>2
  <2>2. CASE file' = [file EXCEPT ![f].trail = "whole"]
    <3> DEFINE c == [file[f] EXCEPT !.trail = "whole"]
    <3>1. c \in Contents /\ c.header = file[f].header /\ c.bundles = file[f].bundles
      BY <1>6 DEF Contents
    <3>2. file' = [file EXCEPT ![f] = c] BY <1>1, <1>3, <2>2 DEF VarsOK
    <3> QED BY <3>1, <3>2
  <2>3. CASE file' = [file EXCEPT ![f].trail = "torn"]
    <3> DEFINE c == [file[f] EXCEPT !.trail = "torn"]
    <3>1. c \in Contents /\ c.header = file[f].header /\ c.bundles = file[f].bundles
      BY <1>6 DEF Contents
    <3>2. file' = [file EXCEPT ![f] = c] BY <1>1, <1>3, <2>3 DEF VarsOK
    <3> QED BY <3>1, <3>2
  <2>4. CASE file' = [file EXCEPT ![f].count = file[f].bundles]
    <3> DEFINE c == [file[f] EXCEPT !.count = file[f].bundles]
    <3>1. c \in Contents /\ c.header = file[f].header /\ c.bundles = file[f].bundles
      BY <1>6 DEF Contents
    <3>2. file' = [file EXCEPT ![f] = c] BY <1>1, <1>3, <2>4 DEF VarsOK
    <3> QED BY <3>1, <3>2
  <2>5. CASE file' = file
    <3>1. file' = [file EXCEPT ![f] = file[f]] BY <1>1, <1>3, <2>5 DEF VarsOK
    <3> QED BY <1>6, <3>1
  <2> QED BY <1>7, <2>1, <2>2, <2>3, <2>4, <2>5
<1>9. /\ proc' \in [Processes -> ProcType]
      /\ \A q \in Processes \ {p} : proc'[q] = proc[q]
      /\ UNCHANGED lock \/ lock' = [g \in Files |-> IF lock[g] = p THEN Nobody ELSE lock[g]]
  <2>1. \/ (Goes(p, "trail") \/ Goes(p, "count") \/ Goes(p, "sync")) /\ UNCHANGED lock
        \/ Closes(p, "idle")
    BY DEF WriteTrail, WriteCount, Truncate, Fails
  <2>2. CASE (Goes(p, "trail") \/ Goes(p, "count") \/ Goes(p, "sync")) /\ UNCHANGED lock
    BY <1>1, <2>2, Going DEF Places
  <2>3. CASE Closes(p, "idle") BY <1>1, <2>3, Closing DEF Places
  <2> QED BY <2>1, <2>2, <2>3
<1>10. FileEffect(p) /\ file' \in [Files -> Contents]
  <2>1. PICK c \in Contents : /\ file' = [file EXCEPT ![f] = c]
                              /\ c.header = file[f].header /\ c.bundles = file[f].bundles
    BY <1>8
  <2>2. file[f].bundles \in Int BY <1>6 DEF Contents
  <2>3. file[f].bundles =< c.bundles BY <2>1, <2>2
  <2> QED BY <1>1, <1>3, <1>4, <1>9, <2>1, <2>3, Writes
<1>11. lock' \in [Files -> Processes \cup {Nobody}] BY <1>1, <1>9, ClosesTyped
<1>12. VarsOK' BY <1>1, <1>4, <1>9, <1>10, <1>11 DEF VarsOK, directory, time
<1> QED BY <1>4, <1>5, <1>9, <1>10, <1>12 DEF Effect

\* The rest of publishing: the sync, the name, the rename, the directory.
LEMMA PublishEffect ==
  ASSUME RecInv, NEW p \in Processes,
         Sync(p) \/ ChooseName(p) \/ Rename(p) \/ SyncDirectory(p) \/ RemoveSidecar(p)
  PROVE  Effect(p)
<1>1. VarsOK /\ HasItsFile(p) BY Typing DEF RecInv, AllHaveTheirFiles
<1>2. CASE Sync(p)
  <2>1. proc[p].at = "sync" /\ proc[p].open \in Files
    BY <1>1, <1>2 DEF Sync, At, HasItsFile, Opening, Locking, VarsOK, ProcType
  <2>2. UNCHANGED <<directory, file, log, promised, cuts, time>> BY <1>2 DEF Sync, Fails
  <2>3. CASE synced' = Synced(proc[p].open) /\ Goes(p, "name") /\ UNCHANGED lock
    <3>1. synced' \in DiskType BY <1>1, <2>1, <2>3 DEF Synced, VarsOK, DiskType
    <3>2. proc' \in [Processes -> ProcType] /\ \A q \in Processes \ {p} : proc'[q] = proc[q]
      BY <1>1, <2>3, Going DEF Places
    <3>3. VarsOK' BY <1>1, <2>2, <2>3, <3>1, <3>2 DEF VarsOK, directory, time
    <3>4. DirectoryEffect(p) BY <1>1, <2>2, <2>3, NothingInDirectory DEF Synced
    <3>5. FileEffect(p)
      <4>1. \A f \in Files : file[f].bundles =< file[f].bundles BY <1>1 DEF VarsOK, Contents
      <4>2. \A f \in Files : synced'.file[f] = IF f = proc[p].open THEN file[f] ELSE synced.file[f]
        BY <1>1, <2>3 DEF Synced, VarsOK, DiskType
      <4>3. synced'.part = part BY <2>3 DEF Synced
      <4> QED BY <2>1, <2>2, <2>3, <4>1, <4>2, <4>3 DEF FileEffect
    <3> QED BY <2>2, <3>2, <3>3, <3>4, <3>5 DEF Effect
  <2>4. CASE Fails(p)
    <3>1. /\ proc' \in [Processes -> ProcType] /\ \A q \in Processes \ {p} : proc'[q] = proc[q]
          /\ lock' = [g \in Files |-> IF lock[g] = p THEN Nobody ELSE lock[g]]
          /\ synced' = synced
      BY <1>1, <2>4, Closing DEF Places, Fails
    <3>2. VarsOK' BY <1>1, <2>2, <3>1, ClosesTyped DEF VarsOK, directory, time
    <3> QED BY <1>1, <2>2, <3>1, <3>2, NothingOnFile, NothingInDirectory DEF Effect
  <2> QED BY <1>2, <2>3, <2>4 DEF Sync
<1>3. CASE ChooseName(p)
  <2> DEFINE free == {a \in Alternatives : final[<<proc[p].base, a>>] = NoFile}
  <2>1. UNCHANGED <<directory, file, synced, log, promised, cuts, time>> BY <1>3 DEF ChooseName
  <2>2. CASE free = {} /\ Closes(p, "idle")
    <3>1. /\ proc' \in [Processes -> ProcType] /\ \A q \in Processes \ {p} : proc'[q] = proc[q]
          /\ lock' = [g \in Files |-> IF lock[g] = p THEN Nobody ELSE lock[g]]
      BY <1>1, <2>2, Closing DEF Places
    <3>2. VarsOK' BY <1>1, <2>1, <3>1, ClosesTyped DEF VarsOK, directory, time
    <3> QED BY <1>1, <2>1, <3>1, <3>2, NothingOnFile, NothingInDirectory DEF Effect
  <2>3. CASE free # {} /\ ~(free = {} /\ Closes(p, "idle"))
    <3> DEFINE a == CHOOSE x \in free : \A y \in free : x =< y
    <3>1. a \in Alternatives
      <4>1. \E x \in free : \A y \in free : x =< y
        <5>1. CASE 0 \in free BY <5>1 DEF Alternatives
        <5>2. CASE 0 \notin free
          <6>1. \A y \in free : y = 1 BY <5>2 DEF Alternatives
          <6>2. PICK x \in free : TRUE BY <2>3
          <6> HIDE DEF free
          <6> QED BY <6>1, <6>2
        <5> QED BY <5>1, <5>2
      <4> QED BY <4>1
    <3>2. proc' = [proc EXCEPT ![p].at = "rename", ![p].alternative = a] /\ UNCHANGED lock
      BY <1>3, <2>3 DEF ChooseName
    <3> HIDE DEF a
    <3>3. proc' \in [Processes -> ProcType] /\ \A q \in Processes \ {p} : proc'[q] = proc[q]
      <4>1. proc[p] \in ProcType BY <1>1 DEF VarsOK
      <4>2. [proc[p] EXCEPT !.at = "rename", !.alternative = a] \in ProcType
        BY <3>1, <4>1 DEF ProcType, Places
      <4>3. proc' = [proc EXCEPT ![p] = [proc[p] EXCEPT !.at = "rename", !.alternative = a]]
        BY <1>1, <3>2 DEF VarsOK
      <4> QED BY <1>1, <4>2, <4>3 DEF VarsOK
    <3>4. VarsOK' BY <1>1, <2>1, <3>2, <3>3 DEF VarsOK, directory, time
    <3> QED BY <1>1, <2>1, <3>2, <3>3, <3>4, NothingOnFile, NothingInDirectory DEF Effect
  <2> QED BY <1>3, <2>2, <2>3 DEF ChooseName
<1>4. CASE Rename(p)
  <2> DEFINE b == proc[p].base
  <2>1. proc[p].at = "rename" /\ part[b] # NoFile /\ b \in Bases
    BY <1>1, <1>4, NameIsFree DEF Rename, At, VarsOK, ProcType
  <2>2. /\ final' = [final EXCEPT ![<<b, proc[p].alternative>>] = part[b]]
        /\ part' = [part EXCEPT ![b] = NoFile]
        /\ Goes(p, "dirsync")
        /\ UNCHANGED <<sidecar, lock, file, synced, log, promised, cuts, time>>
    BY <1>4, <2>1 DEF Rename
  <2>3. proc' \in [Processes -> ProcType] /\ \A q \in Processes \ {p} : proc'[q] = proc[q]
    BY <1>1, <2>2, Going DEF Places
  <2>4. final' \in [Bases \X Alternatives -> Named0] /\ part' \in [Bases -> Named0]
    BY <1>1, <2>1, <2>2 DEF VarsOK, Named0
  <2>5. VarsOK' BY <1>1, <2>2, <2>3, <2>4 DEF VarsOK, time
  <2>6. final' # final
    <3>1. <<b, proc[p].alternative>> \in Bases \X Alternatives BY <1>1 DEF VarsOK, ProcType
    <3>2. final[<<b, proc[p].alternative>>] = NoFile
      BY <1>1, <2>1 DEF RecInv, NameFree, VarsOK, ProcType
    <3>3. final'[<<b, proc[p].alternative>>] = part[b] BY <1>1, <2>2, <3>1 DEF VarsOK
    <3> QED BY <2>1, <3>2, <3>3
  <2>7. DirectoryEffect(p) BY <2>1, <2>2, <2>6 DEF DirectoryEffect
  <2> QED BY <1>1, <2>2, <2>3, <2>5, <2>7, NothingOnFile DEF Effect
<1>5. CASE SyncDirectory(p)
  <2>1. /\ synced' = [synced EXCEPT !.part = part, !.final = final, !.sidecar = sidecar]
        /\ UNCHANGED <<directory, file, log, promised, cuts, time>>
        /\ Closes(p, "unchk")
    BY <1>5 DEF SyncDirectory
  <2>2. /\ synced' \in DiskType /\ synced'.file = synced.file
        /\ synced'.part = part /\ synced'.final = final /\ synced'.sidecar = sidecar
    BY <1>1, <2>1 DEF VarsOK, DiskType
  <2>3. /\ proc' \in [Processes -> ProcType] /\ \A q \in Processes \ {p} : proc'[q] = proc[q]
        /\ lock' = [g \in Files |-> IF lock[g] = p THEN Nobody ELSE lock[g]]
    BY <1>1, <2>1, Closing DEF Places
  <2>4. VarsOK' BY <1>1, <2>1, <2>2, <2>3, ClosesTyped DEF VarsOK, directory, time
  <2>5. DirectoryEffect(p) BY <1>1, <2>1, <2>2, NothingInDirectory
  <2>6. FileEffect(p)
    <3>1. \A f \in Files : file[f].bundles =< file[f].bundles BY <1>1 DEF VarsOK, Contents
    <3>2. ASSUME NEW f \in Files
          PROVE  \/ lock'[f] = lock[f]
                 \/ proc[p].open = f /\ lock[f] \in {p, Nobody} /\ lock'[f] \in {p, Nobody}
      BY <1>1, <2>3 DEF HasItsFile
    <3> QED BY <2>1, <2>2, <3>1, <3>2 DEF FileEffect
  <2> QED BY <2>1, <2>3, <2>4, <2>5, <2>6 DEF Effect
<1>6. CASE RemoveSidecar(p)
  <2>1. /\ proc[p].at = "unchk" /\ sidecar' = [sidecar EXCEPT ![proc[p].base] = NoFile]
        /\ UNCHANGED <<part, final, file, synced, lock, log, promised, cuts, time>>
    BY <1>6 DEF RemoveSidecar, At
  <2>2. proc' \in [Processes -> ProcType] /\ \A q \in Processes \ {p} : proc'[q] = proc[q]
    BY <1>1, <1>6, Resting DEF RemoveSidecar
  <2>3. sidecar' \in [Bases -> Named0] BY <1>1, <2>1 DEF VarsOK, Named0
  <2>4. VarsOK' BY <1>1, <2>1, <2>2, <2>3 DEF VarsOK, time
  <2>5. DirectoryEffect(p) BY <2>1 DEF DirectoryEffect, Removing
  <2> QED BY <1>1, <2>1, <2>2, <2>4, <2>5, NothingOnFile DEF Effect
<1> QED BY <1>2, <1>3, <1>4, <1>5, <1>6

\* The steps of a recovery pass on its way to a file, and the end of a process.
LEMMA PassEffect ==
  ASSUME RecInv, NEW p \in Processes,
         OpenPart(p) \/ WinLock(p) \/ ReadPart(p) \/ SeeOrphan(p) \/ Kill(p)
  PROVE  Effect(p)
<1>1. VarsOK /\ HasItsFile(p) BY Typing DEF RecInv, AllHaveTheirFiles
<1>2. CASE OpenPart(p)
  <2>1. PICK b \in Bases :
          proc' = [proc EXCEPT ![p] = [Idle EXCEPT !.at = "win", !.base = b, !.open = part[b]]]
    BY <1>2 DEF OpenPart
  <2>2. [Idle EXCEPT !.at = "win", !.base = b, !.open = part[b]] \in ProcType
    BY <1>1, IdleTyped DEF VarsOK, Named0, ProcType, Places
  <2>3. proc' \in [Processes -> ProcType] /\ \A q \in Processes \ {p} : proc'[q] = proc[q]
    BY <1>1, <2>1, <2>2 DEF VarsOK
  <2>4. VarsOK' BY <1>1, <1>2, <2>3 DEF OpenPart, VarsOK, directory, time
  <2> QED BY <1>1, <1>2, <2>3, <2>4, NothingOnFile, NothingInDirectory DEF OpenPart, Effect
<1>3. CASE WinLock(p)
  <2> DEFINE f == proc[p].open
  <2>1. f \in Files
    BY <1>1, <1>3 DEF WinLock, At, HasItsFile, Opening, VarsOK, ProcType
  <2>2. UNCHANGED <<directory, file, synced, log, promised, cuts, time>> BY <1>3 DEF WinLock
  <2>3. CASE lock[f] = Nobody /\ lock' = [lock EXCEPT ![f] = p] /\ Goes(p, "read")
    <3>1. proc' \in [Processes -> ProcType] /\ \A q \in Processes \ {p} : proc'[q] = proc[q]
      BY <1>1, <2>3, Going DEF Places
    <3>2. VarsOK' BY <1>1, <2>2, <2>3, <3>1 DEF VarsOK, directory, time
    <3>3. FileEffect(p)
      <4>1. \A g \in Files : file[g].bundles =< file[g].bundles BY <1>1 DEF VarsOK, Contents
      <4>2. ASSUME NEW g \in Files
            PROVE  \/ lock'[g] = lock[g]
                   \/ proc[p].open = g /\ lock[g] \in {p, Nobody} /\ lock'[g] \in {p, Nobody}
        BY <1>1, <2>3 DEF VarsOK
      <4> QED BY <2>2, <4>1, <4>2 DEF FileEffect
    <3> QED BY <1>1, <2>2, <3>1, <3>2, <3>3, NothingInDirectory DEF Effect
  <2>4. CASE proc' = [proc EXCEPT ![p] = Idle] /\ UNCHANGED lock
    <3>1. proc' \in [Processes -> ProcType] /\ \A q \in Processes \ {p} : proc'[q] = proc[q]
      BY <1>1, <2>4, Resting
    <3>2. VarsOK' BY <1>1, <2>2, <2>4, <3>1 DEF VarsOK, directory, time
    <3> QED BY <1>1, <2>2, <2>4, <3>1, <3>2, NothingOnFile, NothingInDirectory DEF Effect
  <2> QED BY <1>3, <2>3, <2>4 DEF WinLock
<1>4. CASE ReadPart(p)
  <2>1. UNCHANGED <<directory, file, synced, log, promised, cuts, time>> BY <1>4 DEF ReadPart
  <2>2. /\ proc' \in [Processes -> ProcType]
        /\ \A q \in Processes \ {p} : proc'[q] = proc[q]
        /\ UNCHANGED lock \/ lock' = [g \in Files |-> IF lock[g] = p THEN Nobody ELSE lock[g]]
    <3>1. CASE Closes(p, "discard") BY <1>1, <3>1, Closing DEF Places
    <3>2. CASE (Goes(p, "sync") \/ Goes(p, "truncate")) /\ UNCHANGED lock
      BY <1>1, <3>2, Going DEF Places
    <3> QED BY <1>4, <3>1, <3>2 DEF ReadPart
  <2>3. VarsOK' BY <1>1, <2>1, <2>2, ClosesTyped DEF VarsOK, directory, time
  <2> QED BY <1>1, <2>1, <2>2, <2>3, NothingOnFile, NothingInDirectory DEF Effect
<1>5. CASE SeeOrphan(p)
  <2>1. PICK b \in Bases : proc' = [proc EXCEPT ![p] = [Idle EXCEPT !.at = "unchk", !.base = b]]
    BY <1>5 DEF SeeOrphan
  <2>2. [Idle EXCEPT !.at = "unchk", !.base = b] \in ProcType
    BY IdleTyped DEF ProcType, Places
  <2>3. proc' \in [Processes -> ProcType] /\ \A q \in Processes \ {p} : proc'[q] = proc[q]
    BY <1>1, <2>1, <2>2 DEF VarsOK
  <2>4. VarsOK' BY <1>1, <1>5, <2>3 DEF SeeOrphan, VarsOK, directory, time
  <2> QED BY <1>1, <1>5, <2>3, <2>4, NothingOnFile, NothingInDirectory DEF SeeOrphan, Effect
<1>6. CASE Kill(p)
  <2>1. /\ proc' \in [Processes -> ProcType] /\ \A q \in Processes \ {p} : proc'[q] = proc[q]
        /\ lock' = [g \in Files |-> IF lock[g] = p THEN Nobody ELSE lock[g]]
    BY <1>1, <1>6, Closing DEF Kill, Places
  <2>2. log' \in [Recorders -> 0 .. MaxBundles] /\ \A q \in Recorders \ {p} : log'[q] = log[q]
    <3>1. 0 \in 0 .. MaxBundles BY RecordingAssumption
    <3>2. log' = [q \in Recorders |-> IF q = p THEN 0 ELSE log[q]] BY <1>6 DEF Kill
    <3> QED BY <1>1, <3>1, <3>2 DEF VarsOK
  <2>3. VarsOK' BY <1>1, <1>6, <2>1, <2>2, ClosesTyped DEF Kill, VarsOK, directory, time
  <2> QED BY <1>1, <1>6, <2>1, <2>2, <2>3, NothingOnFile, NothingInDirectory DEF Kill, Effect
<1> QED BY <1>2, <1>3, <1>4, <1>5, <1>6

-----------------------------------------------------------------------------
(* What a step of one process leaves of the others and of the names.        *)

\* Two processes that lock have two files.
LEMMA Alone ==
  ASSUME RecInv, NEW p \in Processes, NEW q \in Processes, p # q,
         proc[p].at \in Locking, proc[q].at \in Opening
  PROVE  /\ proc[p].open \in Files /\ proc[q].open \in Files
         /\ proc[q].at # "win" => proc[p].open # proc[q].open
<1>1. VarsOK /\ HasItsFile(p) /\ HasItsFile(q) /\ Placed(q)
  BY Typing DEF RecInv, AllHaveTheirFiles, AtPlaces
<1>2. proc[p].open \in Files /\ proc[q].open \in Files
  BY <1>1 DEF HasItsFile, Opening, VarsOK, ProcType
<1>3. lock[proc[p].open] = p BY <1>1, <1>2 DEF HasItsFile
<1>4. CASE proc[q].at \in Locking
  <2>1. lock[proc[q].open] = q BY <1>1, <1>2, <1>4 DEF HasItsFile
  <2> QED BY <1>2, <1>3, <2>1
<1>5. CASE proc[q].at = "lock" BY <1>1, <1>2, <1>5 DEF Placed
<1> QED BY <1>2, <1>4, <1>5 DEF Opening

\* Who writes a file has it at its base, and it is no replay.
LEMMA WrittenAt ==
  ASSUME RecInv, NEW p \in Processes, proc[p].at \in Writing
  PROVE  /\ proc[p].open \in Files /\ proc[p].base \in Bases
         /\ part[proc[p].base] = proc[p].open
         /\ \A n \in Bases \X Alternatives :
              final[n] # proc[p].open /\ synced.final[n] # proc[p].open
<1> DEFINE f == proc[p].open
           b == proc[p].base
<1>1. VarsOK /\ HasItsFile(p) /\ Placed(p)
  BY Typing DEF RecInv, AllHaveTheirFiles, AtPlaces
<1>2. f \in Files /\ b \in Bases
  BY <1>1 DEF Writing, HasItsFile, Opening, Locking, VarsOK, ProcType
<1>3. part[b] = f BY <1>1 DEF Placed
<1>4. Traced(f, b) BY <1>3 DEF Traced, TracedIn
<1>5. ASSUME NEW n \in Bases \X Alternatives, final[n] = f \/ synced.final[n] = f
      PROVE  FALSE
  <2>1. PICK c \in Bases, a \in Alternatives : n = <<c, a>> BY <1>5
  <2>2. Traced(f, c) BY <1>5, <2>1 DEF Traced, TracedIn, Alternatives
  <2>3. b = c BY <1>2, <1>4, <2>2 DEF RecInv, OneRecording
  <2>4. part[b] # NoFile /\ f # NoFile BY <1>2, <1>3, NobodyApart
  <2> QED BY <1>2, <1>5, <2>1, <2>3, <2>4 DEF RecInv, NameFree
<1> QED BY <1>2, <1>3, <1>5

\* Two writers are at two bases, and nobody removes what is written.
LEMMA WritesAlone ==
  ASSUME RecInv, NEW p \in Processes, NEW q \in Processes, p # q, proc[q].at \in Writing,
         proc[p].at \in Removing \cup RenamedPart \cup {"header", "rename"}
  PROVE  proc[p].base # proc[q].base
<1>1. proc[q].open \in Files /\ part[proc[q].base] = proc[q].open /\ proc[q].open # NoFile
  BY WrittenAt, NobodyApart
<1>2. Placed(p) BY DEF RecInv, AtPlaces
<1>3. CASE proc[p].at \in Removing \cup RenamedPart
  BY <1>1, <1>2, <1>3 DEF Placed
<1>4. CASE proc[p].at \in {"header", "rename"}
  <2>1. part[proc[p].base] = proc[p].open BY <1>2, <1>4 DEF Placed, Writing
  <2>2. proc[p].open # proc[q].open
    BY <1>4, Alone DEF Writing, Opening, Locking
  <2> QED BY <1>1, <2>1, <2>2
<1> QED BY <1>3, <1>4

\* Nobody but its writer changes a file that another process is about.
LEMMA NotChanged ==
  ASSUME RecInv, NEW p \in Processes, NEW q \in Processes, p # q, FileEffect(p),
         proc[q].at \in Opening, proc[q].at # "win"
  PROVE  file'[proc[q].open] = file[proc[q].open]
<1>1. CASE proc[p].at \in Changing
  <2>1. proc[p].open # proc[q].open /\ proc[q].open \in Files
    BY <1>1, Alone DEF Changing, Locking
  <2> QED BY <2>1 DEF FileEffect
<1>2. CASE proc[p].at \notin Changing
  <2>1. proc[q].open \in Files
    BY Typing DEF RecInv, AllHaveTheirFiles, HasItsFile, VarsOK, ProcType
  <2> QED BY <1>2, <2>1 DEF FileEffect
<1> QED BY <1>1, <1>2

LEMMA OthersFiles ==
  ASSUME RecInv, NEW p \in Processes, Effect(p), NEW q \in Processes \ {p}
  PROVE  HasItsFile(q)'
<1>1. proc'[q] = proc[q] /\ HasItsFile(q) BY DEF RecInv, AllHaveTheirFiles, Effect
<1>2. ASSUME NEW f \in Files PROVE lock'[f] = q <=> lock[f] = q
  BY NobodyApart DEF Effect, FileEffect
<1> QED BY <1>1, <1>2 DEF HasItsFile

\* A file that is worth nothing after the step.
LeftWorthless(f) == ~file'[f].header \/ file'[f].bundles = 0

\* How a process comes to write: it wrote before, or it has read what is worth it.
Arrives(p) ==
  proc'[p].at \in Writing =>
    /\ proc'[p].base = proc[p].base
    /\ proc[p].at \in Writing \/ (proc[p].at = "read" /\ ~Worthless(proc[p].open))

LEMMA OthersPlaced ==
  ASSUME RecInv, NEW p \in Processes, Effect(p), Arrives(p), NEW q \in Processes \ {p},
         proc[q].at = "lock" => proc'[p].open # proc[q].open
  PROVE  Placed(q)'
<1> DEFINE b == proc[q].base
           f == proc[q].open
<1>1. VarsOK /\ Placed(p) /\ Placed(q) /\ HasItsFile(q)
  BY Typing DEF RecInv, AtPlaces, AllHaveTheirFiles
<1>2. /\ proc'[q] = proc[q] /\ b \in Bases /\ FileEffect(p) /\ DirectoryEffect(p)
      /\ \A r \in Processes \ {p} : proc'[r] = proc[r]
  BY <1>1 DEF Effect, VarsOK, ProcType
<1>3. \/ part'[b] = part[b]
      \/ /\ proc[p].at \in Removing \cup {"rename"} /\ proc[p].base = b
         /\ part'[b] = NoFile
  BY <1>1, <1>2 DEF DirectoryEffect, VarsOK
<1>4. ASSUME proc[q].at \in Writing PROVE part'[b] = f
  <2>1. part'[b] = part[b] BY <1>3, <1>4, WritesAlone
  <2> QED BY <1>1, <1>4, <2>1 DEF Placed
<1>5. ASSUME proc[q].at \in RenamedPart PROVE part'[b] = NoFile
  BY <1>1, <1>3, <1>5 DEF Placed
<1>6. ASSUME proc[q].at = "read" PROVE part'[b] = f \/ LeftWorthless(f)
  <2>1. file'[f] = file[f] BY <1>2, <1>6, NotChanged DEF Opening, Locking
  <2>2. CASE Worthless(f) BY <2>1, <2>2 DEF Worthless, LeftWorthless
  <2>3. CASE part[b] = f /\ part'[b] # part[b]
    <3>1. f # NoFile BY <1>1, <1>6 DEF HasItsFile, Opening, Locking
    <3>2. CASE proc[p].at \in Removing
      <4>1. proc[p].base = b BY <1>3, <2>3
      <4>2. Worthless(f) BY <1>1, <2>3, <3>1, <3>2, <4>1 DEF Placed
      <4> QED BY <2>1, <4>2 DEF Worthless, LeftWorthless
    <3>3. CASE proc[p].at = "rename"
      <4>1. part[proc[p].base] = proc[p].open BY <1>1, <3>3 DEF Placed, Writing
      <4>2. proc[p].open # f BY <1>6, <3>3, Alone DEF Opening, Locking
      <4> QED BY <1>3, <2>3, <4>1, <4>2
    <3> QED BY <1>3, <2>3, <3>2, <3>3
  <2> QED BY <1>1, <1>6, <2>2, <2>3 DEF Placed
<1>7. ASSUME proc[q].at \in Removing, part'[b] # NoFile
      PROVE  /\ LeftWorthless(part'[b])
             /\ \A r \in Processes : proc'[r].at \in Writing => proc'[r].base # b
  <2>1. part'[b] = part[b] BY <1>3, <1>7
  <2>2. /\ Worthless(part[b]) /\ part[b] \in Files
        /\ \A r \in Processes : proc[r].at \in Writing => proc[r].base # b
    BY <1>1, <1>2, <1>7, <2>1 DEF Placed, VarsOK, Named0
  <2>3. file'[part[b]] = file[part[b]]
    <3>1. ASSUME proc[p].at \in Changing, proc[p].open = part[b] PROVE FALSE
      <4>1. proc[p].at \in Writing BY <3>1 DEF Changing, Writing
      <4>2. part[proc[p].base] = part[b] /\ proc[p].base \in Bases BY <3>1, <4>1, WrittenAt
      <4>3. Traced(part[b], b) /\ Traced(part[b], proc[p].base)
        BY <4>2 DEF Traced, TracedIn
      <4>4. b = proc[p].base BY <1>2, <2>2, <4>2, <4>3 DEF RecInv, OneRecording
      <4> QED BY <2>2, <4>1, <4>4
    <3> QED BY <1>2, <2>2, <3>1 DEF FileEffect
  <2>4. ASSUME NEW r \in Processes, proc'[r].at \in Writing PROVE proc'[r].base # b
    <3>1. CASE r # p BY <1>2, <2>2, <2>4, <3>1
    <3>2. CASE r = p
      <4>1. CASE proc[p].at \in Writing BY <2>2, <2>4, <3>2, <4>1 DEF Arrives
      <4>2. CASE proc[p].at = "read" /\ ~Worthless(proc[p].open)
        <5>1. part[proc[p].base] = proc[p].open BY <1>1, <4>2 DEF Placed
        <5>2. proc'[p].base = proc[p].base BY <2>4, <3>2 DEF Arrives
        <5> QED BY <2>2, <3>2, <4>2, <5>1, <5>2
      <4> QED BY <2>4, <3>2, <4>1, <4>2 DEF Arrives
    <3> QED BY <3>1, <3>2
  <2>5. LeftWorthless(part'[b]) BY <2>1, <2>2, <2>3 DEF Worthless, LeftWorthless
  <2> QED BY <2>4, <2>5
<1>8. ASSUME proc[q].at = "lock"
      PROVE  lock'[f] = Nobody /\ \A r \in Processes \ {q} : proc'[r].open # f
  <2>1. lock[f] = Nobody /\ \A r \in Processes \ {q} : proc[r].open # f
    BY <1>1, <1>8 DEF Placed
  <2>2. f \in Files
    BY <1>1, <1>8 DEF HasItsFile, Opening, VarsOK, ProcType
  <2>3. lock'[f] = lock[f] BY <1>2, <2>1, <2>2 DEF FileEffect
  <2> QED BY <1>2, <1>8, <2>1, <2>3
<1> QED BY <1>2, <1>4, <1>5, <1>6, <1>7, <1>8 DEF Placed, Worthless, LeftWorthless

LEMMA OthersPrepared ==
  ASSUME RecInv, NEW p \in Processes, Effect(p), NEW q \in Processes \ {p}
  PROVE  Prepared(q)'
<1> DEFINE b == proc[q].base
           f == proc[q].open
<1>1. VarsOK /\ Placed(p) /\ Prepared(q) /\ HasItsFile(q)
  BY Typing DEF RecInv, AtPlaces, AllPrepared, AllHaveTheirFiles
<1>2. proc'[q] = proc[q] /\ FileEffect(p) /\ DirectoryEffect(p) /\ b \in Bases
  BY <1>1 DEF Effect, VarsOK, ProcType
<1>3. ASSUME proc[q].at \in Writing
      PROVE  f \in Files /\ file'[f] = file[f]
  BY <1>2, <1>3, WrittenAt, NotChanged DEF Writing, Opening, Locking
<1>4. ASSUME proc[q].at = "live" PROVE sidecar'[b] = sidecar[b] /\ log'[q] = log[q]
  <2>1. q \in Recorders BY <1>1, <1>4 DEF HasItsFile, BeginsAt
  <2>2. ~(proc[p].at \in Removing \cup {"header", "unchk"} /\ proc[p].base = b)
    BY <1>4, WritesAlone DEF Writing, RenamedPart
  <2>3. sidecar'[b] = sidecar[b]
    BY <1>1, <1>2, <2>2 DEF DirectoryEffect, VarsOK
  <2> QED BY <2>1, <2>3 DEF Effect
<1>5. ASSUME proc[q].at \in {"name", "rename"} PROVE synced'.file[f] = file'[f]
  <2>1. synced.file[f] = file[f] BY <1>1, <1>5 DEF Prepared
  <2> QED BY <1>2, <1>3, <1>5, <2>1 DEF FileEffect, Writing
<1> QED BY <1>1, <1>2, <1>3, <1>4, <1>5 DEF Prepared, Writing, Worthless, Complete

\* What is seen at a base after a step was seen there before, unless a
\* recording is created.
LEMMA TracesKept ==
  ASSUME RecInv, NEW p \in Processes, Effect(p),
         proc'[p].open # NoFile => Traced(proc'[p].open, proc'[p].base),
         NEW f \in Files, NEW b \in Bases, Traced(f, b)'
  PROVE  Traced(f, b)
<1>1. VarsOK /\ DirectoryEffect(p) BY Typing DEF RecInv, Effect
<1>2. f # NoFile BY NobodyApart
<1>3. ASSUME TracedIn(f, b, part, final, sidecar)' PROVE Traced(f, b)
  <2>1. CASE f = part'[b]
    <3>1. part[b] = f BY <1>1, <1>2, <2>1 DEF DirectoryEffect, VarsOK
    <3> QED BY <3>1 DEF Traced, TracedIn
  <2>2. CASE f = sidecar'[b]
    <3>1. \/ sidecar[b] = f
          \/ proc[p].base = b /\ proc[p].open = f
      BY <1>1, <1>2, <2>2 DEF DirectoryEffect, VarsOK
    <3> QED BY <3>1 DEF Traced, TracedIn, Opened
  <2>3. ASSUME NEW a \in Alternatives, f = final'[<<b, a>>] PROVE Traced(f, b)
    <3>1. CASE final[<<b, a>>] = f BY <3>1 DEF Traced, TracedIn, Alternatives
    <3>2. CASE final[<<b, a>>] # f
      <4> DEFINE n == <<proc[p].base, proc[p].alternative>>
      <4>1. final' = [final EXCEPT ![n] = part[proc[p].base]]
        BY <1>1, <2>3, <3>2 DEF DirectoryEffect
      <4>2. <<b, a>> \in Bases \X Alternatives OBVIOUS
      <4>3. <<b, a>> = n BY <1>1, <2>3, <3>2, <4>1, <4>2 DEF VarsOK
      <4>4. final'[<<b, a>>] = part[proc[p].base] BY <1>1, <4>1, <4>2, <4>3 DEF VarsOK
      <4>5. proc[p].base = b BY <4>3
      <4> QED BY <2>3, <4>4, <4>5 DEF Traced, TracedIn
    <3> QED BY <3>1, <3>2
  <2> QED BY <1>3, <2>1, <2>2, <2>3 DEF TracedIn, Alternatives
<1>4. ASSUME TracedIn(f, b, synced.part, synced.final, synced.sidecar)' PROVE Traced(f, b)
  <2>1. CASE synced'.part = synced.part /\ synced'.final = synced.final
             /\ synced'.sidecar = synced.sidecar
    BY <1>4, <2>1 DEF TracedIn, Traced
  <2>2. CASE synced'.part = part /\ synced'.final = final /\ synced'.sidecar = sidecar
    BY <1>4, <2>2 DEF TracedIn, Traced
  <2> QED BY <1>1, <2>1, <2>2 DEF DirectoryEffect
<1>5. ASSUME Opened(f, b)' PROVE Traced(f, b)
  <2>1. PICK q \in Processes : proc'[q].base = b /\ proc'[q].open = f BY <1>5 DEF Opened
  <2>2. CASE q = p BY <1>2, <2>1, <2>2
  <2>3. CASE q # p
    <3>1. proc'[q] = proc[q] BY <2>3 DEF Effect
    <3> QED BY <2>1, <3>1 DEF Traced, Opened
  <2> QED BY <2>2, <2>3
<1> QED BY <1>3, <1>4, <1>5 DEF Traced

\* The names after the step.
LEMMA NamesKept ==
  ASSUME RecInv, NEW p \in Processes, Effect(p)
  PROVE  NameFree(part, final)' /\ NameFree(part, synced.final)'
         /\ NameFree(synced.part, synced.final)'
<1>1. VarsOK /\ DirectoryEffect(p) BY Typing DEF RecInv, Effect
<1>2. NameFree(part, final) /\ NameFree(part, synced.final) /\ NameFree(synced.part, synced.final)
  BY DEF RecInv
<1>3. ASSUME NEW b \in Bases, NEW a \in Alternatives, part'[b] # NoFile
      PROVE  final'[<<b, a>>] = NoFile
  <2>1. part[b] = part'[b] BY <1>1, <1>3 DEF DirectoryEffect, VarsOK
  <2>2. final[<<b, a>>] = NoFile BY <1>2, <1>3, <2>1 DEF NameFree
  <2>3. CASE final' = final BY <2>2, <2>3
  <2>4. CASE final' # final
    <3>1. /\ part' = [part EXCEPT ![proc[p].base] = NoFile]
          /\ final' = [final EXCEPT ![<<proc[p].base, proc[p].alternative>>] = part[proc[p].base]]
      BY <1>1, <2>4 DEF DirectoryEffect
    <3>2. proc[p].base # b BY <1>1, <1>3, <3>1 DEF VarsOK
    <3>3. <<b, a>> # <<proc[p].base, proc[p].alternative>> BY <3>2
    <3>4. <<b, a>> \in Bases \X Alternatives OBVIOUS
    <3> QED BY <1>1, <2>2, <3>1, <3>3, <3>4 DEF VarsOK
  <2> QED BY <2>3, <2>4
<1>4. NameFree(part, final)' BY <1>3 DEF NameFree
<1>5. ASSUME NEW b \in Bases, part'[b] # NoFile PROVE part[b] # NoFile
  BY <1>1, <1>5 DEF DirectoryEffect, VarsOK
<1>6. CASE synced'.part = synced.part /\ synced'.final = synced.final
  BY <1>2, <1>4, <1>5, <1>6 DEF NameFree
<1>7. CASE synced'.part = part /\ synced'.final = final /\ UNCHANGED directory
  BY <1>2, <1>4, <1>7 DEF NameFree, directory
<1> QED BY <1>1, <1>6, <1>7 DEF DirectoryEffect

\* Replays stay whole: nobody writes them, and what becomes one is whole.
LEMMA WholeKept ==
  ASSUME RecInv, NEW p \in Processes, Effect(p)
  PROVE  WholeIn(final)' /\ WholeIn(synced.final)'
<1>1. /\ VarsOK /\ VarsOK' /\ DirectoryEffect(p) /\ FileEffect(p) /\ Prepared(p) /\ Placed(p)
      /\ WholeIn(final) /\ WholeIn(synced.final)
  BY Typing DEF RecInv, Effect, AllPrepared, AtPlaces
<1> DEFINE Whole(f) == /\ file'[f].header /\ file'[f].bundles # 0
                       /\ file'[f].count = file'[f].bundles
                       /\ file'[f].trail = "whole" /\ ~file'[f].torn
                       /\ synced'.file[f] = file'[f]
<1>2. ASSUME NEW f \in Files, ~Worthless(f), Complete(f), synced.file[f] = file[f],
             \/ \E n \in Bases \X Alternatives : final[n] = f \/ synced.final[n] = f
             \/ proc[p].at = "rename" /\ proc[p].open = f
      PROVE  Whole(f)
  <2>1. ~(proc[p].at \in Changing /\ proc[p].open = f)
    BY <1>2, WrittenAt DEF Changing, Writing
  <2>2. file'[f] = file[f] BY <1>1, <2>1 DEF FileEffect
  <2>3. synced'.file[f] = file'[f] BY <1>1, <1>2, <2>2 DEF FileEffect
  <2> QED BY <1>2, <2>2, <2>3 DEF Worthless, Complete
<1>3. ASSUME NEW n \in Bases \X Alternatives, final[n] # NoFile PROVE Whole(final[n])
  <2>1. final[n] \in Files BY <1>1, <1>3 DEF VarsOK, Named0
  <2>2. ~Worthless(final[n]) /\ Complete(final[n]) /\ synced.file[final[n]] = file[final[n]]
    BY <1>1, <1>3 DEF WholeIn, VarsOK
  <2> HIDE DEF Whole
  <2> QED BY <1>2, <2>1, <2>2
<1>4. ASSUME NEW n \in Bases \X Alternatives, synced.final[n] # NoFile PROVE Whole(synced.final[n])
  <2>1. synced.final[n] \in Files BY <1>1, <1>4 DEF VarsOK, DiskType, Named0
  <2>2. /\ ~Worthless(synced.final[n]) /\ Complete(synced.final[n])
        /\ synced.file[synced.final[n]] = file[synced.final[n]]
    BY <1>1, <1>4 DEF WholeIn, VarsOK, DiskType
  <2> HIDE DEF Whole
  <2> QED BY <1>2, <2>1, <2>2
<1>5. ASSUME NEW n \in Bases \X Alternatives, final'[n] # NoFile PROVE Whole(final'[n])
  <2>1. CASE final'[n] = final[n]
    <3> HIDE DEF Whole
    <3> QED BY <1>3, <1>5, <2>1
  <2>2. CASE final'[n] # final[n]
    <3>1. /\ proc[p].at = "rename"
          /\ final' = [final EXCEPT ![<<proc[p].base, proc[p].alternative>>] = part[proc[p].base]]
      BY <1>1, <2>2 DEF DirectoryEffect
    <3>2. final'[n] = part[proc[p].base] BY <1>1, <2>2, <3>1 DEF VarsOK
    <3>3. part[proc[p].base] = proc[p].open /\ proc[p].open \in Files
      BY <3>1, WrittenAt DEF Writing
    <3>4. /\ ~Worthless(proc[p].open) /\ Complete(proc[p].open)
          /\ synced.file[proc[p].open] = file[proc[p].open]
      BY <1>1, <3>1 DEF Prepared
    <3> HIDE DEF Whole
    <3> QED BY <1>2, <3>1, <3>2, <3>3, <3>4
  <2> QED BY <2>1, <2>2
<1>6. DOMAIN final' = Bases \X Alternatives /\ DOMAIN synced'.final = Bases \X Alternatives
  BY <1>1 DEF VarsOK, DiskType
<1>7. ASSUME NEW n \in Bases \X Alternatives, synced'.final[n] # NoFile PROVE Whole(synced'.final[n])
  <2>1. synced'.final = synced.final \/ (synced'.final = final /\ final' = final)
    BY <1>1 DEF DirectoryEffect, directory
  <2> HIDE DEF Whole
  <2> QED BY <1>3, <1>4, <1>7, <2>1
<1> QED BY <1>5, <1>6, <1>7 DEF WholeIn, Worthless, Complete

\* A file that is worth something keeps a name.
LEMMA NameKept ==
  ASSUME RecInv, NEW p \in Processes, Effect(p), NEW f \in Files,
         ~Worthless(f), NamedIn(f, part, final)
  PROVE  NamedIn(f, part, final)'
<1>1. VarsOK /\ VarsOK' /\ DirectoryEffect(p) /\ Placed(p)
  BY Typing DEF RecInv, Effect, AtPlaces
<1>2. f # NoFile BY NobodyApart
<1> DEFINE n0 == <<proc[p].base, proc[p].alternative>>
<1>3. n0 \in Bases \X Alternatives /\ proc[p].base \in Bases BY <1>1 DEF VarsOK, ProcType
<1>4. ASSUME NEW b \in Bases, part[b] = f PROVE NamedIn(f, part, final)'
  <2>1. CASE part'[b] = f BY <2>1 DEF NamedIn
  <2>2. CASE part'[b] # f
    <3>1. /\ proc[p].at \in Removing \cup {"rename"} /\ proc[p].base = b
          /\ part' = [part EXCEPT ![b] = NoFile]
      BY <1>1, <1>4, <2>2 DEF DirectoryEffect, VarsOK
    <3>2. proc[p].at \notin Removing BY <1>1, <1>2, <1>4, <3>1 DEF Placed
    <3>3. part' # part BY <1>2, <1>4, <2>2, <3>1
    <3>4. final' # final BY <1>1, <3>1, <3>2, <3>3 DEF DirectoryEffect
    <3>5. final' = [final EXCEPT ![n0] = part[proc[p].base]] BY <1>1, <3>4 DEF DirectoryEffect
    <3>6. final'[n0] = f BY <1>1, <1>3, <1>4, <3>1, <3>5 DEF VarsOK
    <3> QED BY <1>3, <3>6 DEF NamedIn
  <2> QED BY <2>1, <2>2
<1>5. ASSUME NEW n \in Bases \X Alternatives, final[n] = f PROVE NamedIn(f, part, final)'
  <2>1. CASE final'[n] = f BY <2>1 DEF NamedIn
  <2>2. CASE final'[n] # f
    <3>1. /\ proc[p].at = "rename" /\ part[proc[p].base] # NoFile
          /\ final' = [final EXCEPT ![n0] = part[proc[p].base]]
      BY <1>1, <1>5, <2>2 DEF DirectoryEffect
    <3>2. n = n0 BY <1>1, <1>5, <2>2, <3>1 DEF VarsOK
    <3>3. final[n0] = NoFile BY <1>1, <3>1 DEF RecInv, NameFree, VarsOK, ProcType
    <3> QED BY <1>2, <1>5, <3>2, <3>3
  <2> QED BY <2>1, <2>2
<1> QED BY <1>4, <1>5 DEF NamedIn

\* What a step promises of a file: what it has written of a live recording.
Promises(p) ==
  \A f \in Files :
    \/ promised'[f] = promised[f]
    \/ /\ proc[p].at = "live" /\ proc[p].open = f
       /\ promised'[f] = file'[f].bundles

LEMMA PromisesKept ==
  ASSUME RecInv, NEW p \in Processes, Effect(p), Promises(p)
  PROVE  NothingFlushedIsLost' /\ OnDisk'
<1>1. /\ VarsOK /\ VarsOK' /\ DirectoryEffect(p) /\ FileEffect(p) /\ Prepared(p)
      /\ NothingFlushedIsLost /\ OnDisk
  BY Typing DEF RecInv, Effect, AllPrepared
<1>2. \A f \in Files : /\ Named(f) <=> NamedIn(f, part, final)
                       /\ Named(f)' <=> NamedIn(f, part, final)'
  BY <1>1 DEF Named, NamedIn, VarsOK
<1>3. \A f \in Files : /\ file[f].bundles \in Nat /\ file'[f].bundles \in Nat
                       /\ synced.file[f].bundles \in Nat /\ promised[f] \in Nat
  BY <1>1, RecordingAssumption DEF VarsOK, Contents, DiskType
<1>4. ASSUME proc[p].at \in {"live", "sync"}
      PROVE  LET f == proc[p].open
             IN /\ f \in Files /\ file[f].header
                /\ part[proc[p].base] = f /\ part' = part /\ proc[p].base \in Bases
  BY <1>1, <1>4, WrittenAt DEF Writing, Prepared, Worthless, DirectoryEffect, Removing
<1>5. ASSUME NEW f \in Files, promised'[f] > 0
      PROVE  Named(f)' /\ file'[f].header /\ file'[f].bundles >= promised'[f]
  <2>1. CASE promised'[f] = promised[f]
    <3>1. Named(f) /\ file[f].header /\ file[f].bundles >= promised[f]
      BY <1>1, <1>5, <2>1 DEF NothingFlushedIsLost
    <3>2. ~Worthless(f) BY <1>3, <1>5, <2>1, <3>1 DEF Worthless
    <3>3. Named(f)' BY <1>2, <3>1, <3>2, NameKept
    <3>4. file'[f].header /\ file[f].bundles =< file'[f].bundles BY <1>1, <3>1 DEF FileEffect
    <3> QED BY <1>3, <2>1, <3>1, <3>3, <3>4
  <2>2. CASE /\ proc[p].at = "live" /\ proc[p].open = f
             /\ promised'[f] = file'[f].bundles
    <3>1. file'[f].header BY <1>1, <1>4, <2>2 DEF FileEffect
    <3>2. Named(f)' BY <1>2, <1>4, <2>2 DEF NamedIn
    <3> QED BY <1>3, <2>2, <3>1, <3>2
  <2> QED BY <2>1, <2>2 DEF Promises
<1>6. ASSUME NEW f \in Files, synced'.file[f].bundles > 0
      PROVE  /\ synced'.file[f].header /\ file'[f].header
             /\ file'[f].bundles >= synced'.file[f].bundles
             /\ NamedIn(f, part, final)' /\ NamedIn(f, synced.part, synced.final)'
  <2>1. CASE synced'.file[f] = synced.file[f]
    <3>1. /\ synced.file[f].header /\ file[f].header
          /\ file[f].bundles >= synced.file[f].bundles
          /\ NamedIn(f, part, final) /\ NamedIn(f, synced.part, synced.final)
      BY <1>1, <1>6, <2>1 DEF OnDisk
    <3>2. ~Worthless(f) BY <1>3, <1>6, <2>1, <3>1 DEF Worthless
    <3>3. NamedIn(f, part, final)' BY <3>1, <3>2, NameKept
    <3>4. file'[f].header /\ file[f].bundles =< file'[f].bundles BY <1>1, <3>1 DEF FileEffect
    <3>5. NamedIn(f, synced.part, synced.final)'
      BY <1>1, <3>1 DEF DirectoryEffect, NamedIn
    <3> QED BY <1>3, <2>1, <3>1, <3>3, <3>4, <3>5
  <2>2. CASE /\ proc[p].at \in {"live", "sync"} /\ proc[p].open = f
             /\ synced'.file[f] = file[f] /\ file' = file /\ synced'.part = part
    <3>1. NamedIn(f, part, final)' /\ NamedIn(f, synced.part, synced.final)'
      BY <1>4, <2>2 DEF NamedIn
    <3> QED BY <1>3, <1>4, <2>2, <3>1
  <2> QED BY <1>1, <2>1, <2>2 DEF FileEffect
<1>7. ASSUME NEW f \in Files, file'[f].bundles > 0 PROVE file'[f].header
  <2>1. CASE file'[f].bundles = file[f].bundles
    BY <1>1, <1>7, <2>1 DEF FileEffect, OnDisk
  <2>2. CASE proc[p].at = "live" /\ proc[p].open = f
    BY <1>1, <1>4, <2>2 DEF FileEffect
  <2> QED BY <1>1, <2>1, <2>2 DEF FileEffect
<1> QED BY <1>5, <1>6, <1>7 DEF NothingFlushedIsLost, OnDisk

-----------------------------------------------------------------------------
(* What a step leaves of its own process.                                   *)

\* A process comes to a file only where it has been seen, and not to one that
\* another has just created.
Comes(p) ==
  /\ proc'[p].open # NoFile => Traced(proc'[p].open, proc'[p].base)
  /\ \A q \in Processes \ {p} : proc[q].at = "lock" => proc'[p].open # proc[q].open

\* It goes on at its base, or to a base where there is something.
GoesOn(p) ==
  \/ proc'[p].at = "idle"
  \/ /\ proc[p].at # "idle" /\ proc'[p].base = proc[p].base
     /\ proc'[p].at \in {"look", "create"} => proc[p].at = "look"
  \/ p \notin Recorders /\ ~Untraced(proc'[p].base)

Lands(p) ==
  /\ HasItsFile(p)' /\ Placed(p)' /\ Prepared(p)'
  /\ Arrives(p) /\ Comes(p) /\ Promises(p)

\* With the file it had, or none, at its base.
LEMMA ComesFromThere ==
  ASSUME RecInv, NEW p \in Processes,
         \/ proc'[p].open = NoFile
         \/ proc'[p].open = proc[p].open /\ proc'[p].base = proc[p].base
  PROVE  Comes(p)
<1>1. ASSUME NEW q \in Processes \ {p}, proc[q].at = "lock"
      PROVE  proc'[p].open # proc[q].open
  <2>1. proc[q].open # NoFile /\ proc[p].open # proc[q].open
    BY <1>1 DEF RecInv, AllHaveTheirFiles, AtPlaces, HasItsFile, Placed, Opening
  <2> QED BY <2>1
<1>2. proc'[p].open # NoFile => Traced(proc'[p].open, proc'[p].base)
  BY DEF Traced, Opened
<1> QED BY <1>1, <1>2 DEF Comes

\* To be idle is to have nothing.
LEMMA IdleHasNothing ==
  ASSUME NEW p \in Processes, proc'[p] = Idle, \A f \in Files : lock'[f] # p
  PROVE  HasItsFile(p)' /\ Placed(p)' /\ Prepared(p)' /\ Arrives(p)
BY DEF Idle, HasItsFile, Placed, Prepared, Arrives, Opening, Locking, BeginsAt,
       Writing, RenamedPart, Removing

\* To have closed a file is to hold no lock.
LEMMA ClosedHoldsNothing ==
  ASSUME RecInv, NEW p \in Processes,
         \/ lock' = [f \in Files |-> IF lock[f] = p THEN Nobody ELSE lock[f]]
         \/ lock' = lock /\ proc[p].at \notin Locking
  PROVE  \A f \in Files : lock'[f] # p
BY NobodyApart DEF RecInv, AllHaveTheirFiles, HasItsFile

LEMMA StartLands ==
  ASSUME RecInv, NEW p \in Processes, Effect(p),
         OpenRecording(p) \/ Look(p) \/ Lock(p) \/ WriteHeader(p) \/ Undo(p) \/ RemoveEmpty(p) \/ Discard(p)
  PROVE  Lands(p)
<1>1. VarsOK /\ VarsOK' /\ HasItsFile(p) /\ Placed(p) /\ Prepared(p)
  BY Typing DEF RecInv, AllHaveTheirFiles, AtPlaces, AllPrepared, Effect
<1>2. Promises(p)
  <2>1. promised' = promised
    BY DEF OpenRecording, Look, Lock, WriteHeader, Undo, RemoveEmpty, Discard, RemovesPart
  <2> QED BY <2>1 DEF Promises
<1>3. CASE OpenRecording(p)
  <2>1. /\ proc[p] = Idle /\ lock' = lock /\ p \in Recorders
        /\ proc' = [proc EXCEPT ![p].at = "look", ![p].base = now]
    BY <1>1, <1>3 DEF OpenRecording, At, HasItsFile
  <2>2. proc'[p].at = "look" /\ proc'[p].open = NoFile
    BY <1>1, <2>1 DEF VarsOK, ProcType, Idle
  <2>3. \A f \in Files : lock'[f] # p
    BY <2>1, ClosedHoldsNothing DEF Idle, Locking
  <2>4. HasItsFile(p)' /\ Placed(p)' /\ Prepared(p)' /\ Arrives(p)
    BY <2>1, <2>2, <2>3 DEF HasItsFile, Placed, Prepared, Arrives, Opening, Locking, BeginsAt,
                            Writing, RenamedPart, Removing
  <2> QED BY <1>2, <2>2, <2>4, ComesFromThere DEF Lands
<1>4. CASE Look(p)
  <2>1. proc[p].at = "look" /\ Goes(p, "create") /\ lock' = lock
    BY <1>4, NameIsFree DEF Look, At
  <2>2. proc'[p].at = "create" /\ proc'[p].open = proc[p].open /\ proc'[p].base = proc[p].base
    BY <1>1, <2>1, Going DEF Places
  <2>3. HasItsFile(p)' /\ Placed(p)' /\ Prepared(p)' /\ Arrives(p)
    BY <1>1, <2>1, <2>2 DEF HasItsFile, Placed, Prepared, Arrives, Opening, Locking, BeginsAt,
                            Writing, RenamedPart, Removing
  <2> QED BY <1>2, <2>2, <2>3, ComesFromThere DEF Lands
<1>5. CASE Lock(p)
  <2>1. /\ proc[p].at = "lock" /\ Goes(p, "header") /\ lock' = [lock EXCEPT ![proc[p].open] = p]
        /\ part' = part /\ file' = file
    BY <1>5, NameIsFree DEF Lock, At, directory
  <2>2. proc'[p].at = "header" /\ proc'[p].open = proc[p].open /\ proc'[p].base = proc[p].base
    BY <1>1, <2>1, Going DEF Places
  <2>3. ASSUME NEW f \in Files PROVE lock'[f] = p <=> f = proc[p].open
    BY <1>1, <2>1 DEF VarsOK, HasItsFile, Locking
  <2>4. HasItsFile(p)'
    BY <1>1, <2>1, <2>2, <2>3 DEF HasItsFile, Opening, Locking, BeginsAt
  <2>5. Placed(p)' /\ Prepared(p)' /\ Arrives(p)
    BY <1>1, <2>1, <2>2 DEF Placed, Prepared, Arrives, Writing, RenamedPart, Removing
  <2> QED BY <1>2, <2>2, <2>4, <2>5, ComesFromThere DEF Lands
<1>6. CASE WriteHeader(p)
  <2> DEFINE f == proc[p].open
             b == proc[p].base
  <2>1. /\ proc[p].at = "header" /\ sidecar' = [sidecar EXCEPT ![b] = f] /\ part' = part
        /\ UNCHANGED log
    BY <1>6 DEF WriteHeader, At
  <2>2. f \in Files /\ b \in Bases /\ part[b] = f /\ p \in Recorders
    BY <1>1, <2>1, WrittenAt DEF Writing, HasItsFile, BeginsAt
  <2>3. ~file[f].header /\ file[f].bundles = 0 BY <1>1, <2>1 DEF Prepared
  <2>4. CASE file' = [file EXCEPT ![f].header = TRUE] /\ Goes(p, "live") /\ UNCHANGED lock
    <3>1. proc'[p].at = "live" /\ proc'[p].open = f /\ proc'[p].base = b
      BY <1>1, <2>4, Going DEF Places
    <3>2. file'[f].header /\ file'[f].bundles = 0 /\ sidecar'[b] = f
      BY <1>1, <2>1, <2>2, <2>3, <2>4 DEF VarsOK, Contents
    <3>3. 0 =< log'[p] BY <1>1, <2>1, <2>2 DEF VarsOK
    <3>4. HasItsFile(p)' BY <1>1, <2>1, <2>4, <3>1 DEF HasItsFile, Opening, Locking, BeginsAt
    <3>5. Placed(p)' /\ Arrives(p)
      BY <1>1, <2>1, <2>2, <3>1 DEF Placed, Arrives, Writing, RenamedPart, Removing
    <3>6. Prepared(p)' BY <3>1, <3>2, <3>3 DEF Prepared
    <3> QED BY <1>2, <3>1, <3>4, <3>5, <3>6, ComesFromThere DEF Lands
  <2>5. CASE Closes(p, "undo") /\ UNCHANGED file
    <3>1. /\ proc'[p].at = "undo" /\ proc'[p].open = NoFile /\ proc'[p].base = b
          /\ lock' = [g \in Files |-> IF lock[g] = p THEN Nobody ELSE lock[g]]
          /\ \A q \in Processes \ {p} : proc'[q] = proc[q]
      BY <1>1, <2>5, Closing DEF Places
    <3>2. \A g \in Files : lock'[g] # p BY <3>1, ClosedHoldsNothing
    <3>3. HasItsFile(p)' BY <2>2, <3>1, <3>2 DEF HasItsFile, Opening, Locking, BeginsAt
    <3>4. part'[b] = f /\ LeftWorthless(part'[b])
      BY <2>1, <2>2, <2>3, <2>5 DEF LeftWorthless
    <3>5. ASSUME NEW q \in Processes, proc'[q].at \in Writing PROVE proc'[q].base # b
      <4>1. q # p BY <3>1, <3>5 DEF Writing
      <4> QED BY <2>1, <3>1, <3>5, <4>1, WritesAlone
    <3>6. Placed(p)' /\ Prepared(p)' /\ Arrives(p)
      BY <3>1, <3>4, <3>5 DEF Worthless, LeftWorthless, Placed, Prepared, Arrives, Writing, RenamedPart, Removing
    <3> QED BY <1>2, <3>1, <3>3, <3>6, ComesFromThere DEF Lands
  <2> QED BY <1>6, <2>4, <2>5 DEF WriteHeader
<1>7. CASE Undo(p) \/ RemoveEmpty(p) \/ Discard(p)
  <2>1. RemovesPart(p) /\ proc[p].at \notin Locking
    BY <1>7 DEF Undo, RemoveEmpty, Discard, At, Locking
  <2>2. proc'[p] = Idle /\ lock' = lock BY <1>1, <2>1, Resting DEF RemovesPart
  <2>3. \A f \in Files : lock'[f] # p BY <2>1, <2>2, ClosedHoldsNothing
  <2>4. proc'[p].open = NoFile BY <2>2 DEF Idle
  <2> QED BY <1>2, <2>2, <2>3, <2>4, IdleHasNothing, ComesFromThere DEF Lands
<1> QED BY <1>3, <1>4, <1>5, <1>6, <1>7

LEMMA LiveLands ==
  ASSUME RecInv, NEW p \in Processes, Effect(p),
         AppendBundle(p) \/ Flush(p) \/ SyncAsync(p) \/ Finish(p)
  PROVE  Lands(p)
<1> DEFINE f == proc[p].open
           b == proc[p].base
<1>1. /\ VarsOK /\ VarsOK' /\ HasItsFile(p) /\ Placed(p) /\ Prepared(p)
      /\ FileEffect(p) /\ DirectoryEffect(p)
  BY Typing DEF RecInv, AllHaveTheirFiles, AtPlaces, AllPrepared, Effect
<1>2. proc[p].at = "live" BY DEF AppendBundle, Flush, SyncAsync, Finish, At
<1>3. /\ f \in Files /\ b \in Bases /\ part[b] = f /\ p \in Recorders
      /\ part' = part /\ sidecar' = sidecar
  BY <1>1, <1>2, WrittenAt DEF Writing, HasItsFile, BeginsAt, DirectoryEffect, Removing
<1>4. /\ file[f].header /\ file[f].bundles =< log[p] /\ sidecar[b] = f
      /\ file[f].bundles \in Nat /\ log[p] \in Nat
  BY <1>1, <1>2, <1>3, RecordingAssumption DEF Prepared, VarsOK, Contents
<1>5. file'[f].header BY <1>1, <1>3, <1>4 DEF FileEffect
<1>6. ASSUME FlushOk(p)
      PROVE  /\ file'[f].bundles = log[p] /\ ~file'[f].torn
             /\ Promises(p)
  <2>1. file' = [file EXCEPT ![f] = [file[f] EXCEPT !.bundles = log[p], !.torn = FALSE]]
        /\ promised' = [promised EXCEPT ![f] = log[p]]
    BY <1>6 DEF FlushOk, Flushed
  <2>2. file[f] \in Contents BY <1>1, <1>3 DEF VarsOK
  <2>3. file'[f].bundles = log[p] /\ ~file'[f].torn
    BY <1>1, <1>3, <2>1, <2>2 DEF VarsOK, Contents
  <2> QED BY <1>1, <1>2, <1>3, <2>1, <2>3 DEF Promises, VarsOK
<1>7. ASSUME FlushFails(p) PROVE file'[f].bundles =< log[p] /\ Promises(p)
  <2>1. PICK n, torn : /\ n \in file[f].bundles .. log[p] - 1 /\ torn \in BOOLEAN
                       /\ file' = [file EXCEPT ![f].bundles = n, ![f].torn = torn]
    BY <1>7 DEF FlushFails
  <2>2. file[f] \in Contents BY <1>1, <1>3 DEF VarsOK
  <2>3. file'[f].bundles = n BY <1>1, <1>3, <2>1, <2>2 DEF VarsOK, Contents
  <2>4. n =< log[p] BY <1>4, <2>1
  <2> QED BY <1>7, <2>3, <2>4 DEF FlushFails, Promises
<1>8. CASE AppendBundle(p) \/ Flush(p) \/ SyncAsync(p)
  <2>1. proc' = proc /\ lock' = lock BY <1>8 DEF AppendBundle, Flush, SyncAsync
  <2>2. HasItsFile(p)' BY <1>1, <2>1 DEF HasItsFile
  <2>3. Placed(p)' /\ Arrives(p)
    BY <1>2, <1>3, <2>1 DEF Placed, Arrives, Writing, RenamedPart, Removing
  <2>4. Promises(p) /\ file'[f].bundles =< log'[p]
    <3>1. CASE Flush(p)
      <4>1. log' = log BY <3>1 DEF Flush
      <4>2. CASE FlushOk(p) BY <1>4, <1>6, <4>1, <4>2
      <4>3. CASE FlushFails(p) BY <1>7, <4>1, <4>3
      <4> QED BY <3>1, <4>2, <4>3 DEF Flush
    <3>2. CASE SyncAsync(p) BY <1>4, <3>2 DEF SyncAsync, Promises
    <3>3. CASE AppendBundle(p)
      <4>1. log' = [log EXCEPT ![p] = log[p] + 1] /\ file' = file /\ promised' = promised
        BY <3>3 DEF AppendBundle
      <4>2. log'[p] = log[p] + 1 BY <1>1, <1>3, <4>1 DEF VarsOK
      <4> QED BY <1>4, <4>1, <4>2 DEF Promises
    <3> QED BY <1>8, <3>1, <3>2, <3>3
  <2>5. Prepared(p)' BY <1>2, <1>3, <1>4, <1>5, <2>1, <2>4 DEF Prepared
  <2> QED BY <2>1, <2>2, <2>3, <2>4, <2>5, ComesFromThere DEF Lands
<1>9. CASE Finish(p)
  <2>1. CASE FlushFails(p) /\ Closes(p, "idle")
    <3>1. /\ proc'[p] = Idle
          /\ lock' = [g \in Files |-> IF lock[g] = p THEN Nobody ELSE lock[g]]
      BY <1>1, <2>1, Closing DEF Places
    <3>2. \A g \in Files : lock'[g] # p BY <3>1, ClosedHoldsNothing
    <3>3. proc'[p].open = NoFile BY <3>1 DEF Idle
    <3> QED BY <1>7, <2>1, <3>1, <3>2, <3>3, IdleHasNothing, ComesFromThere DEF Lands
  <2>2. CASE log[p] = 0 /\ Closes(p, "nothing") /\ UNCHANGED <<file, promised>>
    <3>1. /\ proc'[p].at = "nothing" /\ proc'[p].open = NoFile /\ proc'[p].base = b
          /\ lock' = [g \in Files |-> IF lock[g] = p THEN Nobody ELSE lock[g]]
          /\ \A q \in Processes \ {p} : proc'[q] = proc[q]
      BY <1>1, <2>2, Closing DEF Places
    <3>2. \A g \in Files : lock'[g] # p BY <3>1, ClosedHoldsNothing
    <3>3. HasItsFile(p)' BY <1>3, <3>1, <3>2 DEF HasItsFile, Opening, Locking, BeginsAt
    <3>4. part'[b] = f /\ LeftWorthless(part'[b]) BY <1>3, <1>4, <2>2 DEF LeftWorthless
    <3>5. ASSUME NEW q \in Processes, proc'[q].at \in Writing PROVE proc'[q].base # b
      <4>1. q # p BY <3>1, <3>5 DEF Writing
      <4>2. proc[q].open # f BY <1>2, <3>1, <3>5, <4>1, Alone DEF Writing, Opening, Locking
      <4>3. part[proc[q].base] = proc[q].open BY <3>1, <3>5, <4>1, WrittenAt
      <4> QED BY <1>3, <3>1, <4>1, <4>2, <4>3
    <3>6. Placed(p)' /\ Prepared(p)' /\ Arrives(p)
      BY <3>1, <3>4, <3>5
      DEF Worthless, LeftWorthless, Placed, Prepared, Arrives, Writing, RenamedPart, Removing
    <3>7. Promises(p) BY <2>2 DEF Promises
    <3> QED BY <3>1, <3>3, <3>6, <3>7, ComesFromThere DEF Lands
  <2>3. CASE log[p] > 0 /\ FlushOk(p) /\ Goes(p, "trail") /\ UNCHANGED lock
    <3>1. proc'[p].at = "trail" /\ proc'[p].open = f /\ proc'[p].base = b
      BY <1>1, <2>3, Going DEF Places
    <3>2. HasItsFile(p)' BY <1>1, <1>2, <2>3, <3>1 DEF HasItsFile, Opening, Locking, BeginsAt
    <3>3. Placed(p)' /\ Arrives(p)
      BY <1>2, <1>3, <3>1 DEF Placed, Arrives, Writing, RenamedPart, Removing
    <3>4. Prepared(p)' BY <1>4, <1>5, <1>6, <2>3, <3>1 DEF Prepared, Worthless
    <3> QED BY <1>6, <2>3, <3>1, <3>2, <3>3, <3>4, ComesFromThere DEF Lands
  <2> QED BY <1>9, <2>1, <2>2, <2>3 DEF Finish
<1> QED BY <1>8, <1>9

\* A process that closes its file, or rests.
LEMMA RestLands ==
  ASSUME RecInv, NEW p \in Processes, proc'[p] = Idle, UNCHANGED promised,
         \/ lock' = [f \in Files |-> IF lock[f] = p THEN Nobody ELSE lock[f]]
         \/ lock' = lock /\ proc[p].at \notin Locking
  PROVE  Lands(p)
<1>1. \A f \in Files : lock'[f] # p BY ClosedHoldsNothing
<1>2. proc'[p].open = NoFile BY DEF Idle
<1>3. Promises(p) BY DEF Promises
<1> QED BY <1>1, <1>2, <1>3, IdleHasNothing, ComesFromThere DEF Lands

LEMMA EndLands ==
  ASSUME RecInv, NEW p \in Processes, Effect(p), WriteTrail(p) \/ WriteCount(p) \/ Truncate(p)
  PROVE  Lands(p)
<1> DEFINE f == proc[p].open
           b == proc[p].base
<1>1. VarsOK /\ VarsOK' /\ HasItsFile(p) /\ Placed(p) /\ Prepared(p) /\ FileEffect(p)
  BY Typing DEF RecInv, AllHaveTheirFiles, AtPlaces, AllPrepared, Effect
<1>2. proc[p].at \in {"trail", "count", "truncate"} /\ part' = part /\ promised' = promised
  BY DEF WriteTrail, WriteCount, Truncate, At, Fails, directory
<1>3. f \in Files /\ b \in Bases /\ part[b] = f
  BY <1>2, WrittenAt DEF Writing
<1>4. ~Worthless(f) /\ file[f] \in Contents
  BY <1>1, <1>2, <1>3 DEF Prepared, VarsOK
<1>5. file'[f].header /\ file'[f].bundles # 0
  BY <1>1, <1>2, <1>3, <1>4 DEF FileEffect, Worthless
<1>6. CASE Fails(p)
  <2>1. proc'[p] = Idle /\ lock' = [g \in Files |-> IF lock[g] = p THEN Nobody ELSE lock[g]]
    BY <1>1, <1>6, Closing DEF Fails, Places
  <2> QED BY <1>2, <2>1, RestLands
<1>7. ASSUME NEW place \in {"trail", "count", "sync"}, Goes(p, place), lock' = lock,
             Prepared(p)'
      PROVE  Lands(p)
  <2>1. proc'[p].at = place /\ proc'[p].open = f /\ proc'[p].base = b
    BY <1>1, <1>7, Going DEF Places
  <2>2. HasItsFile(p)' BY <1>1, <1>2, <1>7, <2>1 DEF HasItsFile, Opening, Locking, BeginsAt
  <2>3. Placed(p)' /\ Arrives(p)
    BY <1>2, <1>3, <1>7, <2>1 DEF Placed, Arrives, Writing, RenamedPart, Removing
  <2>4. Promises(p) BY <1>2 DEF Promises
  <2> QED BY <1>7, <2>1, <2>2, <2>3, <2>4, ComesFromThere DEF Lands
<1>8. CASE Truncate(p) /\ ~Fails(p)
  <2>1. /\ file' = [file EXCEPT ![f].torn = FALSE, ![f].trail = "none"]
        /\ Goes(p, "trail") /\ lock' = lock
    BY <1>8 DEF Truncate
  <2>2. ~file'[f].torn BY <1>1, <1>3, <1>4, <2>1 DEF VarsOK, Contents
  <2>3. proc'[p].at = "trail" /\ proc'[p].open = f BY <1>1, <2>1, Going DEF Places
  <2>4. Prepared(p)' BY <1>5, <2>2, <2>3 DEF Prepared, Worthless
  <2> QED BY <1>7, <2>1, <2>4
<1>9. CASE WriteTrail(p) /\ ~Fails(p)
  <2>1. file' = [file EXCEPT ![f].trail = "whole"] /\ Goes(p, "count") /\ lock' = lock
        /\ proc[p].at = "trail"
    BY <1>9 DEF WriteTrail, At
  <2>2. ~file'[f].torn /\ file'[f].trail = "whole"
    BY <1>1, <1>3, <1>4, <2>1 DEF VarsOK, Contents, Prepared
  <2>3. proc'[p].at = "count" /\ proc'[p].open = f BY <1>1, <2>1, Going DEF Places
  <2>4. Prepared(p)' BY <1>5, <2>2, <2>3 DEF Prepared, Worthless
  <2> QED BY <1>7, <2>1, <2>4
<1>10. CASE WriteCount(p) /\ ~Fails(p)
  <2>1. file' = [file EXCEPT ![f].count = file[f].bundles] /\ Goes(p, "sync") /\ lock' = lock
        /\ proc[p].at = "count"
    BY <1>10 DEF WriteCount, At
  <2>2. /\ ~file'[f].torn /\ file'[f].trail = "whole"
        /\ file'[f].count = file'[f].bundles
    BY <1>1, <1>3, <1>4, <2>1 DEF VarsOK, Contents, Prepared
  <2>3. proc'[p].at = "sync" /\ proc'[p].open = f BY <1>1, <2>1, Going DEF Places
  <2>4. Prepared(p)' BY <1>5, <2>2, <2>3 DEF Prepared, Worthless, Complete
  <2> QED BY <1>7, <2>1, <2>4
<1> QED BY <1>6, <1>8, <1>9, <1>10

LEMMA PublishLands ==
  ASSUME RecInv, NEW p \in Processes, Effect(p),
         Sync(p) \/ ChooseName(p) \/ Rename(p) \/ SyncDirectory(p) \/ RemoveSidecar(p)
  PROVE  Lands(p)
<1> DEFINE f == proc[p].open
           b == proc[p].base
<1>1. VarsOK /\ VarsOK' /\ HasItsFile(p) /\ Placed(p) /\ Prepared(p)
  BY Typing DEF RecInv, AllHaveTheirFiles, AtPlaces, AllPrepared, Effect
<1>2. promised' = promised /\ file' = file
  BY DEF Sync, ChooseName, Rename, SyncDirectory, RemoveSidecar, Fails
<1>3. Promises(p) BY <1>2 DEF Promises
<1>4. ASSUME proc'[p] = Idle, lock' = [g \in Files |-> IF lock[g] = p THEN Nobody ELSE lock[g]]
      PROVE  Lands(p)
  BY <1>2, <1>4, RestLands
<1>5. CASE Sync(p)
  <2>1. proc[p].at = "sync" /\ part' = part BY <1>5 DEF Sync, At, Fails, directory
  <2>2. f \in Files /\ b \in Bases /\ part[b] = f BY <2>1, WrittenAt DEF Writing
  <2>3. CASE Fails(p)
    <3>1. proc'[p] = Idle /\ lock' = [g \in Files |-> IF lock[g] = p THEN Nobody ELSE lock[g]]
      BY <1>1, <2>3, Closing DEF Fails, Places
    <3> QED BY <1>4, <3>1
  <2>4. CASE synced' = Synced(f) /\ Goes(p, "name") /\ lock' = lock
    <3>1. proc'[p].at = "name" /\ proc'[p].open = f /\ proc'[p].base = b
      BY <1>1, <2>4, Going DEF Places
    <3>2. synced'.file[f] = file[f] BY <1>1, <2>2, <2>4 DEF Synced, VarsOK, DiskType
    <3>3. HasItsFile(p)' BY <1>1, <2>1, <2>4, <3>1 DEF HasItsFile, Opening, Locking, BeginsAt
    <3>4. Placed(p)' /\ Arrives(p)
      BY <2>1, <2>2, <3>1 DEF Placed, Arrives, Writing, RenamedPart, Removing
    <3>5. Prepared(p)' BY <1>1, <1>2, <2>1, <3>1, <3>2 DEF Prepared, Worthless, Complete
    <3> QED BY <1>3, <3>1, <3>3, <3>4, <3>5, ComesFromThere DEF Lands
  <2> QED BY <1>5, <2>3, <2>4 DEF Sync
<1>6. CASE ChooseName(p)
  <2>1. proc[p].at = "name" /\ part' = part /\ synced' = synced
    BY <1>6 DEF ChooseName, At, directory
  <2>2. f \in Files /\ b \in Bases /\ part[b] = f BY <2>1, WrittenAt DEF Writing
  <2>3. CASE Closes(p, "idle")
    <3>1. proc'[p] = Idle /\ lock' = [g \in Files |-> IF lock[g] = p THEN Nobody ELSE lock[g]]
      BY <1>1, <2>3, Closing DEF Places
    <3> QED BY <1>4, <3>1
  <2>4. ASSUME NEW a, proc' = [proc EXCEPT ![p].at = "rename", ![p].alternative = a], lock' = lock
        PROVE  Lands(p)
    <3>1. proc'[p].at = "rename" /\ proc'[p].open = f /\ proc'[p].base = b
      BY <1>1, <2>4 DEF VarsOK, ProcType
    <3>2. HasItsFile(p)' BY <1>1, <2>1, <2>4, <3>1 DEF HasItsFile, Opening, Locking, BeginsAt
    <3>3. Placed(p)' /\ Arrives(p)
      BY <2>1, <2>2, <3>1 DEF Placed, Arrives, Writing, RenamedPart, Removing
    <3>4. Prepared(p)' BY <1>1, <1>2, <2>1, <3>1 DEF Prepared, Worthless, Complete
    <3> QED BY <1>3, <3>1, <3>2, <3>3, <3>4, ComesFromThere DEF Lands
  <2> QED BY <1>6, <2>3, <2>4 DEF ChooseName
<1>7. CASE Rename(p)
  <2>1. proc[p].at = "rename" /\ part[b] # NoFile /\ b \in Bases
    BY <1>1, <1>7, NameIsFree DEF Rename, At, VarsOK, ProcType
  <2>2. part' = [part EXCEPT ![b] = NoFile] /\ Goes(p, "dirsync") /\ lock' = lock
    BY <1>7, <2>1 DEF Rename
  <2>3. proc'[p].at = "dirsync" /\ proc'[p].open = f /\ proc'[p].base = b
    BY <1>1, <2>2, Going DEF Places
  <2>4. part'[b] = NoFile BY <1>1, <2>1, <2>2 DEF VarsOK
  <2>5. HasItsFile(p)' BY <1>1, <2>1, <2>2, <2>3 DEF HasItsFile, Opening, Locking, BeginsAt
  <2>6. Placed(p)' /\ Arrives(p) /\ Prepared(p)'
    BY <2>3, <2>4 DEF Placed, Arrives, Prepared, Writing, RenamedPart, Removing
  <2> QED BY <1>3, <2>3, <2>5, <2>6, ComesFromThere DEF Lands
<1>8. CASE SyncDirectory(p)
  <2>1. proc[p].at = "dirsync" /\ part' = part /\ Closes(p, "unchk")
    BY <1>8 DEF SyncDirectory, At, directory
  <2>2. /\ proc'[p].at = "unchk" /\ proc'[p].open = NoFile /\ proc'[p].base = b
        /\ lock' = [g \in Files |-> IF lock[g] = p THEN Nobody ELSE lock[g]]
    BY <1>1, <2>1, Closing DEF Places
  <2>3. \A g \in Files : lock'[g] # p BY <2>2, ClosedHoldsNothing
  <2>4. part'[b] = NoFile BY <1>1, <2>1 DEF Placed, RenamedPart
  <2>5. HasItsFile(p)' /\ Placed(p)' /\ Arrives(p) /\ Prepared(p)'
    BY <2>2, <2>3, <2>4
    DEF HasItsFile, Placed, Arrives, Prepared, Opening, Locking, BeginsAt, Writing, RenamedPart, Removing
  <2> QED BY <1>3, <2>2, <2>5, ComesFromThere DEF Lands
<1>9. CASE RemoveSidecar(p)
  <2>1. proc[p].at = "unchk" /\ lock' = lock BY <1>9 DEF RemoveSidecar, At
  <2>2. proc'[p] = Idle BY <1>1, <1>9, Resting DEF RemoveSidecar
  <2> QED BY <1>2, <2>1, <2>2, RestLands DEF Locking
<1> QED BY <1>5, <1>6, <1>7, <1>8, <1>9

LEMMA PassLands ==
  ASSUME RecInv, OneGame, NEW p \in Processes, Effect(p),
         OpenPart(p) \/ WinLock(p) \/ ReadPart(p) \/ SeeOrphan(p) \/ Kill(p)
  PROVE  Lands(p)
<1> DEFINE f == proc[p].open
           b == proc[p].base
<1>1. VarsOK /\ VarsOK' /\ HasItsFile(p) /\ Placed(p) /\ Prepared(p)
  BY Typing DEF RecInv, AllHaveTheirFiles, AtPlaces, AllPrepared, Effect
<1>2. promised' = promised /\ part' = part /\ file' = file /\ synced' = synced
  BY DEF OpenPart, WinLock, ReadPart, SeeOrphan, Kill, directory
<1>3. Promises(p) BY <1>2 DEF Promises
<1>4. CASE OpenPart(p)
  <2>1. PICK c \in Bases :
          /\ part[c] # NoFile /\ ~JustCreated(part[c])
          /\ proc' = [proc EXCEPT ![p] = [Idle EXCEPT !.at = "win", !.base = c, !.open = part[c]]]
    BY <1>4 DEF OpenPart, OneGame
  <2>2. proc[p].at = "idle" /\ p \notin Recorders /\ lock' = lock
    BY <1>4, RecordingAssumption DEF OpenPart, At
  <2>3. proc'[p].at = "win" /\ proc'[p].base = c /\ proc'[p].open = part[c]
    BY <1>1, <2>1 DEF VarsOK, Idle
  <2>4. \A g \in Files : lock'[g] # p BY <2>2, ClosedHoldsNothing DEF Locking
  <2>5. HasItsFile(p)' /\ Placed(p)' /\ Arrives(p) /\ Prepared(p)'
    BY <2>1, <2>3, <2>4
    DEF HasItsFile, Placed, Arrives, Prepared, Opening, Locking, BeginsAt, Writing, RenamedPart, Removing
  <2>6. Comes(p)
    <3>1. Traced(part[c], c) BY DEF Traced, TracedIn
    <3>2. ASSUME NEW q \in Processes \ {p}, proc[q].at = "lock" PROVE part[c] # proc[q].open
      <4>1. q \in Recorders
        BY <3>2 DEF RecInv, AllHaveTheirFiles, HasItsFile, BeginsAt
      <4> QED BY <2>1, <3>2, <4>1 DEF JustCreated, At
    <3> QED BY <2>3, <3>1, <3>2 DEF Comes
  <2> QED BY <1>3, <2>5, <2>6 DEF Lands
<1>5. CASE WinLock(p)
  <2>1. proc[p].at = "win" BY <1>5 DEF WinLock, At
  <2>2. f \in Files BY <1>1, <2>1 DEF HasItsFile, Opening, VarsOK, ProcType
  <2>3. CASE part[b] = f /\ lock' = [lock EXCEPT ![f] = p] /\ Goes(p, "read")
    <3>1. proc'[p].at = "read" /\ proc'[p].base = b /\ proc'[p].open = f
      BY <1>1, <2>3, Going DEF Places
    <3>2. ASSUME NEW g \in Files PROVE lock'[g] = p <=> g = f
      BY <1>1, <2>1, <2>3 DEF VarsOK, HasItsFile, Locking
    <3>3. HasItsFile(p)' BY <1>1, <2>1, <3>1, <3>2 DEF HasItsFile, Opening, Locking, BeginsAt
    <3>4. Placed(p)' /\ Arrives(p) /\ Prepared(p)'
      BY <1>2, <2>3, <3>1 DEF Placed, Arrives, Prepared, Writing, RenamedPart, Removing
    <3> QED BY <1>3, <3>1, <3>3, <3>4, ComesFromThere DEF Lands
  <2>4. CASE proc' = [proc EXCEPT ![p] = Idle] /\ lock' = lock
    <3>1. proc'[p] = Idle BY <1>1, <2>4, Resting
    <3> QED BY <1>2, <2>1, <2>4, <3>1, RestLands DEF Locking
  <2> QED BY <1>5, <2>3, <2>4 DEF WinLock
<1>6. CASE ReadPart(p)
  <2>1. proc[p].at = "read" BY <1>6 DEF ReadPart, At
  <2>2. f \in Files /\ b \in Bases /\ (part[b] = f \/ Worthless(f))
    BY <1>1, <2>1 DEF HasItsFile, Opening, Locking, VarsOK, ProcType, Placed
  <2>3. CASE Worthless(f) /\ Closes(p, "discard")
    <3>1. /\ proc'[p].at = "discard" /\ proc'[p].open = NoFile /\ proc'[p].base = b
          /\ lock' = [g \in Files |-> IF lock[g] = p THEN Nobody ELSE lock[g]]
          /\ \A q \in Processes \ {p} : proc'[q] = proc[q]
      BY <1>1, <2>3, Closing DEF Places
    <3>2. \A g \in Files : lock'[g] # p BY <3>1, ClosedHoldsNothing
    <3>3. ASSUME part'[b] # NoFile
          PROVE  /\ LeftWorthless(part'[b])
                 /\ \A q \in Processes : proc'[q].at \in Writing => proc'[q].base # b
      <4>1. part[b] \in Files BY <1>1, <1>2, <2>2, <3>3 DEF VarsOK, Named0
      <4>2. part[b] = f
        <5>1. Traced(part[b], b) /\ Traced(f, b) BY DEF Traced, TracedIn, Opened
        <5> QED BY <2>2, <4>1, <5>1 DEF RecInv, OneRecording
      <4>3. ASSUME NEW q \in Processes, proc'[q].at \in Writing PROVE proc'[q].base # b
        <5>1. q # p BY <3>1, <4>3 DEF Writing
        <5>2. proc[q].open # f BY <2>1, <3>1, <4>3, <5>1, Alone DEF Writing, Opening, Locking
        <5>3. part[proc[q].base] = proc[q].open BY <3>1, <4>3, <5>1, WrittenAt
        <5> QED BY <3>1, <4>2, <5>1, <5>2, <5>3
      <4> QED BY <1>2, <2>3, <4>2, <4>3 DEF LeftWorthless, Worthless
    <3>4. HasItsFile(p)' BY <3>1, <3>2 DEF HasItsFile, Opening, Locking, BeginsAt
    <3>5. Placed(p)' /\ Arrives(p) /\ Prepared(p)'
      BY <3>1, <3>3
      DEF Worthless, LeftWorthless, Placed, Arrives, Prepared, Writing, RenamedPart, Removing
    <3> QED BY <1>3, <3>1, <3>4, <3>5, ComesFromThere DEF Lands
  <2>4. ASSUME ~Worthless(f), NEW place \in {"sync", "truncate"}, Goes(p, place), lock' = lock,
               place = "sync" => Complete(f)
        PROVE  Lands(p)
    <3>1. proc'[p].at = place /\ proc'[p].base = b /\ proc'[p].open = f
      BY <1>1, <2>4, Going DEF Places
    <3>2. HasItsFile(p)' BY <1>1, <2>1, <2>4, <3>1 DEF HasItsFile, Opening, Locking, BeginsAt
    <3>3. Placed(p)' /\ Arrives(p)
      BY <1>2, <2>1, <2>2, <2>4, <3>1 DEF Placed, Arrives, Writing, RenamedPart, Removing
    <3>4. Prepared(p)' BY <1>2, <2>4, <3>1 DEF Prepared, Worthless, Complete
    <3> QED BY <1>3, <3>1, <3>2, <3>3, <3>4, ComesFromThere DEF Lands
  <2> QED BY <1>6, <2>3, <2>4 DEF ReadPart
<1>7. CASE SeeOrphan(p)
  <2>1. PICK c \in Bases :
          /\ part[c] = NoFile
          /\ proc' = [proc EXCEPT ![p] = [Idle EXCEPT !.at = "unchk", !.base = c]]
    BY <1>7 DEF SeeOrphan
  <2>2. proc[p].at = "idle" /\ lock' = lock BY <1>7 DEF SeeOrphan, At
  <2>3. proc'[p].at = "unchk" /\ proc'[p].base = c /\ proc'[p].open = NoFile
    BY <1>1, <2>1 DEF VarsOK, Idle
  <2>4. \A g \in Files : lock'[g] # p BY <2>2, ClosedHoldsNothing DEF Locking
  <2>5. HasItsFile(p)' /\ Placed(p)' /\ Arrives(p) /\ Prepared(p)'
    BY <1>2, <2>1, <2>3, <2>4
    DEF HasItsFile, Placed, Arrives, Prepared, Opening, Locking, BeginsAt, Writing, RenamedPart, Removing
  <2> QED BY <1>3, <2>3, <2>5, ComesFromThere DEF Lands
<1>8. CASE Kill(p)
  <2>1. proc'[p] = Idle /\ lock' = [g \in Files |-> IF lock[g] = p THEN Nobody ELSE lock[g]]
    BY <1>1, <1>8, Closing DEF Kill, Places
  <2> QED BY <1>2, <2>1, RestLands
<1> QED BY <1>4, <1>5, <1>6, <1>7, <1>8

-----------------------------------------------------------------------------
(* Recordings start at bases of their own.                                  *)

\* The ways to go on that a process has from anywhere but "create".
LEMMA WaysOn ==
  ASSUME VarsOK, NEW p \in Processes, proc[p].at # "idle",
         \/ \E place \in Places \ {"look", "create"} : Goes(p, place)
         \/ proc[p].at = "look" /\ Goes(p, "create")
         \/ \E place \in Places \ {"look", "create"} : Closes(p, place)
         \/ proc' = [proc EXCEPT ![p] = Idle]
         \/ proc' = proc /\ proc[p].at \notin {"look", "create"}
  PROVE  GoesOn(p)
<1>1. ASSUME NEW place \in Places \ {"look", "create"}, Goes(p, place) PROVE GoesOn(p)
  BY <1>1, Going DEF GoesOn
<1>2. CASE proc[p].at = "look" /\ Goes(p, "create")
  <2>1. proc'[p].base = proc[p].base BY <1>2, Going DEF Places
  <2> QED BY <1>2, <2>1 DEF GoesOn
<1>3. ASSUME NEW place \in Places \ {"look", "create"}, Closes(p, place) PROVE GoesOn(p)
  BY <1>3, Closing DEF GoesOn, Idle
<1>4. CASE proc' = [proc EXCEPT ![p] = Idle] BY <1>4, Resting DEF GoesOn, Idle
<1>5. CASE proc' = proc /\ proc[p].at \notin {"look", "create"} BY <1>5 DEF GoesOn
<1> QED BY <1>1, <1>2, <1>3, <1>4, <1>5

LEMMA StepGoesOn ==
  ASSUME RecInv, NEW p \in Processes, Step(p) \/ Kill(p), ~OpenRecording(p), ~Create(p)
  PROVE  GoesOn(p)
<1>1. VarsOK /\ {"header", "live", "undo", "idle", "nothing", "trail", "count", "sync", "name",
                 "dirsync", "unchk", "read", "discard", "truncate"} \subseteq Places \ {"look", "create"}
  BY Typing DEF RecInv, Places
<1>2. CASE Look(p) \/ Lock(p)
  <2>1. \/ Goes(p, "create") /\ proc[p].at = "look"
        \/ Goes(p, "header") /\ proc[p].at = "lock"
    BY <1>2, NameIsFree DEF Look, Lock, At
  <2> QED BY <1>1, <2>1, WaysOn
<1>3. CASE WriteHeader(p)
  <2>1. proc[p].at = "header" /\ (Goes(p, "live") \/ Closes(p, "undo"))
    BY <1>3 DEF WriteHeader, At
  <2> QED BY <1>1, <2>1, WaysOn
<1>4. CASE Undo(p) \/ RemoveEmpty(p) \/ Discard(p) \/ RemoveSidecar(p)
  <2>1. proc[p].at # "idle" /\ proc' = [proc EXCEPT ![p] = Idle]
    BY <1>4 DEF Undo, RemoveEmpty, Discard, RemoveSidecar, RemovesPart, At
  <2> QED BY <1>1, <2>1, WaysOn
<1>5. CASE AppendBundle(p) \/ Flush(p) \/ SyncAsync(p)
  <2>1. proc[p].at = "live" /\ proc' = proc BY <1>5 DEF AppendBundle, Flush, SyncAsync, At
  <2> QED BY <1>1, <2>1, WaysOn
<1>6. CASE Finish(p)
  <2>1. proc[p].at = "live" /\ (Closes(p, "idle") \/ Closes(p, "nothing") \/ Goes(p, "trail"))
    BY <1>6 DEF Finish, At
  <2> QED BY <1>1, <2>1, WaysOn
<1>7. CASE WriteTrail(p) \/ WriteCount(p) \/ Truncate(p) \/ Sync(p)
  <2>1. /\ proc[p].at # "idle"
        /\ \/ Closes(p, "idle")
           \/ Goes(p, "count") \/ Goes(p, "sync") \/ Goes(p, "trail") \/ Goes(p, "name")
    BY <1>7 DEF WriteTrail, WriteCount, Truncate, Sync, Fails, At
  <2> QED BY <1>1, <2>1, WaysOn
<1>8. CASE ChooseName(p)
  <2>1. proc[p].at = "name" BY <1>8 DEF ChooseName, At
  <2>2. ASSUME NEW a, proc' = [proc EXCEPT ![p].at = "rename", ![p].alternative = a] PROVE GoesOn(p)
    <3>1. proc'[p].at = "rename" /\ proc'[p].base = proc[p].base
      BY <1>1, <2>2 DEF VarsOK, ProcType
    <3> QED BY <2>1, <3>1 DEF GoesOn
  <2>3. CASE Closes(p, "idle") BY <1>1, <2>1, <2>3, WaysOn
  <2> QED BY <1>8, <2>2, <2>3 DEF ChooseName
<1>9. CASE Rename(p) \/ SyncDirectory(p)
  <2>1. /\ proc[p].at # "idle"
        /\ Closes(p, "idle") \/ Goes(p, "dirsync") \/ Closes(p, "unchk")
    BY <1>9 DEF Rename, SyncDirectory, At
  <2> QED BY <1>1, <2>1, WaysOn
<1>10. CASE OpenPart(p)
  <2>1. PICK b \in Bases : /\ part[b] # NoFile
          /\ proc' = [proc EXCEPT ![p] = [Idle EXCEPT !.at = "win", !.base = b, !.open = part[b]]]
    BY <1>10 DEF OpenPart
  <2>2. proc'[p].base = b BY <1>1, <2>1 DEF VarsOK, Idle
  <2>3. part[b] \in Files /\ Traced(part[b], b) BY <1>1, <2>1 DEF VarsOK, Named0, Traced, TracedIn
  <2>4. p \notin Recorders BY <1>10, RecordingAssumption DEF OpenPart
  <2> QED BY <2>2, <2>3, <2>4 DEF GoesOn, Untraced
<1>11. CASE WinLock(p)
  <2>1. proc[p].at = "win" /\ (Goes(p, "read") \/ proc' = [proc EXCEPT ![p] = Idle])
    BY <1>11 DEF WinLock, At
  <2> QED BY <1>1, <2>1, WaysOn
<1>12. CASE ReadPart(p)
  <2>1. proc[p].at = "read" /\ (Closes(p, "discard") \/ Goes(p, "sync") \/ Goes(p, "truncate"))
    BY <1>12 DEF ReadPart, At
  <2> QED BY <1>1, <2>1, WaysOn
<1>13. CASE SeeOrphan(p)
  <2>1. PICK b \in Bases : /\ sidecar[b] # NoFile
          /\ proc' = [proc EXCEPT ![p] = [Idle EXCEPT !.at = "unchk", !.base = b]]
    BY <1>13 DEF SeeOrphan
  <2>2. proc'[p].base = b BY <1>1, <2>1 DEF VarsOK, Idle
  <2>3. sidecar[b] \in Files /\ Traced(sidecar[b], b)
    BY <1>1, <2>1 DEF VarsOK, Named0, Traced, TracedIn
  <2>4. p \notin Recorders BY <1>13, RecordingAssumption DEF SeeOrphan
  <2> QED BY <2>2, <2>3, <2>4 DEF GoesOn, Untraced
<1>14. CASE Kill(p)
  <2>1. proc[p].at # "idle" /\ Closes(p, "idle") BY <1>14 DEF Kill, At
  <2> QED BY <1>1, <2>1, WaysOn
<1> QED BY <1>2, <1>3, <1>4, <1>5, <1>6, <1>7, <1>8, <1>9, <1>10, <1>11, <1>12, <1>13, <1>14 DEF Step

LEMMA FreshKept ==
  ASSUME RecInv, NEW p \in Processes, Effect(p), Lands(p), GoesOn(p), UNCHANGED time
  PROVE  FreshBases'
<1>1. VarsOK /\ VarsOK' /\ FreshBases /\ Comes(p) /\ now' = now /\ started' = started
  BY Typing DEF RecInv, Effect, Lands, time
<1>2. ASSUME NEW b \in Bases, Untraced(b) PROVE Untraced(b)'
  <2>1. ASSUME NEW f \in Files, Traced(f, b)' PROVE FALSE
    <3>1. Traced(f, b) BY <1>1, <2>1, TracesKept DEF Comes
    <3> QED BY <1>2, <3>1 DEF Untraced
  <2> QED BY <2>1 DEF Untraced
<1>3. ASSUME NEW b \in Bases, NEW q \in Processes, Visits(q, b)', Untraced(b)
      PROVE  Visits(q, b)
  <2>1. CASE q = p BY <1>3, <2>1 DEF GoesOn, Visits
  <2>2. CASE q # p BY <1>3, <2>2 DEF Effect, Visits
  <2> QED BY <2>1, <2>2
<1>4. ASSUME NEW g \in Recorders
      PROVE  /\ started'[g] =< now'
             /\ proc'[g].at # "idle" => proc'[g].base = started'[g]
             /\ \A b \in Bases : Later(b, g)' =>
                  Untraced(b)' /\ \A q \in Processes \ {g} : ~Visits(q, b)'
  <2>1. g \in Processes BY DEF Processes
  <2>2. \/ proc'[g].at = "idle"
        \/ /\ proc[g].at # "idle" /\ proc'[g].base = proc[g].base
           /\ proc'[g].at \in {"look", "create"} => proc[g].at \in {"look", "create"}
    <3>1. CASE g = p BY <3>1 DEF GoesOn
    <3>2. CASE g # p BY <2>1, <3>2 DEF Effect
    <3> QED BY <3>1, <3>2
  <2>3. started'[g] =< now' BY <1>1 DEF FreshBases
  <2>4. proc'[g].at # "idle" => proc'[g].base = started'[g]
    BY <1>1, <2>2 DEF FreshBases
  <2>5. ASSUME NEW b \in Bases, Later(b, g)'
        PROVE  Untraced(b)' /\ \A q \in Processes \ {g} : ~Visits(q, b)'
    <3>1. Later(b, g) BY <1>1, <2>2, <2>5 DEF Later
    <3>2. Untraced(b) /\ \A q \in Processes \ {g} : ~Visits(q, b) BY <1>1, <3>1 DEF FreshBases
    <3> QED BY <1>2, <1>3, <3>2
  <2> QED BY <2>3, <2>4, <2>5
<1> QED BY <1>4 DEF FreshBases

\* A recording is tried at the base of the second it is, where nobody was.
LEMMA OpenFresh ==
  ASSUME RecInv, OneGame, NEW p \in Processes, Effect(p), Lands(p), OpenRecording(p)
  PROVE  FreshBases'
<1>1. /\ VarsOK /\ p \in Recorders /\ started[p] < now /\ now' = now
      /\ started' = [started EXCEPT ![p] = now]
      /\ proc' = [proc EXCEPT ![p].at = "look", ![p].base = now]
  BY Typing DEF RecInv, OpenRecording
<1>2. proc'[p].base = now /\ started'[p] = now /\ now \in Nat /\ started[p] \in Nat
  BY <1>1, NobodyApart DEF VarsOK, ProcType, Bases
<1>3. \A g \in Recorders : g = p BY <1>1 DEF OneGame
<1>4. ASSUME NEW b \in Bases, Later(b, p)'
      PROVE  Untraced(b)' /\ \A q \in Processes \ {p} : ~Visits(q, b)'
  <2>1. b \in Nat BY NobodyApart DEF Bases
  <2>2. Later(b, p) BY <1>1, <1>2, <1>4, <2>1 DEF Later
  <2>3. Untraced(b) /\ \A q \in Processes \ {p} : ~Visits(q, b)
    BY <1>1, <2>2 DEF RecInv, FreshBases
  <2>4. \A q \in Processes \ {p} : ~Visits(q, b)' BY <2>3 DEF Effect, Visits
  <2>5. ASSUME NEW f \in Files, Traced(f, b)' PROVE FALSE
    <3>1. Traced(f, b) BY <2>5, TracesKept DEF Lands, Comes
    <3> QED BY <2>3, <3>1 DEF Untraced
  <2> QED BY <2>4, <2>5 DEF Untraced
<1>5. now =< now BY <1>2
<1> QED BY <1>1, <1>2, <1>3, <1>4, <1>5 DEF FreshBases

-----------------------------------------------------------------------------
(* The invariant.                                                           *)

LEMMA StepKeeps ==
  ASSUME RecInv, NEW p \in Processes, Effect(p), Lands(p), FreshBases'
  PROVE  RecInv'
<1>1. AllHaveTheirFiles' BY OthersFiles DEF Lands, AllHaveTheirFiles
<1>2. RecTypeOK'
  <2>1. VarsOK' BY DEF Effect
  <2>2. ASSUME NEW f \in Files, lock'[f] # Nobody PROVE proc'[lock'[f]].open = f
    <3>1. lock'[f] \in Processes BY <2>1, <2>2 DEF VarsOK
    <3> QED BY <1>1, <3>1 DEF AllHaveTheirFiles, HasItsFile
  <2> QED BY <2>1, <2>2 DEF RecTypeOK, VarsOK, ProcType, Named0, DiskType
<1>3. OneRecording'
  <2>1. ASSUME NEW f \in Files, NEW b \in Bases, Traced(f, b)' PROVE Traced(f, b)
    BY <2>1, TracesKept DEF Lands, Comes
  <2> QED BY <2>1 DEF OneRecording, RecInv
<1>4. AtPlaces'
  <2>1. ASSUME NEW q \in Processes \ {p} PROVE Placed(q)'
    <3>1. Arrives(p) /\ (proc[q].at = "lock" => proc'[p].open # proc[q].open)
      BY DEF Lands, Comes
    <3> QED BY <3>1, OthersPlaced
  <2> QED BY <2>1 DEF Lands, AtPlaces
<1>5. AllPrepared' BY OthersPrepared DEF Lands, AllPrepared
<1>6. NothingFlushedIsLost' /\ OnDisk' BY PromisesKept DEF Lands
<1> QED BY <1>1, <1>2, <1>3, <1>4, <1>5, <1>6, NamesKept, WholeKept DEF RecInv

\* Every step of a process but the creation of a recording.
LEMMA ProcessStep ==
  ASSUME RecInv, OneGame, NEW p \in Processes, Step(p) \/ Kill(p), ~Create(p)
  PROVE  RecInv'
<1>1. Effect(p)
  BY StartEffect, LiveEffect, EndEffect, PublishEffect, PassEffect DEF Step
<1>2. Lands(p)
  BY <1>1, StartLands, LiveLands, EndLands, PublishLands, PassLands DEF Step
<1>3. CASE OpenRecording(p) BY <1>1, <1>2, <1>3, OpenFresh, StepKeeps
<1>4. CASE ~OpenRecording(p)
  <2>1. UNCHANGED time
    BY <1>4 DEF Step, Look, Lock, WriteHeader, Undo, AppendBundle, Flush, SyncAsync, Finish,
                RemoveEmpty, WriteTrail, WriteCount, Sync, ChooseName, Rename, SyncDirectory,
                RemoveSidecar, OpenPart, WinLock, ReadPart, Discard, Truncate, SeeOrphan, Kill,
                RemovesPart, Fails
  <2> QED BY <1>1, <1>2, <1>4, <2>1, StepGoesOn, FreshKept, StepKeeps
<1> QED BY <1>3, <1>4

\* A recording is created, at a base of its own and in a new file.
LEMMA CreateKeeps ==
  ASSUME RecInv, OneGame, NEW p \in Processes, Create(p)
  PROVE  RecInv'
<1> DEFINE b == proc[p].base
<1>1. /\ VarsOK /\ HasItsFile(p) /\ AllHaveTheirFiles /\ OneRecording /\ FreshBases
      /\ AtPlaces /\ AllPrepared /\ proc[p].at = "create"
      /\ WholeIn(final) /\ WholeIn(synced.final)
  BY Typing DEF RecInv, AllHaveTheirFiles, Create, At
<1>2. p \in Recorders /\ b \in Bases /\ part[b] = NoFile
  BY <1>1, NameIsFree DEF HasItsFile, BeginsAt, VarsOK, ProcType
<1>3. b = started[p] /\ Untraced(b) /\ \A q \in Processes \ {p} : ~Visits(q, b)
  <2>1. b = started[p] BY <1>1, <1>2 DEF FreshBases
  <2>2. Later(b, p) BY <1>1, <2>1 DEF Later
  <2> QED BY <1>1, <1>2, <2>1, <2>2 DEF FreshBases
<1>4. PICK f \in Files \ Used :
        /\ part' = [part EXCEPT ![b] = f]
        /\ proc' = [proc EXCEPT ![p].at = "lock", ![p].open = f]
        /\ UNCHANGED <<final, sidecar>>
  BY <1>2 DEF Create
<1>5. UNCHANGED <<file, synced, lock, log, promised, cuts, time>> BY DEF Create
<1>6. /\ proc' \in [Processes -> ProcType]
      /\ \A q \in Processes \ {p} : proc'[q] = proc[q]
      /\ proc'[p].at = "lock" /\ proc'[p].base = b /\ proc'[p].open = f
  <2>1. [proc[p] EXCEPT !.at = "lock", !.open = f] \in ProcType
    BY <1>1, <1>4 DEF VarsOK, ProcType, Places
  <2>2. proc' = [proc EXCEPT ![p] = [proc[p] EXCEPT !.at = "lock", !.open = f]]
    BY <1>1, <1>4 DEF VarsOK
  <2>3. proc[p] \in ProcType BY <1>1 DEF VarsOK
  <2>4. [proc[p] EXCEPT !.at = "lock", !.open = f].base = b
        /\ [proc[p] EXCEPT !.at = "lock", !.open = f].at = "lock"
        /\ [proc[p] EXCEPT !.at = "lock", !.open = f].open = f
    BY <2>3 DEF ProcType
  <2> QED BY <1>1, <2>1, <2>2, <2>4 DEF VarsOK
<1>7. VarsOK' BY <1>1, <1>4, <1>5, <1>6 DEF VarsOK, Named0, time
<1>8. /\ part'[b] = f /\ f # NoFile
      /\ \A c \in Bases : c # b => part'[c] = part[c]
  BY <1>1, <1>2, <1>4, NobodyApart DEF VarsOK
\* Nothing is known of the file.
<1>9. /\ file[f] = Empty /\ file[f].bundles = 0 /\ ~file[f].header
      /\ \A q \in Processes : proc[q].open # f
      /\ \A c \in Bases : ~Traced(f, c)
      /\ lock[f] = Nobody
  <2>1. file[f] = Empty /\ \A q \in Processes : proc[q].open # f BY <1>4 DEF Used
  <2>2. file[f].bundles = 0 /\ ~file[f].header BY <2>1 DEF Empty
  <2>3. ASSUME NEW n \in Bases \X Alternatives PROVE final[n] # f /\ synced.final[n] # f
    BY <1>1, <1>8, <2>2 DEF WholeIn, Worthless, VarsOK, DiskType
  <2>4. ASSUME NEW c \in Bases PROVE ~Traced(f, c)
    <3>1. f \notin {part[c], sidecar[c], synced.part[c], synced.sidecar[c]} BY <1>4 DEF Used
    <3>2. <<c, 0>> \in Bases \X Alternatives /\ <<c, 1>> \in Bases \X Alternatives
      BY DEF Alternatives
    <3>3. ~TracedIn(f, c, part, final, sidecar) BY <2>3, <3>1, <3>2 DEF TracedIn
    <3>4. ~TracedIn(f, c, synced.part, synced.final, synced.sidecar)
      BY <2>3, <3>1, <3>2 DEF TracedIn
    <3> QED BY <2>1, <3>3, <3>4 DEF Traced, Opened
  <2>5. lock[f] = Nobody
    <3>1. lock[f] \in Processes => proc[lock[f]].open = f
      BY <1>1 DEF AllHaveTheirFiles, HasItsFile
    <3> QED BY <1>1, <2>1, <3>1 DEF VarsOK
  <2> QED BY <2>1, <2>2, <2>4, <2>5
<1>10. ASSUME NEW g \in Files, NEW c \in Bases, Traced(g, c)'
       PROVE  Traced(g, c) \/ (g = f /\ c = b)
  <2>1. CASE c = b /\ part'[c] = g BY <1>8, <2>1
  <2>2. CASE Opened(g, c)'
    <3>1. PICK q \in Processes : proc'[q].base = c /\ proc'[q].open = g BY <2>2 DEF Opened
    <3> QED BY <1>6, <3>1 DEF Traced, Opened
  <2>3. CASE ~(c = b /\ part'[c] = g) /\ TracedIn(g, c, part, final, sidecar)'
    BY <1>4, <1>8, <2>3 DEF TracedIn, Traced
  <2>4. CASE TracedIn(g, c, synced.part, synced.final, synced.sidecar)'
    BY <1>5, <2>4 DEF TracedIn, Traced
  <2> QED BY <1>10, <2>1, <2>2, <2>3, <2>4 DEF Traced
<1>11. OneRecording'
  BY <1>1, <1>3, <1>9, <1>10 DEF OneRecording, Untraced
<1>12. AllHaveTheirFiles'
  <2>1. ASSUME NEW g \in Files PROVE lock[g] # p
    BY <1>1 DEF HasItsFile, Locking
  <2>2. HasItsFile(p)'
    BY <1>2, <1>5, <1>6, <1>8, <2>1 DEF HasItsFile, Opening, Locking, BeginsAt
  <2>3. ASSUME NEW q \in Processes \ {p} PROVE HasItsFile(q)'
    BY <1>1, <1>5, <1>6 DEF AllHaveTheirFiles, HasItsFile
  <2> QED BY <2>2, <2>3 DEF AllHaveTheirFiles
<1>13. RecTypeOK'
  <2>2. ASSUME NEW g \in Files, lock'[g] # Nobody PROVE proc'[lock'[g]].open = g
    <3>1. lock'[g] \in Processes BY <1>7, <2>2 DEF VarsOK
    <3> QED BY <1>12, <3>1 DEF AllHaveTheirFiles, HasItsFile
  <2> QED BY <1>7, <2>2 DEF RecTypeOK, VarsOK, ProcType, Named0, DiskType
<1>14. FreshBases'
  <2>1. \A g \in Recorders : g = p BY <1>2 DEF OneGame
  <2>2. started'[p] =< now' BY <1>1, <1>2, <1>5 DEF FreshBases, time
  <2>3. proc'[p].base = started'[p] BY <1>3, <1>5, <1>6 DEF time
  <2>4. ASSUME NEW c \in Bases, Later(c, p)'
        PROVE  Untraced(c)' /\ \A q \in Processes \ {p} : ~Visits(q, c)'
    <3>1. c > started[p] /\ Later(c, p) BY <1>5, <1>6, <2>4 DEF Later, time
    <3>2. c # b BY <1>1, <1>2, <1>3, <3>1, NobodyApart DEF Bases
    <3>3. Untraced(c) /\ \A q \in Processes \ {p} : ~Visits(q, c)
      BY <1>1, <1>2, <3>1 DEF FreshBases
    <3>4. Untraced(c)' BY <1>10, <3>2, <3>3 DEF Untraced
    <3>5. \A q \in Processes \ {p} : ~Visits(q, c)' BY <1>6, <3>3 DEF Visits
    <3> QED BY <3>4, <3>5
  <2> QED BY <2>1, <2>2, <2>3, <2>4 DEF FreshBases
<1>15. /\ NameFree(part, final)' /\ NameFree(part, synced.final)'
       /\ NameFree(synced.part, synced.final)'
  <2>1. ASSUME NEW a \in Alternatives
        PROVE  final[<<b, a>>] = NoFile /\ synced.final[<<b, a>>] = NoFile
    <3>1. final[<<b, a>>] \in Named0 /\ synced.final[<<b, a>>] \in Named0
      BY <1>1, <1>2 DEF VarsOK, DiskType
    <3>2. \A g \in Files : g # final[<<b, a>>] /\ g # synced.final[<<b, a>>]
      BY <1>3 DEF Untraced, Traced, TracedIn, Alternatives
    <3> QED BY <3>1, <3>2 DEF Named0
  <2>2. NameFree(part, final) /\ NameFree(part, synced.final) /\ NameFree(synced.part, synced.final)
    BY DEF RecInv
  <2> QED BY <1>4, <1>5, <1>8, <2>1, <2>2 DEF NameFree
<1>16. AtPlaces'
  <2>1. Placed(p)'
    BY <1>5, <1>6, <1>8, <1>9 DEF Placed, Writing, RenamedPart, Removing
  <2>2. ASSUME NEW q \in Processes \ {p} PROVE Placed(q)'
    <3> DEFINE c == proc[q].base
    <3>1. Placed(q) /\ proc'[q] = proc[q] /\ c \in Bases
      BY <1>1, <1>6 DEF AtPlaces, VarsOK, ProcType
    <3>2. proc[q].at # "idle" => c # b BY <1>3 DEF Visits
    <3>3. proc[q].at # "idle" => part'[c] = part[c] BY <1>8, <3>1, <3>2
    <3>4. proc[q].open # f BY <1>9
    <3>5. ASSUME proc[q].at = "lock"
          PROVE  lock'[proc[q].open] = Nobody
                 /\ \A r \in Processes \ {q} : proc'[r].open # proc[q].open
      BY <1>5, <1>6, <3>1, <3>4, <3>5 DEF Placed
    <3>6. ASSUME proc[q].at \in Removing, part'[c] # NoFile
          PROVE  /\ LeftWorthless(part'[c])
                 /\ \A r \in Processes : proc'[r].at \in Writing => proc'[r].base # c
      <4>1. proc[q].at # "idle" BY <3>6 DEF Removing
      <4>2. Worthless(part[c]) /\ \A r \in Processes : proc[r].at \in Writing => proc[r].base # c
        BY <3>1, <3>3, <3>6, <4>1 DEF Placed
      <4>3. LeftWorthless(part'[c]) BY <1>5, <3>3, <4>1, <4>2 DEF LeftWorthless, Worthless
      <4> QED BY <1>6, <3>2, <4>1, <4>2, <4>3
    <3>7. ASSUME proc[q].at = "read" PROVE part'[c] = proc[q].open \/ LeftWorthless(proc[q].open)
      BY <1>5, <3>1, <3>3, <3>7 DEF Placed, LeftWorthless, Worthless
    <3>8. (proc[q].at \in Writing => part'[c] = proc[q].open)
          /\ (proc[q].at \in RenamedPart => part'[c] = NoFile)
      BY <3>1, <3>3 DEF Placed, Writing, RenamedPart
    <3> QED BY <3>1, <3>5, <3>6, <3>7, <3>8 DEF Placed, LeftWorthless, Worthless
  <2> QED BY <2>1, <2>2 DEF AtPlaces
<1>17. AllPrepared'
  <2>1. Prepared(p)' BY <1>5, <1>6, <1>9 DEF Prepared
  <2>2. ASSUME NEW q \in Processes \ {p} PROVE Prepared(q)'
    <3>1. Prepared(q) /\ proc'[q] = proc[q] BY <1>1, <1>6 DEF AllPrepared
    <3> QED BY <1>4, <1>5, <3>1 DEF Prepared, Worthless, Complete
  <2> QED BY <2>1, <2>2 DEF AllPrepared
<1>18. WholeIn(final)' /\ WholeIn(synced.final)'
  BY <1>1, <1>4, <1>5 DEF WholeIn, Worthless, Complete
<1>19. NothingFlushedIsLost' /\ OnDisk'
  <2>1. ASSUME NEW g \in Files, \E c \in Bases : part[c] = g PROVE \E c \in Bases : part'[c] = g
    <3>1. PICK c \in Bases : part[c] = g BY <2>1
    <3>2. c # b BY <1>2, <3>1, NobodyApart
    <3> QED BY <1>8, <3>1, <3>2
  <2>2. NothingFlushedIsLost /\ OnDisk BY DEF RecInv
  <2>3. \A g \in Files : Named(g) => Named(g)' BY <1>4, <2>1 DEF Named
  <2>4. \A g \in Files : NamedIn(g, part, final) => NamedIn(g, part, final)'
    BY <1>4, <2>1 DEF NamedIn
  <2> QED BY <1>5, <2>2, <2>3, <2>4 DEF NothingFlushedIsLost, OnDisk, NamedIn
<1> QED BY <1>11, <1>12, <1>13, <1>14, <1>15, <1>16, <1>17, <1>18, <1>19 DEF RecInv

\* What a power cut leaves of a file is what was on the disk and a part of what
\* was written since; of a finished file all of it.
LEMMA WhatACutLeaves ==
  ASSUME NEW old \in Contents, NEW new \in Contents, NEW c \in Leaves(old, new),
         old.bundles > 0 => old.header /\ new.header /\ new.bundles >= old.bundles,
         new.bundles > 0 => new.header
  PROVE  /\ c \in Contents
         /\ c.bundles > 0 => c.header
         /\ old.bundles > 0 => c.header /\ c.bundles >= old.bundles
         /\ old = new /\ ~new.torn /\ new.trail = "whole" => c = new
<1> DEFINE Cut == [header : {new.header}, bundles : old.bundles .. new.bundles,
                   torn : BOOLEAN, count : {old.count, new.count}, trail : Prefixes(old, new)]
<1>1. old.bundles \in 0 .. MaxBundles /\ new.bundles \in 0 .. MaxBundles /\ MaxBundles \in Nat
  BY RecordingAssumption DEF Contents
<1>2. CASE c = old \/ c = new BY <1>1, <1>2
<1>3. CASE c \in Cut /\ (c.torn /\ c.bundles = new.bundles => new.torn)
  <2>1. Prefixes(old, new) \subseteq {"none", "torn", "whole"} BY DEF Prefixes, Contents
  <2>2. old.bundles .. new.bundles \subseteq 0 .. MaxBundles BY <1>1
  <2>3. /\ c.header = new.header /\ c.bundles \in old.bundles .. new.bundles
        /\ c.count \in {old.count, new.count} /\ c.trail \in Prefixes(old, new)
        /\ c.torn \in BOOLEAN
    BY <1>3
  <2>4. c \in Contents BY <1>3, <2>1, <2>2 DEF Contents
  <2>5. c.bundles >= old.bundles /\ c.bundles =< new.bundles BY <1>1, <2>3
  <2>6. c.bundles > 0 => c.header BY <1>1, <2>3, <2>5
  <2>7. ASSUME old = new, ~new.torn, new.trail = "whole" PROVE c = new
    <3>1. Prefixes(old, new) = {new.trail} BY <2>7 DEF Prefixes
    <3>2. c.bundles = new.bundles
      <4>1. c.bundles \in Int /\ new.bundles \in Int BY <1>1, <2>3
      <4>2. c.bundles >= new.bundles BY <2>5, <2>7
      <4> QED BY <2>5, <4>1, <4>2
    <3>3. /\ c.header = new.header /\ c.count = new.count /\ c.trail = new.trail
          /\ c.torn = new.torn
      BY <1>3, <2>3, <2>7, <3>1, <3>2 DEF Contents
    <3> QED BY <2>4, <3>2, <3>3 DEF Contents
  <2> QED BY <2>3, <2>4, <2>5, <2>6, <2>7
<1> QED BY <1>2, <1>3 DEF Leaves

LEMMA PowerCutKeeps == RecInv /\ PowerCut => RecInv'
<1> SUFFICES ASSUME RecInv, PowerCut PROVE RecInv'
  OBVIOUS
<1>1. /\ VarsOK /\ OneRecording /\ FreshBases /\ OnDisk
      /\ NameFree(part, final) /\ NameFree(part, synced.final) /\ NameFree(synced.part, synced.final)
      /\ WholeIn(final) /\ WholeIn(synced.final)
  BY Typing DEF RecInv
<1>2. \/ part' = part /\ final' = final /\ sidecar' = sidecar
      \/ part' = synced.part /\ final' = synced.final /\ sidecar' = synced.sidecar
  BY DEF PowerCut, directory
<1>3. /\ synced' = [file |-> file', part |-> part', final |-> final', sidecar |-> sidecar']
      /\ promised' = [f \in Files |-> synced.file[f].bundles]
      /\ proc' = [p \in Processes |-> Idle] /\ lock' = [f \in Files |-> Nobody]
      /\ log' = [p \in Recorders |-> 0] /\ cuts' = cuts + 1 /\ cuts < MaxCuts
      /\ now' = now /\ started' = started
  BY DEF PowerCut, time
<1>4. /\ DOMAIN file' = Files
      /\ \A f \in Files : file'[f] \in IF Named(f)' THEN Leaves(synced.file[f], file[f]) ELSE {Empty}
  BY DEF PowerCut
<1>5. /\ part' \in [Bases -> Named0] /\ final' \in [Bases \X Alternatives -> Named0]
      /\ sidecar' \in [Bases -> Named0]
  BY <1>1, <1>2 DEF VarsOK, DiskType
<1>6. \A f \in Files : Named(f)' <=> NamedIn(f, part, final)'
  BY <1>5 DEF Named, NamedIn
<1>7. ASSUME NEW f \in Files
      PROVE  /\ file[f] \in Contents /\ synced.file[f] \in Contents
             /\ file[f].bundles > 0 => file[f].header
             /\ synced.file[f].bundles > 0 =>
                  /\ synced.file[f].header /\ file[f].header
                  /\ file[f].bundles >= synced.file[f].bundles
                  /\ Named(f)'
  <2>1. file[f] \in Contents /\ synced.file[f] \in Contents BY <1>1 DEF VarsOK, DiskType
  <2>2. synced.file[f].bundles > 0 => NamedIn(f, part, final)' BY <1>1, <1>2 DEF OnDisk, NamedIn
  <2> QED BY <1>1, <1>6, <2>1, <2>2 DEF OnDisk
<1>8. Empty \in Contents /\ Empty.bundles = 0
  BY RecordingAssumption DEF Empty, Contents, OpenCount
<1>9. ASSUME NEW f \in Files
      PROVE  /\ file'[f] \in Contents
             /\ file'[f].bundles > 0 => file'[f].header /\ Named(f)'
             /\ synced.file[f].bundles > 0 =>
                  file'[f].header /\ file'[f].bundles >= synced.file[f].bundles
             /\ /\ synced.file[f] = file[f] /\ Named(f)'
                /\ ~file[f].torn /\ file[f].trail = "whole"
                => file'[f] = file[f]
  <2>1. CASE Named(f)'
    <3>1. file'[f] \in Leaves(synced.file[f], file[f]) BY <1>4, <2>1
    <3> QED BY <1>7, <2>1, <3>1, WhatACutLeaves
  <2>2. CASE ~Named(f)'
    <3>1. file'[f] = Empty BY <1>4, <2>2
    <3> QED BY <1>7, <1>8, <2>2, <3>1
  <2> QED BY <2>1, <2>2
<1>10. file' \in [Files -> Contents]
  <2>1. file' = [f \in Files |-> file'[f]] BY DEF PowerCut
  <2> QED BY <1>9, <2>1
<1>11. synced' \in DiskType /\ synced'.part = part' /\ synced'.final = final'
       /\ synced'.sidecar = sidecar' /\ synced'.file = file'
  BY <1>3, <1>5, <1>10 DEF DiskType
<1>12. VarsOK'
  <2>1. proc' \in [Processes -> ProcType] BY <1>3, IdleTyped
  <2>2. promised' \in [Files -> 0 .. MaxBundles] BY <1>3, <1>7 DEF Contents
  <2>3. cuts' \in 0 .. MaxCuts BY <1>1, <1>3, RecordingAssumption DEF VarsOK
  <2>4. log' \in [Recorders -> 0 .. MaxBundles] BY <1>3, RecordingAssumption
  <2>5. lock' \in [Files -> Processes \cup {Nobody}] BY <1>3
  <2> QED BY <1>1, <1>3, <1>5, <1>10, <1>11, <2>1, <2>2, <2>3, <2>4, <2>5 DEF VarsOK
<1>13. \A p \in Processes : proc'[p] = Idle BY <1>3
<1>14. \A f \in Files : lock'[f] = Nobody BY <1>3
<1>15. AllHaveTheirFiles' /\ AtPlaces' /\ AllPrepared'
  <2>1. ASSUME NEW p \in Processes PROVE HasItsFile(p)' /\ Placed(p)' /\ Prepared(p)'
    <3>1. \A f \in Files : lock'[f] # p BY <1>14, NobodyApart
    <3> QED BY <1>13, <3>1, IdleHasNothing
  <2> QED BY <2>1 DEF AllHaveTheirFiles, AtPlaces, AllPrepared
<1>16. RecTypeOK' BY <1>12, <1>14 DEF RecTypeOK, VarsOK, ProcType, Named0, DiskType
<1>17. ASSUME NEW f \in Files, NEW b \in Bases, Traced(f, b)' PROVE Traced(f, b)
  <2>1. ~Opened(f, b)' BY <1>13, NobodyApart DEF Opened, Idle
  <2>2. TracedIn(f, b, part', final', sidecar')
    BY <1>11, <1>17, <2>1 DEF Traced, TracedIn
  <2>3. CASE part' = part /\ final' = final /\ sidecar' = sidecar
    BY <2>2, <2>3 DEF Traced, TracedIn
  <2>4. CASE part' = synced.part /\ final' = synced.final /\ sidecar' = synced.sidecar
    BY <2>2, <2>4 DEF Traced, TracedIn
  <2> QED BY <1>2, <2>3, <2>4
<1>18. OneRecording' BY <1>1, <1>17 DEF OneRecording
<1>19. FreshBases'
  <2>1. ASSUME NEW g \in Recorders
        PROVE  /\ started'[g] =< now'
               /\ proc'[g].at = "idle"
               /\ \A b \in Bases : Later(b, g)' =>
                    Untraced(b)' /\ \A p \in Processes \ {g} : ~Visits(p, b)'
    <3>1. started'[g] =< now' BY <1>1, <1>3 DEF FreshBases
    <3>2. proc'[g].at = "idle" BY <1>13 DEF Processes, Idle
    <3>3. ASSUME NEW b \in Bases, Later(b, g)'
          PROVE  Untraced(b)' /\ \A p \in Processes \ {g} : ~Visits(p, b)'
      <4>1. Later(b, g) BY <1>3, <3>2, <3>3 DEF Later
      <4>2. Untraced(b) BY <1>1, <4>1 DEF FreshBases
      <4>3. Untraced(b)' BY <1>17, <4>2 DEF Untraced
      <4>4. \A p \in Processes \ {g} : ~Visits(p, b)' BY <1>13 DEF Visits, Idle
      <4> QED BY <4>3, <4>4
    <3> QED BY <3>1, <3>2, <3>3
  <2> QED BY <2>1 DEF FreshBases
<1>20. NameFree(part, final)' /\ NameFree(part, synced.final)' /\ NameFree(synced.part, synced.final)'
  BY <1>1, <1>2, <1>11 DEF NameFree
<1>21. ASSUME NEW f \in Files, NEW n \in Bases \X Alternatives, final'[n] = f
       PROVE  /\ file'[f].header /\ file'[f].bundles # 0
              /\ file'[f].count = file'[f].bundles
              /\ file'[f].trail = "whole" /\ ~file'[f].torn
  <2>1. final[n] = f \/ synced.final[n] = f BY <1>2, <1>21
  <2>2. ~Worthless(f) /\ Complete(f) /\ synced.file[f] = file[f]
    BY <1>1, <2>1, NobodyApart DEF WholeIn, VarsOK, DiskType
  <2>3. Named(f)' BY <1>6, <1>21 DEF NamedIn
  <2>4. file'[f] = file[f] BY <1>9, <2>2, <2>3 DEF Complete
  <2> QED BY <2>2, <2>4 DEF Worthless, Complete
<1>22. WholeIn(final)' /\ WholeIn(synced.final)'
  <2>1. \A n \in Bases \X Alternatives : final'[n] # NoFile => final'[n] \in Files
    BY <1>5 DEF Named0
  <2> QED BY <1>5, <1>11, <1>21, <2>1 DEF WholeIn, Worthless, Complete
<1>23. NothingFlushedIsLost'
  <2>1. \A f \in Files : promised'[f] = synced.file[f].bundles BY <1>3
  <2> QED BY <1>7, <1>9, <2>1 DEF NothingFlushedIsLost
<1>24. OnDisk'
  <2>1. ASSUME NEW f \in Files, file'[f].bundles > 0
        PROVE  /\ file'[f].header
               /\ NamedIn(f, part, final)' /\ NamedIn(f, synced.part, synced.final)'
    BY <1>6, <1>9, <1>11, <2>1 DEF NamedIn
  <2>2. ASSUME NEW f \in Files PROVE file'[f].bundles >= file'[f].bundles
    BY <1>9 DEF Contents
  <2> QED BY <1>11, <2>1, <2>2 DEF OnDisk
<1> QED BY <1>15, <1>16, <1>18, <1>19, <1>20, <1>22, <1>23, <1>24 DEF RecInv

\* A second passes, or nothing happens.
LEMMA TimePasses == RecInv /\ (SecondPasses \/ UNCHANGED recVars) => RecInv'
<1> SUFFICES ASSUME RecInv, SecondPasses \/ UNCHANGED recVars PROVE RecInv'
  OBVIOUS
<1>1. /\ UNCHANGED <<part, final, sidecar, file, synced, lock, proc, started, log, promised, cuts>>
      /\ now' \in Bases /\ now =< now'
  <2>1. now \in Bases BY DEF RecInv, RecTypeOK
  <2>2. CASE SecondPasses BY <2>1, <2>2, NobodyApart DEF SecondPasses, directory, Bases
  <2>3. CASE UNCHANGED recVars
    <3>1. now \in Int BY <2>1 DEF Bases
    <3> QED BY <2>1, <2>3, <3>1 DEF recVars
  <2> QED BY <2>2, <2>3
<1>2. RecTypeOK' BY <1>1 DEF RecInv, RecTypeOK
<1>3. AllHaveTheirFiles' /\ AtPlaces' /\ AllPrepared'
  BY <1>1 DEF RecInv, AllHaveTheirFiles, HasItsFile, AtPlaces, Placed, AllPrepared, Prepared,
              Worthless, Complete
<1>4. \A f \in Files, b \in Bases : Traced(f, b)' <=> Traced(f, b)
  BY <1>1 DEF Traced, TracedIn, Opened
<1>5. OneRecording' BY <1>4 DEF RecInv, OneRecording
<1>6. FreshBases'
  <2>1. ASSUME NEW g \in Recorders PROVE started[g] =< now'
    <3>1. started[g] \in Int /\ now \in Int /\ now' \in Int /\ started[g] =< now
      BY <1>1, <2>1 DEF RecInv, RecTypeOK, FreshBases, Bases
    <3> QED BY <1>1, <3>1
  <2>2. \A b \in Bases : Untraced(b) => Untraced(b)' BY <1>4 DEF Untraced
  <2>3. \A b \in Bases, g \in Recorders : Later(b, g)' => Later(b, g) BY <1>1 DEF Later
  <2>4. \A b \in Bases, q \in Processes : Visits(q, b)' => Visits(q, b) BY <1>1 DEF Visits
  <2>5. FreshBases BY DEF RecInv
  <2> QED BY <1>1, <2>1, <2>2, <2>3, <2>4, <2>5 DEF FreshBases
<1>7. /\ NameFree(part, final)' /\ NameFree(part, synced.final)'
      /\ NameFree(synced.part, synced.final)'
  BY <1>1 DEF RecInv, NameFree
<1>8. WholeIn(final)' /\ WholeIn(synced.final)' BY <1>1 DEF RecInv, WholeIn, Worthless, Complete
<1>9. NothingFlushedIsLost' /\ OnDisk'
  BY <1>1 DEF RecInv, NothingFlushedIsLost, Named, OnDisk, NamedIn
<1> QED BY <1>2, <1>3, <1>5, <1>6, <1>7, <1>8, <1>9 DEF RecInv

LEMMA RecordingStarts == RecInit => RecInv
<1> SUFFICES ASSUME RecInit PROVE RecInv
  OBVIOUS
<1>1. /\ \A b \in Bases : part[b] = NoFile /\ sidecar[b] = NoFile
      /\ \A n \in Bases \X Alternatives : final[n] = NoFile
      /\ part \in [Bases -> Named0] /\ sidecar \in [Bases -> Named0]
      /\ final \in [Bases \X Alternatives -> Named0]
  BY DEF RecInit, Named0
<1>2. Empty \in Contents /\ Empty.bundles = 0 /\ 0 \in 0 .. MaxBundles /\ 0 \in 0 .. MaxCuts
      /\ 0 \in 0 .. NBases
  BY RecordingAssumption DEF Empty, Contents, OpenCount
<1>3. /\ synced.file = file /\ synced.part = part /\ synced.final = final
      /\ synced.sidecar = sidecar /\ synced \in DiskType /\ file \in [Files -> Contents]
      /\ \A f \in Files : file[f].bundles = 0
  BY <1>1, <1>2 DEF RecInit, DiskType
<1>4. VarsOK
  BY <1>1, <1>2, <1>3, IdleTyped, NobodyApart DEF RecInit, VarsOK
<1>5. \A p \in Processes : proc[p] = Idle BY DEF RecInit
<1>6. \A f \in Files : lock[f] = Nobody BY DEF RecInit
<1>7. AllHaveTheirFiles /\ AtPlaces /\ AllPrepared
  BY <1>5, <1>6, NobodyApart
  DEF AllHaveTheirFiles, HasItsFile, AtPlaces, Placed, AllPrepared, Prepared, Idle, Opening,
      Locking, BeginsAt, Writing, RenamedPart, Removing
<1>8. RecTypeOK BY <1>4, <1>6 DEF RecTypeOK, VarsOK, ProcType, Named0, DiskType
<1>9. \A f \in Files, b \in Bases : ~Traced(f, b)
  BY <1>1, <1>3, <1>5, NobodyApart DEF Traced, TracedIn, Opened, Idle, Alternatives
<1>10. OneRecording BY <1>9 DEF OneRecording
<1>11. FreshBases
  <2>1. ASSUME NEW g \in Recorders PROVE started[g] =< now /\ proc[g].at = "idle"
    BY <1>5 DEF RecInit, Processes, Idle
  <2>2. \A p \in Processes, b \in Bases : ~Visits(p, b) BY <1>5 DEF Visits, Idle
  <2> QED BY <1>9, <2>1, <2>2 DEF FreshBases, Untraced
<1>12. NameFree(part, final) /\ NameFree(part, synced.final) /\ NameFree(synced.part, synced.final)
  BY <1>1, <1>3 DEF NameFree
<1>13. WholeIn(final) /\ WholeIn(synced.final) BY <1>1, <1>3 DEF WholeIn
<1>14. NothingFlushedIsLost BY DEF RecInit, NothingFlushedIsLost
<1>15. OnDisk BY <1>3 DEF OnDisk
<1> QED BY <1>7, <1>8, <1>10, <1>11, <1>12, <1>13, <1>14, <1>15 DEF RecInv

LEMMA RecordingInvariance == OneGame => (RecSpec => []RecInv)
<1> SUFFICES ASSUME OneGame PROVE RecSpec => []RecInv
  OBVIOUS
<1>1. RecInit => RecInv BY RecordingStarts
<1>2. RecInv /\ [RecNext]_recVars => RecInv'
  <2> SUFFICES ASSUME RecInv, [RecNext]_recVars PROVE RecInv'
    OBVIOUS
  <2>1. CASE \E p \in Processes : Step(p) \/ Kill(p)
    <3>1. PICK p \in Processes : Step(p) \/ Kill(p) BY <2>1
    <3>2. CASE Create(p) BY <3>2, CreateKeeps
    <3>3. CASE ~Create(p) BY <3>1, <3>3, ProcessStep
    <3> QED BY <3>2, <3>3
  <2>2. CASE PowerCut BY <2>2, PowerCutKeeps
  <2>3. CASE SecondPasses \/ UNCHANGED recVars BY <2>3, TimePasses
  <2> QED BY <2>1, <2>2, <2>3 DEF RecNext
<1> QED BY <1>1, <1>2, PTL DEF RecSpec

-----------------------------------------------------------------------------
(* What follows, where one game at a time is recorded.                      *)

\* Every bundle that a flush has written is in a file that can be found after
\* the process ends, and every one that was synced is after a power cut
\* (ReplayWriter::flush, syncAsync, recoverReplayParts).
THEOREM FlushesLast == OneGame => (RecSpec => []NothingFlushedIsLost)
<1>1. RecInv => NothingFlushedIsLost BY DEF RecInv
<1> QED BY <1>1, RecordingInvariance, PTL

\* A file under a replay's name is a whole one (ReplayWriter::finish, publish,
\* recoverOne), and remains so through power cuts.
THEOREM ReplaysWhole == OneGame => (RecSpec => []ReplaysAreWhole)
<1>1. RecInv => ReplaysAreWhole BY DEF RecInv, WholeIn, ReplaysAreWhole
<1> QED BY <1>1, RecordingInvariance, PTL

\* A live recording keeps its .part, its lock and its sidecar, whatever passes
\* come by (ReplayWriter::open, openLocked, recoverOne).
THEOREM LiveLeftAlone == OneGame => (RecSpec => []RecordingIsLeftAlone)
<1>1. ASSUME RecInv PROVE RecordingIsLeftAlone
  <2>1. ASSUME NEW p \in Recorders, At(p, "live")
        PROVE  /\ part[proc[p].base] = proc[p].open
               /\ lock[proc[p].open] = p
               /\ sidecar[proc[p].base] = proc[p].open
    <3>1. p \in Processes /\ proc[p].at = "live" BY <2>1 DEF At, Processes
    <3>2. HasItsFile(p) /\ Placed(p) /\ Prepared(p)
      BY <1>1, <3>1 DEF RecInv, AllHaveTheirFiles, AtPlaces, AllPrepared
    <3>3. proc[p].open \in Files BY <1>1, <3>1, WrittenAt DEF Writing
    <3> QED BY <3>1, <3>2, <3>3 DEF HasItsFile, Placed, Prepared, Locking, Writing
  <2> QED BY <2>1 DEF RecordingIsLeftAlone
<1> QED BY <1>1, RecordingInvariance, PTL

-----------------------------------------------------------------------------
(* Types, however many games are recorded and whatever a pass meets.        *)

FilesTyped == VarsOK /\ AllHaveTheirFiles

\* A process comes to be k, and has the locks that belong to that.
LocksFor(p, k) ==
  \A f \in Files : /\ lock'[f] = p <=> k.at \in Locking /\ k.open = f
                   /\ \A q \in Processes \ {p} : lock'[f] = q <=> lock[f] = q
LEMMA Becomes ==
  ASSUME FilesTyped, NEW p \in Processes, NEW k \in ProcType, proc' = [proc EXCEPT ![p] = k],
         LocksFor(p, k),
         k.at \in Opening <=> k.open # NoFile,
         k.at \in BeginsAt => p \in Recorders,
         k.at = "idle" => k = Idle
  PROVE  proc' \in [Processes -> ProcType] /\ AllHaveTheirFiles'
<1>1. proc \in [Processes -> ProcType] BY DEF FilesTyped, VarsOK
<1>2. proc'[p] = k /\ \A q \in Processes \ {p} : proc'[q] = proc[q] BY <1>1
<1>3. HasItsFile(p)' BY <1>2 DEF HasItsFile, LocksFor
<1>4. ASSUME NEW q \in Processes \ {p} PROVE HasItsFile(q)'
  <2>1. HasItsFile(q) /\ proc'[q] = proc[q] BY <1>2 DEF FilesTyped, AllHaveTheirFiles
  <2> QED BY <2>1 DEF HasItsFile, LocksFor
<1> QED BY <1>1, <1>3, <1>4 DEF AllHaveTheirFiles

\* It goes on as what it is: with its file and its lock, or with neither.
LEMMA MovesOn ==
  ASSUME FilesTyped, NEW p \in Processes, NEW place \in Places \ {"idle"}, Goes(p, place), UNCHANGED lock,
         place \in Locking <=> proc[p].at \in Locking,
         place \in Opening <=> proc[p].at \in Opening,
         place \in BeginsAt => proc[p].at \in BeginsAt
  PROVE  proc' \in [Processes -> ProcType] /\ AllHaveTheirFiles'
<1> DEFINE k == [proc[p] EXCEPT !.at = place]
<1>1. proc[p] \in ProcType /\ HasItsFile(p) BY DEF FilesTyped, VarsOK, AllHaveTheirFiles
<1>2. k \in ProcType /\ k.at = place /\ k.open = proc[p].open BY <1>1 DEF ProcType
<1>3. proc' = [proc EXCEPT ![p] = k] BY DEF Goes, FilesTyped, VarsOK
<1> HIDE DEF k
<1>4. k.at \in BeginsAt => p \in Recorders BY <1>1, <1>2 DEF HasItsFile
<1>5. k.at \in Opening <=> k.open # NoFile BY <1>1, <1>2 DEF HasItsFile
<1>6. LocksFor(p, k) BY <1>1, <1>2 DEF HasItsFile, LocksFor
<1>7. k.at # "idle" BY <1>2
<1> QED BY <1>2, <1>3, <1>4, <1>5, <1>6, <1>7, Becomes

\* It closes its file.
LEMMA Closed ==
  ASSUME FilesTyped, NEW p \in Processes, NEW place \in Places \ Opening, Closes(p, place),
         place \in BeginsAt => p \in Recorders
  PROVE  /\ proc' \in [Processes -> ProcType] /\ AllHaveTheirFiles'
         /\ lock' \in [Files -> Processes \cup {Nobody}]
<1> DEFINE k == IF place = "idle" THEN Idle ELSE [proc[p] EXCEPT !.at = place, !.open = NoFile]
<1>1. proc[p] \in ProcType /\ lock \in [Files -> Processes \cup {Nobody}] BY DEF FilesTyped, VarsOK
<1>2. k \in ProcType /\ k.at = place /\ k.open = NoFile /\ (place = "idle" => k = Idle)
  BY <1>1, IdleTyped DEF ProcType, Idle
<1>3. proc' = [proc EXCEPT ![p] = k] /\ lock' = [f \in Files |-> IF lock[f] = p THEN Nobody ELSE lock[f]]
  BY DEF Closes
<1> HIDE DEF k
<1>4. lock' \in [Files -> Processes \cup {Nobody}] BY <1>1, <1>3
<1>5. \A f \in Files : /\ lock'[f] # p
                       /\ \A q \in Processes \ {p} : lock'[f] = q <=> lock[f] = q
  BY <1>3, NobodyApart
<1>6. k.at \notin Locking /\ k.at \notin Opening BY <1>2 DEF Opening
<1>7. LocksFor(p, k) BY <1>5, <1>6 DEF LocksFor
<1> QED BY <1>2, <1>3, <1>4, <1>6, <1>7, Becomes

\* It held no lock, and holds none.
LEMMA Unlocked ==
  ASSUME FilesTyped, NEW p \in Processes, NEW k \in ProcType, proc' = [proc EXCEPT ![p] = k], UNCHANGED lock,
         proc[p].at \notin Locking, k.at \notin Locking,
         k.at \in Opening <=> k.open # NoFile,
         k.at \in BeginsAt => p \in Recorders,
         k.at = "idle" => k = Idle
  PROVE  proc' \in [Processes -> ProcType] /\ AllHaveTheirFiles'
<1>1. HasItsFile(p) BY DEF FilesTyped, AllHaveTheirFiles
<1>2. \A f \in Files : lock'[f] # p BY <1>1 DEF HasItsFile
<1>3. LocksFor(p, k) BY <1>2 DEF LocksFor
<1> QED BY <1>3, Becomes

LEMMA GivesUp ==
  ASSUME FilesTyped, NEW p \in Processes, proc' = [proc EXCEPT ![p] = Idle], UNCHANGED lock,
         proc[p].at \notin Locking
  PROVE  proc' \in [Processes -> ProcType] /\ AllHaveTheirFiles'
<1>1. Idle \in ProcType /\ Idle.at = "idle" /\ Idle.open = NoFile BY IdleTyped DEF Idle
<1>2. /\ Idle.at \notin Locking /\ Idle.at \notin Opening /\ Idle.at \notin BeginsAt
  BY <1>1 DEF Opening, Locking, BeginsAt
<1> HIDE DEF Idle
<1> QED BY <1>1, <1>2, Unlocked

LEMMA NextTried ==
  ASSUME FilesTyped, NEW p \in Processes, TriesNext(p), UNCHANGED lock,
         proc[p].at \in {"look", "create", "lock"}
  PROVE  proc' \in [Processes -> ProcType] /\ AllHaveTheirFiles'
<1>1. proc[p] \in ProcType /\ HasItsFile(p) /\ proc \in [Processes -> ProcType]
  BY DEF FilesTyped, VarsOK, AllHaveTheirFiles
<1>2. proc[p].at \notin Locking /\ p \in Recorders BY <1>1 DEF Locking, BeginsAt, HasItsFile
<1>3. CASE proc[p].base < NBases
  <2> DEFINE k == [proc[p] EXCEPT !.base = proc[p].base + 1, !.open = NoFile, !.at = "look"]
  <2>1. proc[p].base + 1 \in Bases BY <1>1, <1>3, NobodyApart DEF ProcType, Bases
  <2>2. k \in ProcType /\ k.at = "look" /\ k.open = NoFile BY <1>1, <2>1 DEF ProcType, Places
  <2>3. proc' = [proc EXCEPT ![p] = k] BY <1>1, <1>3 DEF TriesNext
  <2> HIDE DEF k
  <2>4. k.at \notin Opening /\ k.at \notin Locking /\ k.at # "idle" BY <2>2 DEF Opening, Locking
  <2> QED BY <1>2, <2>2, <2>3, <2>4, Unlocked
<1>4. CASE ~(proc[p].base < NBases)
  BY <1>2, <1>4, GivesUp DEF TriesNext
<1> QED BY <1>3, <1>4

LEMMA TakesLock ==
  ASSUME FilesTyped, NEW p \in Processes, NEW place \in {"header", "read"}, Goes(p, place),
         proc[p].at \in {"lock", "win"}, place = "header" => proc[p].at = "lock",
         lock[proc[p].open] = Nobody, lock' = [lock EXCEPT ![proc[p].open] = p]
  PROVE  /\ proc' \in [Processes -> ProcType] /\ AllHaveTheirFiles'
         /\ lock' \in [Files -> Processes \cup {Nobody}]
<1> DEFINE k == [proc[p] EXCEPT !.at = place]
           f == proc[p].open
<1>1. /\ proc[p] \in ProcType /\ HasItsFile(p)
      /\ lock \in [Files -> Processes \cup {Nobody}] /\ proc \in [Processes -> ProcType]
  BY DEF FilesTyped, VarsOK, AllHaveTheirFiles
<1>2. k \in ProcType /\ k.at = place /\ k.open = f BY <1>1 DEF ProcType, Places
<1>3. proc' = [proc EXCEPT ![p] = k] BY <1>1 DEF Goes
<1>4. f \in Files /\ f # NoFile BY <1>1 DEF HasItsFile, Opening, ProcType
<1> HIDE DEF k
<1>5. \A g \in Files : lock'[g] = IF g = f THEN p ELSE lock[g] BY <1>1, <1>4
<1>6. \A g \in Files : lock[g] # p BY <1>1 DEF HasItsFile, Locking
<1>7. k.at \in Locking /\ k.at \in Opening /\ k.at # "idle" BY <1>2 DEF Locking, Opening
<1>8. k.at \in BeginsAt => p \in Recorders BY <1>1, <1>2 DEF HasItsFile, BeginsAt
<1>9. LocksFor(p, k) BY <1>2, <1>5, <1>6, <1>7, NobodyApart DEF LocksFor
<1>10. lock' \in [Files -> Processes \cup {Nobody}] BY <1>1
<1> QED BY <1>2, <1>3, <1>4, <1>7, <1>8, <1>9, <1>10, Becomes

\* What is left of VarsOK: the variables that are neither processes nor locks.
DataOK ==
  /\ part \in [Bases -> Named0]
  /\ final \in [Bases \X Alternatives -> Named0]
  /\ sidecar \in [Bases -> Named0]
  /\ file \in [Files -> Contents]
  /\ synced \in DiskType
  /\ now \in Bases /\ started \in [Recorders -> 0 .. NBases]
  /\ log \in [Recorders -> 0 .. MaxBundles]
  /\ promised \in [Files -> 0 .. MaxBundles]
  /\ cuts \in 0 .. MaxCuts

LEMMA Together ==
  ASSUME DataOK', proc' \in [Processes -> ProcType], AllHaveTheirFiles',
         lock' \in [Files -> Processes \cup {Nobody}]
  PROVE  FilesTyped'
BY DEF FilesTyped, VarsOK, DataOK

\* Where a process goes, and its locks.
LEMMA PlacesTyped ==
  ASSUME FilesTyped, NEW p \in Processes, Step(p) \/ Kill(p)
  PROVE  /\ proc' \in [Processes -> ProcType] /\ AllHaveTheirFiles'
         /\ lock' \in [Files -> Processes \cup {Nobody}]
<1>1. /\ proc \in [Processes -> ProcType] /\ proc[p] \in ProcType /\ AllHaveTheirFiles /\ HasItsFile(p)
      /\ lock \in [Files -> Processes \cup {Nobody}]
      /\ part \in [Bases -> Named0] /\ now \in Bases /\ proc[p].base \in Bases
  BY DEF FilesTyped, VarsOK, AllHaveTheirFiles, ProcType
<1> DEFINE Moved == /\ proc' \in [Processes -> ProcType] /\ AllHaveTheirFiles'
                    /\ lock' \in [Files -> Processes \cup {Nobody}]
<1>2. ASSUME Closes(p, "idle") PROVE Moved
  BY <1>2, Closed DEF Places, Opening, Locking, BeginsAt
<1>3. CASE OpenRecording(p)
  <2> DEFINE k == [proc[p] EXCEPT !.at = "look", !.base = now]
  <2>1. k \in ProcType /\ k.at = "look" /\ k.open = proc[p].open BY <1>1 DEF ProcType, Places
  <2>2. /\ proc' = [proc EXCEPT ![p] = k] /\ UNCHANGED lock /\ proc[p].at = "idle" /\ p \in Recorders
    BY <1>1, <1>3 DEF OpenRecording, At
  <2> HIDE DEF k
  <2>3. k.open = NoFile /\ k.at \notin Opening /\ k.at \notin Locking /\ proc[p].at \notin Locking
    BY <1>1, <2>1, <2>2 DEF HasItsFile, Opening, Locking
  <2> QED BY <1>1, <2>1, <2>2, <2>3, Unlocked
<1>4. CASE Look(p)
  <2>1. proc[p].at = "look" /\ UNCHANGED lock /\ (TriesNext(p) \/ Goes(p, "create"))
    BY <1>4 DEF Look, At
  <2> QED BY <1>1, <2>1, NextTried, MovesOn DEF Places, Locking, Opening, BeginsAt
<1>5. CASE Create(p)
  <2>1. proc[p].at = "create" /\ UNCHANGED lock BY <1>5 DEF Create, At
  <2>2. CASE TriesNext(p) BY <1>1, <2>1, <2>2, NextTried
  <2>3. CASE ~TriesNext(p)
    <3>1. PICK f \in Files : proc' = [proc EXCEPT ![p].at = "lock", ![p].open = f]
      BY <1>5, <2>3 DEF Create
    <3> DEFINE k == [proc[p] EXCEPT !.at = "lock", !.open = f]
    <3>2. k \in ProcType /\ k.at = "lock" /\ k.open = f BY <1>1 DEF ProcType, Places
    <3>3. proc' = [proc EXCEPT ![p] = k] BY <1>1, <3>1
    <3> HIDE DEF k
    <3>4. /\ k.open # NoFile /\ k.at \in Opening /\ k.at \notin Locking /\ proc[p].at \notin Locking
          /\ p \in Recorders
      BY <1>1, <2>1, <3>2, NobodyApart DEF HasItsFile, Opening, Locking, BeginsAt
    <3> QED BY <1>1, <2>1, <3>2, <3>3, <3>4, Unlocked
  <2> QED BY <2>2, <2>3
<1>6. CASE Lock(p)
  <2>1. proc[p].at = "lock" /\ proc[p].at \notin Locking BY <1>6 DEF Lock, At, Locking
  <2>2. \/ lock[proc[p].open] = Nobody /\ lock' = [lock EXCEPT ![proc[p].open] = p] /\ Goes(p, "header")
        \/ UNCHANGED lock /\ (TriesNext(p) \/ proc' = [proc EXCEPT ![p] = Idle])
    BY <1>6 DEF Lock
  <2> QED BY <1>1, <2>1, <2>2, TakesLock, NextTried, GivesUp
<1>7. CASE WriteHeader(p)
  <2>1. proc[p].at = "header" /\ ((Goes(p, "live") /\ UNCHANGED lock) \/ Closes(p, "undo"))
    BY <1>7 DEF WriteHeader, At
  <2>2. p \in Recorders BY <1>1, <2>1 DEF HasItsFile, BeginsAt
  <2> QED BY <1>1, <2>1, <2>2, MovesOn, Closed DEF Places, Locking, Opening, BeginsAt
<1>8. CASE Undo(p) \/ RemoveEmpty(p) \/ Discard(p) \/ RemoveSidecar(p)
  <2>1. /\ proc[p].at \in {"undo", "nothing", "discard", "unchk"}
        /\ proc' = [proc EXCEPT ![p] = Idle] /\ UNCHANGED lock
    BY <1>8 DEF Undo, RemoveEmpty, Discard, RemoveSidecar, RemovesPart, At
  <2>2. proc[p].at \notin Locking BY <2>1 DEF Locking
  <2> QED BY <1>1, <2>1, <2>2, GivesUp
<1>9. CASE AppendBundle(p) \/ Flush(p) \/ SyncAsync(p)
  <2>1. UNCHANGED <<proc, lock>> BY <1>9 DEF AppendBundle, Flush, SyncAsync
  <2> QED BY <1>1, <2>1 DEF AllHaveTheirFiles, HasItsFile
<1>10. CASE Finish(p)
  <2>1. /\ proc[p].at = "live"
        /\ Closes(p, "idle") \/ Closes(p, "nothing") \/ (Goes(p, "trail") /\ UNCHANGED lock)
    BY <1>10 DEF Finish, At
  <2>2. p \in Recorders BY <1>1, <2>1 DEF HasItsFile, BeginsAt
  <2> QED BY <1>1, <1>2, <2>1, <2>2, MovesOn, Closed DEF Places, Locking, Opening, BeginsAt
<1>11. CASE WriteTrail(p) \/ WriteCount(p) \/ Sync(p) \/ Truncate(p)
  <2>1. /\ proc[p].at \in {"trail", "count", "sync", "truncate"}
        /\ \/ Closes(p, "idle")
           \/ \E place \in {"count", "sync", "name", "trail"} : Goes(p, place) /\ UNCHANGED lock
    BY <1>11 DEF WriteTrail, WriteCount, Sync, Truncate, Fails, At
  <2> QED BY <1>1, <1>2, <2>1, MovesOn DEF Places, Locking, Opening, BeginsAt
<1>12. CASE ChooseName(p)
  <2> DEFINE free == {a \in Alternatives : final[<<proc[p].base, a>>] = NoFile}
             a == CHOOSE x \in free : \A y \in free : x =< y
             k == [proc[p] EXCEPT !.at = "rename", !.alternative = a]
  <2>1. proc[p].at = "name" BY <1>12 DEF ChooseName, At
  <2>2. CASE free = {} BY <1>2, <1>12, <2>2 DEF ChooseName
  <2>3. CASE free # {}
    <3>1. a \in Alternatives
      <4>1. \E x \in free : \A y \in free : x =< y
        <5>1. CASE 0 \in free BY <5>1 DEF Alternatives
        <5>2. CASE 0 \notin free
          <6>1. \A y \in free : y = 1 BY <5>2 DEF Alternatives
          <6>2. PICK x \in free : TRUE BY <2>3
          <6> HIDE DEF free
          <6> QED BY <6>1, <6>2
        <5> QED BY <5>1, <5>2
      <4> QED BY <4>1
    <3>2. proc' = [proc EXCEPT ![p].at = "rename", ![p].alternative = a] /\ UNCHANGED lock
      BY <1>12, <2>3 DEF ChooseName
    <3> HIDE DEF a
    <3>3. k \in ProcType /\ k.at = "rename" /\ k.open = proc[p].open BY <1>1, <3>1 DEF ProcType, Places
    <3>4. proc' = [proc EXCEPT ![p] = k] BY <1>1, <3>2
    <3> HIDE DEF k
    <3>5. /\ k.at \in Locking /\ k.at \in Opening /\ k.at \notin BeginsAt /\ k.at # "idle"
          /\ k.open # NoFile
      BY <1>1, <2>1, <3>3 DEF HasItsFile, Opening, Locking, BeginsAt
    <3>6. LocksFor(p, k) BY <1>1, <2>1, <3>2, <3>3, <3>5 DEF HasItsFile, Locking, LocksFor
    <3> QED BY <1>1, <3>2, <3>3, <3>4, <3>5, <3>6, Becomes
  <2> QED BY <2>2, <2>3
<1>13. CASE Rename(p) \/ SyncDirectory(p)
  <2>1. /\ proc[p].at \in {"rename", "dirsync"}
        /\ Closes(p, "idle") \/ Closes(p, "unchk") \/ (Goes(p, "dirsync") /\ UNCHANGED lock)
    BY <1>13 DEF Rename, SyncDirectory, At
  <2> QED BY <1>1, <1>2, <2>1, MovesOn, Closed DEF Places, Locking, Opening, BeginsAt
<1>14. CASE OpenPart(p)
  <2>1. PICK b \in Bases : /\ part[b] # NoFile
                           /\ proc' = [proc EXCEPT ![p] = [Idle EXCEPT !.at = "win", !.base = b, !.open = part[b]]]
    BY <1>14 DEF OpenPart
  <2> DEFINE k == [Idle EXCEPT !.at = "win", !.base = b, !.open = part[b]]
  <2>2. k \in ProcType /\ k.at = "win" /\ k.open = part[b]
    BY <1>1, IdleTyped DEF Named0, ProcType, Places
  <2>3. proc[p].at = "idle" /\ UNCHANGED lock BY <1>14 DEF OpenPart, At
  <2> HIDE DEF k
  <2>4. /\ k.at \in Opening /\ k.at \notin Locking /\ k.at \notin BeginsAt /\ proc[p].at \notin Locking
    BY <2>2, <2>3 DEF Opening, Locking, BeginsAt
  <2> QED BY <1>1, <2>1, <2>2, <2>3, <2>4, Unlocked DEF k
<1>15. CASE WinLock(p)
  <2>1. proc[p].at = "win" /\ proc[p].at \notin Locking BY <1>15 DEF WinLock, At, Locking
  <2>2. \/ lock[proc[p].open] = Nobody /\ lock' = [lock EXCEPT ![proc[p].open] = p] /\ Goes(p, "read")
        \/ UNCHANGED lock /\ proc' = [proc EXCEPT ![p] = Idle]
    BY <1>15 DEF WinLock
  <2> QED BY <1>1, <2>1, <2>2, TakesLock, GivesUp
<1>16. CASE ReadPart(p)
  <2>1. /\ proc[p].at = "read"
        /\ Closes(p, "discard") \/ (UNCHANGED lock /\ (Goes(p, "sync") \/ Goes(p, "truncate")))
    BY <1>16 DEF ReadPart, At
  <2> QED BY <1>1, <2>1, MovesOn, Closed DEF Places, Locking, Opening, BeginsAt
<1>17. CASE SeeOrphan(p)
  <2>1. PICK b \in Bases : proc' = [proc EXCEPT ![p] = [Idle EXCEPT !.at = "unchk", !.base = b]]
    BY <1>17 DEF SeeOrphan
  <2> DEFINE k == [Idle EXCEPT !.at = "unchk", !.base = b]
  <2>2. k \in ProcType /\ k.at = "unchk" /\ k.open = Idle.open
    BY IdleTyped DEF ProcType, Places
  <2>3. proc[p].at = "idle" /\ UNCHANGED lock /\ Idle.open = NoFile BY <1>17 DEF SeeOrphan, At, Idle
  <2> HIDE DEF k
  <2>4. /\ k.at \notin Opening /\ k.at \notin Locking /\ k.at \notin BeginsAt /\ proc[p].at \notin Locking
    BY <2>2, <2>3 DEF Opening, Locking, BeginsAt
  <2> QED BY <1>1, <2>1, <2>2, <2>3, <2>4, Unlocked DEF k
<1>18. CASE Kill(p)
  BY <1>2, <1>18 DEF Kill
<1> QED BY <1>3, <1>4, <1>5, <1>6, <1>7, <1>8, <1>9, <1>10, <1>11, <1>12, <1>13, <1>14, <1>15,
           <1>16, <1>17, <1>18 DEF Step

\* What it writes, and what of it gets on the disk.
LEMMA DataTyped ==
  ASSUME FilesTyped, NEW p \in Processes, Step(p) \/ Kill(p)
  PROVE  DataOK'
<1>1. DataOK /\ HasItsFile(p) /\ proc[p] \in ProcType
  BY DEF FilesTyped, VarsOK, DataOK, AllHaveTheirFiles
<1>2. NoFile \in Named0 /\ proc[p].open \in Named0 /\ proc[p].base \in Bases
  BY <1>1 DEF Named0, ProcType
<1>3. proc[p].at \in Opening => proc[p].open \in Files BY <1>1 DEF HasItsFile, ProcType
<1>4. CASE OpenRecording(p)
  <2>1. started' \in [Recorders -> 0 .. NBases]
    BY <1>1, <1>4, NobodyApart DEF OpenRecording, DataOK, Bases
  <2> QED BY <1>1, <1>4, <2>1 DEF OpenRecording, DataOK, directory
<1>5. CASE Look(p) \/ Lock(p) \/ ChooseName(p) \/ OpenPart(p) \/ WinLock(p) \/ ReadPart(p) \/ SeeOrphan(p)
  <2>1. UNCHANGED <<directory, file, synced, log, promised, cuts, time>>
    BY <1>5 DEF Look, Lock, ChooseName, OpenPart, WinLock, ReadPart, SeeOrphan, time
  <2> QED BY <1>1, <2>1 DEF DataOK, directory, time
<1>6. CASE Create(p)
  <2>1. part' \in [Bases -> Named0]
    BY <1>1, <1>6 DEF Create, DataOK, Named0, directory
  <2> QED BY <1>1, <1>6, <2>1 DEF Create, DataOK, directory, time
<1>7. CASE WriteHeader(p)
  <2>1. proc[p].open \in Files BY <1>3, <1>7 DEF WriteHeader, At, Opening, Locking
  <2>2. file' \in [Files -> Contents]
    <3> DEFINE c == [file[proc[p].open] EXCEPT !.header = TRUE]
    <3>1. c \in Contents
      <4>1. \A x \in Contents : [x EXCEPT !.header = TRUE] \in Contents BY DEF Contents
      <4>2. file[proc[p].open] \in Contents BY <1>1, <2>1 DEF DataOK
      <4> QED BY <4>1, <4>2
    <3>2. file' = file \/ file' = [file EXCEPT ![proc[p].open] = c] BY <1>7 DEF WriteHeader
    <3> HIDE DEF c
    <3> QED BY <1>1, <2>1, <3>1, <3>2 DEF DataOK
  <2>3. sidecar' \in [Bases -> Named0] BY <1>1, <1>2, <1>7 DEF WriteHeader, DataOK
  <2> QED BY <1>1, <1>7, <2>2, <2>3 DEF WriteHeader, DataOK, time
<1>8. CASE Undo(p) \/ RemoveEmpty(p) \/ Discard(p)
  <2>1. RemovesPart(p) BY <1>8 DEF Undo, RemoveEmpty, Discard
  <2> QED BY <1>1, <1>2, <2>1 DEF RemovesPart, DataOK, time
<1>9. CASE AppendBundle(p)
  <2>1. p \in Recorders BY <1>1, <1>9 DEF AppendBundle, At, HasItsFile, BeginsAt
  <2>2. log' \in [Recorders -> 0 .. MaxBundles]
    BY <1>1, <1>9, <2>1, RecordingAssumption DEF AppendBundle, DataOK
  <2> QED BY <1>1, <1>9, <2>2 DEF AppendBundle, DataOK, directory, time
<1>10. ASSUME proc[p].at = "live", FlushOk(p) \/ FlushFails(p)
       PROVE  file' \in [Files -> Contents] /\ promised' \in [Files -> 0 .. MaxBundles]
  <2> DEFINE f == proc[p].open
  <2>1. p \in Recorders /\ f \in Files BY <1>1, <1>3, <1>10 DEF HasItsFile, BeginsAt, Opening, Locking
  <2>2. /\ log[p] \in 0 .. MaxBundles /\ file[f] \in Contents
        /\ file \in [Files -> Contents] /\ promised \in [Files -> 0 .. MaxBundles]
    BY <1>1, <2>1 DEF DataOK
  <2>3. CASE FlushOk(p)
    <3> DEFINE c == [file[f] EXCEPT !.bundles = log[p], !.torn = FALSE]
    <3>1. c \in Contents BY <2>2 DEF Contents
    <3>2. file' = [file EXCEPT ![f] = c] /\ promised' = [promised EXCEPT ![f] = log[p]]
      BY <2>3 DEF FlushOk, Flushed
    <3> HIDE DEF c
    <3> QED BY <2>1, <2>2, <3>1, <3>2
  <2>4. CASE FlushFails(p)
    <3>1. PICK n \in file[f].bundles .. log[p] - 1, torn \in BOOLEAN :
            file' = [file EXCEPT ![f].bundles = n, ![f].torn = torn]
      BY <2>4 DEF FlushFails
    <3>2. file[f].bundles \in 0 .. MaxBundles BY <2>2 DEF Contents
    <3>3. n \in 0 .. MaxBundles BY <2>2, <3>2, RecordingAssumption
    <3> DEFINE c == [file[f] EXCEPT !.bundles = n, !.torn = torn]
    <3>4. c \in Contents BY <2>2, <3>3 DEF Contents
    <3>5. file' = [file EXCEPT ![f] = c] BY <2>1, <2>2, <3>1
    <3> HIDE DEF c
    <3> QED BY <2>1, <2>2, <2>4, <3>4, <3>5 DEF FlushFails
  <2> QED BY <1>10, <2>3, <2>4
<1>11. CASE Flush(p)
  BY <1>1, <1>10, <1>11 DEF Flush, At, DataOK, directory, time
<1>12. ASSUME proc[p].open \in Files, synced' = Synced(proc[p].open) PROVE synced' \in DiskType
  BY <1>1, <1>12 DEF Synced, DataOK, DiskType
<1>13. CASE SyncAsync(p)
  <2>1. proc[p].open \in Files BY <1>3, <1>13 DEF SyncAsync, At, Opening, Locking
  <2> QED BY <1>1, <1>12, <1>13, <2>1 DEF SyncAsync, DataOK, directory, time
<1>14. CASE Finish(p)
  <2>1. log' \in [Recorders -> 0 .. MaxBundles]
    <3>1. 0 \in 0 .. MaxBundles BY RecordingAssumption
    <3> QED BY <1>1, <1>14, <3>1 DEF Finish, DataOK
  <2>2. file' \in [Files -> Contents] /\ promised' \in [Files -> 0 .. MaxBundles]
    BY <1>1, <1>10, <1>14 DEF Finish, At, DataOK
  <2> QED BY <1>1, <1>14, <2>1, <2>2 DEF Finish, DataOK, directory, time
<1>15. CASE WriteTrail(p) \/ WriteCount(p) \/ Truncate(p)
  <2> DEFINE f == proc[p].open
  <2>1. f \in Files BY <1>3, <1>15 DEF WriteTrail, WriteCount, Truncate, At, Opening, Locking
  <2>2. file[f] \in Contents /\ file \in [Files -> Contents] BY <1>1, <2>1 DEF DataOK
  <2>3. /\ \A t \in {"none", "torn", "whole"} : [file[f] EXCEPT !.trail = t] \in Contents
        /\ [file[f] EXCEPT !.count = file[f].bundles] \in Contents
        /\ [file[f] EXCEPT !.torn = FALSE, !.trail = "none"] \in Contents
    BY <2>2 DEF Contents
  <2>4. \/ file' = file
        \/ \E t \in {"none", "torn", "whole"} : file' = [file EXCEPT ![f] = [file[f] EXCEPT !.trail = t]]
        \/ file' = [file EXCEPT ![f] = [file[f] EXCEPT !.count = file[f].bundles]]
        \/ file' = [file EXCEPT ![f] = [file[f] EXCEPT !.torn = FALSE, !.trail = "none"]]
    BY <1>15, <2>1, <2>2 DEF WriteTrail, WriteCount, Truncate
  <2>5. file' \in [Files -> Contents] BY <2>1, <2>2, <2>3, <2>4
  <2>6. UNCHANGED <<directory, synced, log, promised, cuts, time>>
    BY <1>15 DEF WriteTrail, WriteCount, Truncate, Fails
  <2> QED BY <1>1, <2>5, <2>6 DEF DataOK, directory, time
<1>16. CASE Sync(p)
  <2>1. proc[p].open \in Files BY <1>3, <1>16 DEF Sync, At, Opening, Locking
  <2>2. synced' = synced \/ synced' = Synced(proc[p].open) BY <1>16 DEF Sync, Fails
  <2>3. synced' \in DiskType BY <1>1, <1>12, <2>1, <2>2 DEF DataOK
  <2> QED BY <1>1, <1>16, <2>3 DEF Sync, Fails, DataOK, directory, time
<1>17. CASE Rename(p)
  <2>1. part' \in [Bases -> Named0] /\ final' \in [Bases \X Alternatives -> Named0]
    BY <1>1, <1>2, <1>17 DEF Rename, DataOK, directory
  <2> QED BY <1>1, <1>17, <2>1 DEF Rename, DataOK, directory, time
<1>18. CASE SyncDirectory(p)
  <2>1. synced' \in DiskType BY <1>1, <1>18 DEF SyncDirectory, DataOK, DiskType
  <2> QED BY <1>1, <1>18, <2>1 DEF SyncDirectory, DataOK, directory, time
<1>19. CASE RemoveSidecar(p)
  BY <1>1, <1>2, <1>19 DEF RemoveSidecar, DataOK, time
<1>20. CASE Kill(p)
  <2>1. log' \in [Recorders -> 0 .. MaxBundles]
    <3>1. 0 \in 0 .. MaxBundles BY RecordingAssumption
    <3> QED BY <1>1, <1>20, <3>1 DEF Kill, DataOK
  <2> QED BY <1>1, <1>20, <2>1 DEF Kill, DataOK, directory, time
<1> QED BY <1>4, <1>5, <1>6, <1>7, <1>8, <1>9, <1>11, <1>13, <1>14, <1>15, <1>16, <1>17, <1>18, <1>19, <1>20 DEF Step

\* And what a power cut leaves of it all.
LEMMA CutTyped == FilesTyped /\ PowerCut => FilesTyped'
<1> SUFFICES ASSUME FilesTyped, PowerCut PROVE FilesTyped'
  OBVIOUS
<1>1. DataOK BY DEF FilesTyped, VarsOK, DataOK
<1>2. /\ proc' = [p \in Processes |-> Idle] /\ lock' = [f \in Files |-> Nobody]
      /\ log' = [p \in Recorders |-> 0] /\ UNCHANGED <<now, started>>
      /\ synced' = [file |-> file', part |-> part', final |-> final', sidecar |-> sidecar']
      /\ promised' = [f \in Files |-> synced.file[f].bundles]
    BY DEF PowerCut, time
<1>3. file' \in [Files -> Contents]
  <2>1. PICK left \in [Files -> {Empty} \cup UNION {Leaves(synced.file[f], file[f]) : f \in Files}] : file' = left
    BY DEF PowerCut
  <2>2. ASSUME NEW f \in Files PROVE Leaves(synced.file[f], file[f]) \subseteq Contents
    <3> DEFINE old == synced.file[f]
               new == file[f]
    <3>1. old \in Contents /\ new \in Contents BY <1>1 DEF DataOK, DiskType
    <3> HIDE DEF old, new
    <3>2. Prefixes(old, new) \subseteq {"none", "torn", "whole"} BY <3>1 DEF Prefixes, Contents
    <3>3. /\ new.header \in BOOLEAN /\ old.bundles .. new.bundles \subseteq 0 .. MaxBundles
          /\ {old.count, new.count} \subseteq {OpenCount} \cup 0 .. MaxBundles
      <4>1. old.bundles \in 0 .. MaxBundles /\ new.bundles \in 0 .. MaxBundles BY <3>1 DEF Contents
      <4>2. old.bundles .. new.bundles \subseteq 0 .. MaxBundles BY <4>1, RecordingAssumption
      <4> QED BY <3>1, <4>2 DEF Contents
    <3>4. ASSUME NEW c \in [header : {new.header}, bundles : old.bundles .. new.bundles,
                            torn : BOOLEAN, count : {old.count, new.count}, trail : Prefixes(old, new)]
          PROVE  c \in Contents
      BY <3>2, <3>3 DEF Contents
    <3> QED BY <3>1, <3>4 DEF Leaves, old, new
  <2>3. Empty \in Contents BY RecordingAssumption DEF Empty, Contents
  <2> QED BY <2>1, <2>2, <2>3
<1>4. part' \in [Bases -> Named0] /\ final' \in [Bases \X Alternatives -> Named0] /\ sidecar' \in [Bases -> Named0]
  BY <1>1 DEF PowerCut, DataOK, DiskType, directory
<1>5. synced' \in DiskType BY <1>2, <1>3, <1>4 DEF DiskType
<1>6. promised' \in [Files -> 0 .. MaxBundles]
  <2>1. \A f \in Files : synced.file[f].bundles \in 0 .. MaxBundles BY <1>1 DEF DataOK, DiskType, Contents
  <2> QED BY <1>2, <2>1
<1>7. log' \in [Recorders -> 0 .. MaxBundles] BY <1>2, RecordingAssumption
<1>8. cuts' \in 0 .. MaxCuts BY <1>1, RecordingAssumption DEF PowerCut, DataOK
<1>9. DataOK' BY <1>1, <1>2, <1>3, <1>4, <1>5, <1>6, <1>7, <1>8 DEF DataOK
<1>10. ASSUME NEW p \in Processes PROVE HasItsFile(p)'
  <2>1. proc'[p] = Idle /\ \A f \in Files : lock'[f] # p BY <1>2, NobodyApart
  <2>2. Idle.at = "idle" /\ Idle.open = NoFile BY DEF Idle
  <2> QED BY <2>1, <2>2 DEF HasItsFile, Opening, Locking, BeginsAt
<1>11. proc' \in [Processes -> ProcType] /\ lock' \in [Files -> Processes \cup {Nobody}]
  BY <1>2, IdleTyped
<1> QED BY <1>9, <1>10, <1>11, Together DEF AllHaveTheirFiles

LEMMA NextTyped == FilesTyped /\ [RecNext]_recVars => FilesTyped'
<1> SUFFICES ASSUME FilesTyped, [RecNext]_recVars PROVE FilesTyped'
  OBVIOUS
<1>1. CASE \E p \in Processes : Step(p) \/ Kill(p)
  BY <1>1, PlacesTyped, DataTyped, Together
<1>2. CASE PowerCut BY <1>2, CutTyped
<1>3. CASE SecondPasses \/ UNCHANGED recVars
  <2>1. now' \in Bases BY <1>3, NobodyApart DEF SecondPasses, recVars, FilesTyped, VarsOK, Bases
  <2>2. UNCHANGED <<part, final, sidecar, file, synced, lock, proc, started, log, promised, cuts>>
    BY <1>3 DEF SecondPasses, recVars, directory
  <2> QED BY <2>1, <2>2 DEF FilesTyped, VarsOK, AllHaveTheirFiles, HasItsFile
<1> QED BY <1>1, <1>2, <1>3 DEF RecNext

\* However many games are recorded at a time and whatever a pass comes upon,
\* every variable holds what the code can put in it, and a lock goes with the
\* file its process has open (ReplayWriter::closeFile).
THEOREM RecordingTyped == RecSpec => []RecTypeOK
<1>1. RecInit => FilesTyped
  <2> SUFFICES ASSUME RecInit PROVE FilesTyped
    OBVIOUS
  <2>1. RecTypeOK /\ AllHaveTheirFiles BY RecordingStarts DEF RecInv
  <2> QED BY <2>1, Typing DEF FilesTyped
<1>2. FilesTyped => RecTypeOK BY Typing DEF FilesTyped
<1> QED BY <1>1, <1>2, NextTyped, PTL DEF RecSpec

-----------------------------------------------------------------------------
(* The account file.                                                       *)

\* A file that load() can read to its end, or none.
WholeText == {Absent} \cup {SyncedFile(x) : x \in SUBSET Accounts}

SaveSteps == {"open", "write", "sync", "rename"}

\* While a save is under way the store holds what the file does and the one
\* account that is being registered, and the temporary file is what the step
\* before has made of it.
SaveInStep ==
  /\ saving \in SaveSteps =>
       /\ byFold \ {candidate} = path.has
       /\ candidate \in byFold \cup {NoAccount}
  /\ saving = "sync" => temp = Written(byFold)
  /\ saving = "rename" => temp = SyncedFile(byFold)

AccountsInv ==
  /\ AccTypeOK
  /\ path \in WholeText /\ onDisk \subseteq WholeText
  /\ known \subseteq path.has
  /\ saving = "no" => byFold = path.has
  /\ SaveInStep

-----------------------------------------------------------------------------
\* What a file holds are accounts, and a cut off one is not whole.
LEMMA AccountTexts ==
  /\ \A f \in AccountFiles : f.has \subseteq Accounts
  /\ \A x \in SUBSET Accounts :
       /\ Written(x) \in AccountFiles /\ Written(x).has = x
       /\ SyncedFile(x) \in AccountFiles /\ SyncedFile(x).has = x
       /\ SyncedFile(x).text = "synced" /\ SyncedFile(x) \in WholeText
  /\ Absent \in AccountFiles /\ CutOff \in AccountFiles
  /\ Absent \in WholeText /\ CutOff \notin WholeText
  /\ Absent.has = {}
  <1>1. /\ Absent.has = {} /\ CutOff.has = {}
        /\ \A x : Written(x).has = x /\ SyncedFile(x).has = x /\ SyncedFile(x).text = "synced"
    BY DEF Absent, CutOff, Written, SyncedFile
  <1>2. CutOff # Absent /\ \A x : CutOff # SyncedFile(x)
    BY DEF Absent, CutOff, SyncedFile
  <1>3. \A f \in AccountFiles : f.has \subseteq Accounts
    BY <1>1 DEF AccountFiles
  <1>4. Absent \in WholeText /\ CutOff \notin WholeText
    BY <1>2 DEF WholeText
  <1>5. /\ Absent \in AccountFiles /\ CutOff \in AccountFiles
        /\ \A x \in SUBSET Accounts :
             Written(x) \in AccountFiles /\ SyncedFile(x) \in AccountFiles /\ SyncedFile(x) \in WholeText
    BY DEF AccountFiles, WholeText
  <1> QED
    BY <1>1, <1>3, <1>4, <1>5

LEMMA AccountsStart == AccInit => AccountsInv
  BY AccountTexts DEF AccInit, AccountsInv, AccTypeOK, SaveInStep, SaveSteps

\* A save that does not come to its end leaves memory as the file is.
LEMMA SaveFailureKeeps ==
  ASSUME AccountsInv, saving \in SaveSteps, SaveFails \/ OpenFails
  PROVE  AccountsInv'
  <1>1. /\ saving' = "no" /\ candidate' = NoAccount
        /\ byFold' = byFold \ {candidate}
        /\ UNCHANGED <<path, onDisk, known>>
        /\ temp' \in {temp, Absent}
    BY DEF SaveFails, OpenFails
  <1>2. byFold' = path'.has
    BY <1>1 DEF AccountsInv, SaveInStep
  <1>3. AccTypeOK'
    BY <1>1, AccountTexts DEF AccountsInv, AccTypeOK
  <1> QED
    BY <1>1, <1>2, <1>3 DEF AccountsInv, SaveInStep, SaveSteps

\* The rename puts a synced file of everything in memory in place.
LEMMA RenameKeeps ==
  ASSUME AccountsInv, RenameTemp
  PROVE  AccountsInv'
  <1>1. saving = "rename"
    BY DEF RenameTemp
  <1>2. CASE SaveFails
    BY <1>1, <1>2, SaveFailureKeeps DEF SaveSteps
  <1>3. CASE ~SaveFails
    <2>1. /\ path' = temp /\ temp' = Absent /\ onDisk' = Renamed
          /\ known' = known \cup ({candidate} \ {NoAccount})
          /\ saving' = "no" /\ candidate' = NoAccount /\ byFold' = byFold
      BY <1>3 DEF RenameTemp
    <2>2. temp = SyncedFile(byFold) /\ byFold \in SUBSET Accounts
      BY <1>1 DEF AccountsInv, SaveInStep, AccTypeOK
    <2>3. /\ path'.has = byFold /\ path' \in WholeText /\ path' \in AccountFiles
          /\ temp.text = "synced"
      BY <2>1, <2>2, AccountTexts
    <2>4. onDisk' = onDisk \cup {temp}
      BY <2>1, <2>3 DEF Renamed
    <2>5. onDisk' \subseteq WholeText /\ onDisk' \subseteq AccountFiles
      BY <2>1, <2>3, <2>4 DEF AccountsInv, AccTypeOK
    <2>6. known' \subseteq byFold
      <3>1. known \subseteq byFold
        BY <1>1 DEF AccountsInv, SaveInStep, SaveSteps
      <3>2. candidate # NoAccount => candidate \in byFold
        BY <1>1 DEF AccountsInv, SaveInStep, SaveSteps
      <3> QED
        BY <2>1, <3>1, <3>2
    <2> QED
      BY <2>1, <2>2, <2>3, <2>5, <2>6, AccountTexts DEF AccountsInv, AccTypeOK, SaveInStep, SaveSteps
  <1> QED
    BY <1>2, <1>3

\* A power cut takes from what players were told no more than the file it
\* leaves lacks.
LEMMA PowerLossKeeps ==
  ASSUME AccountsInv, PowerLost
  PROVE  AccountsInv'
  <1>1. PICK text \in onDisk : path' = text /\ onDisk' = {text} /\ known' = known \cap text.has
    BY DEF PowerLost
  <1>2. text \in WholeText /\ text \in AccountFiles
    BY DEF AccountsInv, AccTypeOK
  <1>3. /\ saving' = "down" /\ candidate' = NoAccount /\ byFold' = {}
        /\ temp' \in {temp, CutOff, Absent}
    BY DEF PowerLost
  <1> QED
    BY <1>1, <1>2, <1>3, AccountTexts DEF AccountsInv, AccTypeOK, SaveInStep, SaveSteps

\* Every step keeps the file whole and complete.
LEMMA AccountsStepKeeps == AccountsInv /\ [AccNext]_accVars => AccountsInv'
  <1> SUFFICES ASSUME AccountsInv, [AccNext]_accVars PROVE AccountsInv'
    OBVIOUS
  <1>1. ASSUME NEW a \in Accounts, CreateAccount(a) PROVE AccountsInv'
    <2>1. byFold' \ {candidate'} = path'.has /\ candidate' \in byFold'
      BY <1>1 DEF CreateAccount, AccountsInv
    <2> QED
      BY <1>1, <2>1 DEF CreateAccount, AccountsInv, AccTypeOK, SaveInStep, SaveSteps
  <1>2. CASE NoteLogin
    <2>1. byFold' \ {candidate'} = path'.has
      BY <1>2, AccountsAssumption DEF NoteLogin, AccountsInv, AccTypeOK
    <2> QED
      BY <1>2, <2>1 DEF NoteLogin, AccountsInv, AccTypeOK, SaveInStep, SaveSteps
  <1>3. CASE OpenTemp
    <2>1. CASE OpenFails \/ SaveFails
      BY <1>3, <2>1, SaveFailureKeeps DEF OpenTemp, SaveSteps
    <2>2. CASE SavesOn("write", CutOff)
      BY <1>3, <2>2, AccountTexts DEF OpenTemp, SavesOn, AccountsInv, AccTypeOK, SaveInStep, SaveSteps
    <2> QED
      BY <1>3, <2>1, <2>2 DEF OpenTemp
  <1>4. CASE WriteTemp
    <2>1. CASE SaveFails
      BY <1>4, <2>1, SaveFailureKeeps DEF WriteTemp, SaveSteps
    <2>2. CASE SavesOn("sync", Written(byFold))
      BY <1>4, <2>2, AccountTexts DEF WriteTemp, SavesOn, AccountsInv, AccTypeOK, SaveInStep, SaveSteps
    <2> QED
      BY <1>4, <2>1, <2>2 DEF WriteTemp
  <1>5. CASE SyncTemp
    <2>1. CASE SaveFails
      BY <1>5, <2>1, SaveFailureKeeps DEF SyncTemp, SaveSteps
    <2>2. CASE SavesOn("rename", SyncedFile(temp.has))
      <3>1. saving = "sync" /\ temp = Written(byFold) /\ byFold \in SUBSET Accounts
        BY <1>5 DEF SyncTemp, AccountsInv, SaveInStep, AccTypeOK
      <3>2. temp' = SyncedFile(byFold)
        BY <2>2, <3>1, AccountTexts DEF SavesOn
      <3> QED
        BY <2>2, <3>1, <3>2, AccountTexts DEF SavesOn, AccountsInv, AccTypeOK, SaveInStep, SaveSteps
    <2> QED
      BY <1>5, <2>1, <2>2 DEF SyncTemp
  <1>6. CASE RenameTemp
    BY <1>6, RenameKeeps
  <1>7. CASE DirectorySettles
    BY <1>7 DEF DirectorySettles, AccountsInv, AccTypeOK, SaveInStep
  <1>8. CASE ServerKilled
    BY <1>8 DEF ServerKilled, AccountsInv, AccTypeOK, SaveInStep, SaveSteps
  <1>9. CASE PowerLost
    BY <1>9, PowerLossKeeps
  <1>10. CASE ServerStarts
    <2>1. path.has \subseteq Accounts
      BY AccountTexts DEF AccountsInv, AccTypeOK
    <2> QED
      BY <1>10, <2>1 DEF ServerStarts, AccountsInv, AccTypeOK, SaveInStep, SaveSteps
  <1>11. CASE UNCHANGED accVars
    BY <1>11 DEF accVars, AccountsInv, AccTypeOK, SaveInStep
  <1> QED
    BY <1>1, <1>2, <1>3, <1>4, <1>5, <1>6, <1>7, <1>8, <1>9, <1>10, <1>11 DEF AccNext

LEMMA AccountsInvariance == AccSpec => []AccountsInv
  BY AccountsStart, AccountsStepKeeps, PTL DEF AccSpec

-----------------------------------------------------------------------------
\* The account file is always a whole one with every account whose player was
\* told so, also after a power cut, and a server at rest holds just what is in
\* it (AccountStore::save).
THEOREM AccountsAreKept == AccSpec => []AccountsKept
  <1>1. AccountsInv => AccountsKept
    BY AccountTexts DEF AccountsInv, AccountsKept
  <1> QED
    BY <1>1, AccountsInvariance, PTL

-----------------------------------------------------------------------------
(* The two together with the packages.                                     *)

\* A behaviour of the composition is one of each of the three: what moves
\* takes that part's steps, and the others rest.
LEMMA EachKeepsItsOwn == MCSpec => PkSpec /\ RecSpec /\ AccSpec
<1>1. MCInit => PkInit /\ RecInit /\ AccInit BY DEF MCInit
<1>2. [MCNext]_keepVars => [PkNext]_pkVars /\ [RecNext]_recVars /\ [AccNext]_accVars
  BY DEF MCNext, PackagesStep, RecordingStep, AccountsStep, keepVars
<1> QED BY <1>1, <1>2, PTL DEF MCSpec, PkSpec, RecSpec, AccSpec

\* Every variable of the packages, of the recordings and of the account file
\* holds what the code can put in it, whichever of them moves.
THEOREM KeepTypeCorrect == MCSpec => []KeepTypeOK
<1>1. AccountsInv => AccTypeOK BY DEF AccountsInv
<1>2. PkTypeOK /\ RecTypeOK /\ AccTypeOK => KeepTypeOK BY DEF KeepTypeOK
<1> QED BY <1>1, <1>2, EachKeepsItsOwn, PackagesTyped, RecordingTyped, AccountsInvariance, PTL
=============================================================================
