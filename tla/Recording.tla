------------------------------- MODULE Recording -------------------------------
(***************************************************************************)
(* How a replay gets on disk (src/src/net/replaywriter.cpp), on POSIX.  A  *)
(* game is recorded into <base>.takrep.part as it is played and renamed to *)
(* <base>.takrep at its end; the .part a dead process left behind is       *)
(* finished by a recovery pass of any other process.  A lock on the open   *)
(* file keeps the recovery off a live recording.  Steps are the calls that *)
(* another process, or the end of this one, can come between.              *)
(*                                                                         *)
(* A file is what the loader can tell of it: a header, complete bundles, a *)
(* torn one, the count field, the hash trail.  The system keeps what was   *)
(* written when a process is killed; a power cut leaves of a file some     *)
(* state between the last sync and the last write, since bytes are only    *)
(* appended but for the count.  The file system journals: a sync commits   *)
(* the directory's changes before it.                                      *)
(***************************************************************************)
EXTENDS Integers, FiniteSets

CONSTANTS
  Recorders,      \* processes that record a game
  Recoverers,     \* processes that finish what others left behind
  NBases,         \* bound: seconds at which recordings start, a name of each
  NFiles,         \* bound: recordings made
  MaxBundles,     \* bound: bundles in a recording
  MaxCuts,        \* bound: power cuts
  MaxAtCut,       \* bound: recordings there are at a power cut
  MeetsCreation   \* a recovery pass may come between a create and its lock

Nobody == "nobody"

ASSUME RecordingAssumption ==
  /\ Recorders \cap Recoverers = {} /\ Nobody \notin Recorders \cup Recoverers
  /\ NBases \in Nat \ {0} /\ NFiles \in Nat \ {0} /\ MaxBundles \in Nat \ {0}
  /\ MaxCuts \in Nat /\ MaxAtCut \in Nat /\ MeetsCreation \in BOOLEAN

Processes == Recorders \cup Recoverers
Bases == 1 .. NBases
Files == 1 .. NFiles
NoFile == 0
OpenCount == -1                          \* kReplayOpenCount

VARIABLES
  part,       \* <base>.takrep.part, a file or none, per base
  final,      \* <base>.takrep and <base>-1.takrep, per base
  sidecar,    \* <base>.takrep.part.chk: the recording whose hashes it holds
  file,       \* what each file holds
  synced,     \* what of each file, and of the directory, is on the disk
  lock,       \* the process that holds a file's lock
  proc,       \* each process: where it is, its base and its open file
  now,        \* the second it is: the first name a recording tries
  started,    \* the second of each recorder's last attempt
  log,        \* bundles the game has handed the recorder
  promised,   \* history: bundles of each recording that must not be lost
  cuts        \* power cuts so far

recVars == <<part, final, sidecar, file, synced, lock, proc, now,
           started, log, promised, cuts>>
time == <<now, started>>

Contents == [header : BOOLEAN, bundles : 0 .. MaxBundles, torn : BOOLEAN,
             count : {OpenCount} \cup 0 .. MaxBundles,
             trail : {"none", "torn", "whole"}]
Empty == [header |-> FALSE, bundles |-> 0, torn |-> FALSE,
          count |-> OpenCount, trail |-> "none"]

Alternatives == {0, 1}
Places ==
  {"idle", "look", "create", "lock", "header", "undo", "live", "nothing",
   "trail", "count", "sync", "name", "rename", "dirsync", "unchk",
   "win", "read", "discard", "truncate"}

\* Every variable holds what the code can put in it; a lock goes with its open
\* file (closeFile).
RecTypeOK ==
  /\ part \in [Bases -> Files \cup {NoFile}]
  /\ final \in [Bases \X Alternatives -> Files \cup {NoFile}]
  /\ sidecar \in [Bases -> Files \cup {NoFile}]
  /\ file \in [Files -> Contents]
  /\ synced \in [file : [Files -> Contents],
                 part : [Bases -> Files \cup {NoFile}],
                 final : [Bases \X Alternatives -> Files \cup {NoFile}],
                 sidecar : [Bases -> Files \cup {NoFile}]]
  /\ lock \in [Files -> Processes \cup {Nobody}]
  /\ \A f \in Files : lock[f] # Nobody => proc[lock[f]].open = f
  /\ proc \in [Processes -> [at : Places, base : Bases, open : Files \cup {NoFile},
                             alternative : Alternatives]]
  /\ now \in Bases /\ started \in [Recorders -> 0 .. NBases]
  /\ log \in [Recorders -> 0 .. MaxBundles]
  /\ promised \in [Files -> 0 .. MaxBundles]
  /\ cuts \in 0 .. MaxCuts

Idle == [at |-> "idle", base |-> 1, open |-> NoFile, alternative |-> 0]

RecInit ==
  /\ part = [b \in Bases |-> NoFile]
  /\ final = [n \in Bases \X Alternatives |-> NoFile]
  /\ sidecar = [b \in Bases |-> NoFile]
  /\ file = [f \in Files |-> Empty]
  /\ synced = [file |-> file, part |-> part, final |-> final, sidecar |-> sidecar]
  /\ lock = [f \in Files |-> Nobody]
  /\ proc = [p \in Processes |-> Idle]
  /\ now = 1 /\ started = [p \in Recorders |-> 0]
  /\ log = [p \in Recorders |-> 0]
  /\ promised = [f \in Files |-> 0]
  /\ cuts = 0

-----------------------------------------------------------------------------
(* What the steps of all processes share.                                   *)

directory == <<part, final, sidecar>>

At(p, place) == proc[p].at = place
Goes(p, place) == proc' = [proc EXCEPT ![p].at = place]

LeaksItsFile(p, place) ==
  /\ proc' = [proc EXCEPT ![p] = IF place = "idle" THEN Idle ELSE [@ EXCEPT !.at = place, !.open = NoFile]]
  /\ UNCHANGED lock

\* The process closes its file, which releases the lock it has on it, and has
\* nothing more to do, or goes on to a place where it needs no file.
Closes(p, place) ==
  /\ lock' = [f \in Files |-> IF lock[f] = p THEN Nobody ELSE lock[f]]
  /\ proc' = [proc EXCEPT ![p] = IF place = "idle" THEN Idle
                                 ELSE [@ EXCEPT !.at = place, !.open = NoFile]]

\* Everything of file f, and of the directory, is on the disk.
Synced(f) ==
  [file |-> [synced.file EXCEPT ![f] = file[f]],
   part |-> part, final |-> final, sidecar |-> sidecar]

Used == {f \in Files : \/ file[f] # Empty \/ promised[f] > 0
                       \/ \E b \in Bases : f \in {part[b], sidecar[b], synced.part[b], synced.sidecar[b]}
                       \/ \E p \in Processes : proc[p].open = f}

-----------------------------------------------------------------------------
(* ReplayWriter::open, tried again seconds later when it fails (the log is   *)
(* kept: a recording that starts late still begins at tick 0).              *)

OpenRecording(p) ==
  /\ At(p, "idle") /\ p \in Recorders /\ started[p] < now
  /\ proc' = [proc EXCEPT ![p].at = "look", ![p].base = now]
  /\ started' = [started EXCEPT ![p] = now]
  /\ UNCHANGED <<directory, file, synced, lock, now, log, promised, cuts>>

SecondPasses ==
  /\ now < NBases
  /\ now' = now + 1
  /\ UNCHANGED <<directory, file, synced, lock, proc, started, log, promised, cuts>>

\* The next stamp, when a name is taken; out of stamps, no recording.
TriesNext(p) ==
  IF proc[p].base < NBases
  THEN proc' = [proc EXCEPT ![p].base = @ + 1, ![p].open = NoFile, ![p].at = "look"]
  ELSE proc' = [proc EXCEPT ![p] = Idle]

\* exists(base): never reuse a finished replay's name.
Look(p) ==
  /\ At(p, "look")
  /\ IF final[<<proc[p].base, 0>>] # NoFile THEN TriesNext(p) ELSE Goes(p, "create")
  /\ UNCHANGED <<directory, file, synced, lock, log, promised, cuts, time>>

\* createLocked: an exclusive create, then the lock.
Create(p) ==
  LET b == proc[p].base IN
  /\ At(p, "create")
  /\ \/ /\ part[b] # NoFile
        /\ TriesNext(p)
        /\ UNCHANGED directory
     \/ /\ part[b] = NoFile
        /\ \E f \in Files \ Used :
             /\ \A g \in Files \ Used : f =< g
             /\ part' = [part EXCEPT ![b] = f]
             /\ proc' = [proc EXCEPT ![p].at = "lock", ![p].open = f]
        /\ UNCHANGED <<final, sidecar>>
  /\ UNCHANGED <<file, synced, lock, log, promised, cuts, time>>

Lock(p) ==
  LET f == proc[p].open IN
  /\ At(p, "lock")
  /\ IF lock[f] = Nobody
     THEN /\ lock' = [lock EXCEPT ![f] = p]
          /\ Goes(p, "header")
     ELSE /\ IF part[proc[p].base] # NoFile THEN TriesNext(p)
             ELSE proc' = [proc EXCEPT ![p] = Idle]
          /\ UNCHANGED lock
  /\ UNCHANGED <<directory, file, synced, log, promised, cuts, time>>

\* The sidecar, in place of a left-over one, and the header; or a write fails.
WriteHeader(p) ==
  /\ At(p, "header")
  /\ sidecar' = [sidecar EXCEPT ![proc[p].base] = proc[p].open]
  /\ \/ /\ file' = [file EXCEPT ![proc[p].open].header = TRUE]
        /\ Goes(p, "live")
        /\ UNCHANGED lock
     \/ /\ Closes(p, "undo")
        /\ UNCHANGED file
  /\ UNCHANGED <<part, final, synced, log, promised, cuts, time>>

\* The .part and its sidecar are removed by name, after the file was closed.
RemovesPart(p) ==
  /\ part' = [part EXCEPT ![proc[p].base] = NoFile]
  /\ sidecar' = [sidecar EXCEPT ![proc[p].base] = NoFile]
  /\ proc' = [proc EXCEPT ![p] = Idle]
  /\ UNCHANGED <<final, file, synced, lock, log, promised, cuts, time>>

Undo(p) == At(p, "undo") /\ RemovesPart(p)

-----------------------------------------------------------------------------
(* Recording.                                                               *)

AppendBundle(p) ==
  /\ At(p, "live")
  /\ log[p] < MaxBundles
  /\ log' = [log EXCEPT ![p] = @ + 1]
  /\ UNCHANGED <<directory, file, synced, lock, proc, promised, cuts, time>>

FlushedAfterTorn(p) == [file[proc[p].open] EXCEPT !.bundles = log[p]]

\* A flush writes what is queued; one that fails may have written some of it,
\* and the next one writes it all again from where the last good one ended.
Flushed(p) == [file[proc[p].open] EXCEPT !.bundles = log[p], !.torn = FALSE]

FlushOk(p) ==
  LET f == proc[p].open IN
  /\ file' = [file EXCEPT ![f] = Flushed(p)]
  /\ promised' = [promised EXCEPT ![f] = log[p]]

FlushFails(p) ==
  LET f == proc[p].open IN
  /\ file[f].bundles < log[p]
  /\ \E n \in file[f].bundles .. log[p] - 1, torn \in BOOLEAN :
       file' = [file EXCEPT ![f].bundles = n, ![f].torn = torn]
  /\ UNCHANGED promised

Flush(p) ==
  /\ At(p, "live")
  /\ FlushOk(p) \/ FlushFails(p)
  /\ UNCHANGED <<directory, synced, lock, proc, log, cuts, time>>

\* The helper thread's sync, at any moment.
SyncAsync(p) ==
  /\ At(p, "live")
  /\ synced' = Synced(proc[p].open)
  /\ UNCHANGED <<directory, file, lock, proc, log, promised, cuts, time>>

-----------------------------------------------------------------------------
(* ReplayWriter::finish, and publish, which recovery ends with too.         *)

\* The last flush; if it fails the .part is left for recovery, and a recording
\* of nothing is removed.
Finish(p) ==
  LET f == proc[p].open IN
  /\ At(p, "live")
  /\ \/ /\ FlushFails(p)
        /\ Closes(p, "idle")
     \/ /\ log[p] = 0
        /\ Closes(p, "nothing")
        /\ UNCHANGED <<file, promised>>
     \/ /\ log[p] > 0
        /\ FlushOk(p)
        /\ Goes(p, "trail")
        /\ UNCHANGED lock
  /\ log' = [log EXCEPT ![p] = 0]
  /\ UNCHANGED <<directory, synced, cuts, time>>

RemoveEmpty(p) == At(p, "nothing") /\ RemovesPart(p)

\* The hash trail after the bundles, the count in its place, a sync.  When one
\* of them fails, the .part is left to the next recovery.
Fails(p) ==
  /\ Closes(p, "idle")
  /\ UNCHANGED <<directory, synced, log, promised, cuts, time>>

WriteTrail(p) ==
  LET f == proc[p].open IN
  /\ At(p, "trail")
  /\ \/ /\ file' = [file EXCEPT ![f].trail = "whole"]
        /\ Goes(p, "count")
        /\ UNCHANGED <<directory, synced, lock, log, promised, cuts, time>>
     \/ /\ file' = [file EXCEPT ![f].trail = "torn"]
        /\ Fails(p)

WriteCount(p) ==
  LET f == proc[p].open IN
  /\ At(p, "count")
  /\ \/ /\ file' = [file EXCEPT ![f].count = file[f].bundles]
        /\ Goes(p, "sync")
        /\ UNCHANGED <<directory, synced, lock, log, promised, cuts, time>>
     \/ Fails(p) /\ UNCHANGED file

Sync(p) ==
  /\ At(p, "sync")
  /\ \/ /\ synced' = Synced(proc[p].open)
        /\ Goes(p, "name")
        /\ UNCHANGED <<directory, file, lock, log, promised, cuts, time>>
     \/ Fails(p) /\ UNCHANGED file

\* finalNameFor: the first name that nobody holds.
ChooseName(p) ==
  LET free == {a \in Alternatives : final[<<proc[p].base, a>>] = NoFile} IN
  /\ At(p, "name")
  /\ IF free = {} THEN Closes(p, "idle")
     ELSE /\ proc' = [proc EXCEPT ![p].at = "rename",
                                  ![p].alternative = CHOOSE a \in free : \A b \in free : a =< b]
          /\ UNCHANGED lock
  /\ UNCHANGED <<directory, file, synced, log, promised, cuts, time>>

\* The rename goes by name, and still under the lock.
Rename(p) ==
  LET b == proc[p].base IN
  /\ At(p, "rename")
  /\ IF part[b] = NoFile
     THEN /\ Closes(p, "idle")
          /\ UNCHANGED directory
     ELSE /\ final' = [final EXCEPT ![<<b, proc[p].alternative>>] = part[b]]
          /\ part' = [part EXCEPT ![b] = NoFile]
          /\ Goes(p, "dirsync")
          /\ UNCHANGED <<sidecar, lock>>
  /\ UNCHANGED <<file, synced, log, promised, cuts, time>>

SyncDirectory(p) ==
  /\ At(p, "dirsync")
  /\ synced' = [synced EXCEPT !.part = part, !.final = final, !.sidecar = sidecar]
  /\ Closes(p, "unchk")
  /\ UNCHANGED <<directory, file, log, promised, cuts, time>>

RemoveSidecar(p) ==
  /\ At(p, "unchk")
  /\ sidecar' = [sidecar EXCEPT ![proc[p].base] = NoFile]
  /\ proc' = [proc EXCEPT ![p] = Idle]
  /\ UNCHANGED <<part, final, file, synced, lock, log, promised, cuts, time>>

-----------------------------------------------------------------------------
(* recoverReplayParts: one recording left behind, or a sidecar without one.  *)

\* A file that its recorder has created and not locked yet.
JustCreated(f) == \E p \in Recorders : At(p, "lock") /\ proc[p].open = f

\* openLocked: open, ...
OpenPart(p) ==
  /\ At(p, "idle") /\ p \in Recoverers
  /\ \E b \in Bases :
       /\ part[b] # NoFile
       /\ MeetsCreation \/ ~JustCreated(part[b])
       /\ proc' = [proc EXCEPT ![p] = [Idle EXCEPT !.at = "win", !.base = b, !.open = part[b]]]
  /\ UNCHANGED <<directory, file, synced, lock, log, promised, cuts, time>>

WinUnlocked(p) ==
  LET f == proc[p].open IN
  /\ At(p, "win")
  /\ IF part[proc[p].base] = f THEN Goes(p, "read") ELSE proc' = [proc EXCEPT ![p] = Idle]
  /\ UNCHANGED <<directory, file, synced, lock, log, promised, cuts, time>>

\* ... lock, and look whether the file locked is still the one at the name.
WinLock(p) ==
  LET f == proc[p].open IN
  /\ At(p, "win")
  /\ IF lock[f] = Nobody /\ part[proc[p].base] = f
     THEN /\ lock' = [lock EXCEPT ![f] = p]
          /\ Goes(p, "read")
     ELSE /\ proc' = [proc EXCEPT ![p] = Idle]
          /\ UNCHANGED lock
  /\ UNCHANGED <<directory, file, synced, log, promised, cuts, time>>

WorthlessIfTorn(f) == ~file[f].header \/ file[f].bundles = 0 \/ file[f].torn

Worthless(f) == ~file[f].header \/ file[f].bundles = 0

\* Finished but never renamed: the count is real and the trail ends the file.
Complete(f) ==
  /\ file[f].count = file[f].bundles
  /\ file[f].trail = "whole" /\ ~file[f].torn

ReadPart(p) ==
  LET f == proc[p].open IN
  /\ At(p, "read")
  /\ IF Worthless(f) THEN Closes(p, "discard")
     ELSE /\ Goes(p, IF Complete(f) THEN "sync" ELSE "truncate")
          /\ UNCHANGED lock
  /\ UNCHANGED <<directory, file, synced, log, promised, cuts, time>>

Discard(p) == At(p, "discard") /\ RemovesPart(p)

\* What follows the last complete bundle is cut off.
Truncate(p) ==
  LET f == proc[p].open IN
  /\ At(p, "truncate")
  /\ \/ /\ file' = [file EXCEPT ![f].torn = FALSE, ![f].trail = "none"]
        /\ Goes(p, "trail")
        /\ UNCHANGED <<directory, synced, lock, log, promised, cuts, time>>
     \/ Fails(p) /\ UNCHANGED file

\* A sidecar whose .part is not there belongs to nobody.
SeeOrphan(p) ==
  /\ At(p, "idle") /\ p \in Recoverers
  /\ \E b \in Bases :
       /\ sidecar[b] # NoFile /\ part[b] = NoFile
       /\ proc' = [proc EXCEPT ![p] = [Idle EXCEPT !.at = "unchk", !.base = b]]
  /\ UNCHANGED <<directory, file, synced, lock, log, promised, cuts, time>>

-----------------------------------------------------------------------------
(* The end of a process, and of all of them.                                *)

Kill(p) ==
  /\ ~At(p, "idle")
  /\ Closes(p, "idle")
  /\ log' = [q \in Recorders |-> IF q = p THEN 0 ELSE log[q]]
  /\ UNCHANGED <<directory, file, synced, promised, cuts, time>>

\* What a power cut can leave of a file whose last sync left old: what was
\* appended since may be cut off anywhere, the count is in or not.
Prefixes(old, new) ==
  IF old.bundles = new.bundles /\ old.trail = new.trail THEN {new.trail}
  ELSE {"none", new.trail} \cup (IF new.trail = "whole" THEN {"torn"} ELSE {})
Leaves(old, new) ==
  {old, new} \cup
  {c \in [header : {new.header}, bundles : old.bundles .. new.bundles,
          torn : BOOLEAN, count : {old.count, new.count}, trail : Prefixes(old, new)] :
     /\ c.torn \/ c.bundles < new.bundles => c.trail = "none"
     /\ c.torn /\ c.bundles = new.bundles => new.torn}

\* A name of the directory leads to the file.
Named(f) == (\E b \in Bases : part[b] = f) \/ (\E n \in DOMAIN final : final[n] = f)

\* The directory is the one of now or of the last sync; a file that no name in
\* it leads to is gone.
PowerCut ==
  /\ cuts < MaxCuts /\ Cardinality(Used) =< MaxAtCut
  /\ cuts' = cuts + 1
  /\ \/ UNCHANGED directory
     \/ part' = synced.part /\ final' = synced.final /\ sidecar' = synced.sidecar
  /\ file' \in {left \in [Files -> {Empty} \cup UNION {Leaves(synced.file[f], file[f]) : f \in Files}] :
                  \A f \in Files : left[f] \in IF Named(f)' THEN Leaves(synced.file[f], file[f]) ELSE {Empty}}
  /\ synced' = [file |-> file', part |-> part', final |-> final', sidecar |-> sidecar']
  /\ promised' = [f \in Files |-> synced.file[f].bundles]
  /\ proc' = [p \in Processes |-> Idle]
  /\ lock' = [f \in Files |-> Nobody]
  /\ log' = [p \in Recorders |-> 0]
  /\ UNCHANGED time

Step(p) ==
  \/ OpenRecording(p) \/ Look(p) \/ Create(p) \/ Lock(p) \/ WriteHeader(p) \/ Undo(p)
  \/ AppendBundle(p) \/ Flush(p) \/ SyncAsync(p) \/ Finish(p) \/ RemoveEmpty(p)
  \/ WriteTrail(p) \/ WriteCount(p) \/ Sync(p)
  \/ ChooseName(p) \/ Rename(p) \/ SyncDirectory(p) \/ RemoveSidecar(p)
  \/ OpenPart(p) \/ WinLock(p) \/ ReadPart(p) \/ Discard(p) \/ Truncate(p)
  \/ SeeOrphan(p)

RecNext == (\E p \in Processes : Step(p) \/ Kill(p)) \/ PowerCut \/ SecondPasses

RecSpec == RecInit /\ [][RecNext]_recVars

-----------------------------------------------------------------------------
(* Properties.                                                              *)

\* What was flushed survives the end of the process, and what was synced a
\* power cut: the file is there under one of its names with every bundle of
\* it, whatever recovery passes do meanwhile (replaywriter.h:61-68).
NothingFlushedIsLost ==
  \A f \in Files : promised[f] > 0 =>
    Named(f) /\ file[f].header /\ file[f].bundles >= promised[f]

\* A file offered as a replay is a whole one: what its count field says, with
\* the hash trail behind it (ReplayWriter::finish, recoverOne).
ReplaysAreWhole ==
  \A n \in DOMAIN final : final[n] # NoFile =>
    ~Worthless(final[n]) /\ Complete(final[n])

\* While a game is recorded, its .part is its own file, under its own lock,
\* and its sidecar is its own (replaywriter.h:21-24).
RecordingIsLeftAlone ==
  \A p \in Recorders : At(p, "live") =>
    /\ part[proc[p].base] = proc[p].open
    /\ lock[proc[p].open] = p
    /\ sidecar[proc[p].base] = proc[p].open

===============================================================================
