----------------------------- MODULE AtomicFile -----------------------------
(***************************************************************************)
(* One state file and the writers that replace it                          *)
(* (dnsmaqmgr/core/config.py, write_json_atomic and write_text_atomic):    *)
(* a temporary file beside it is truncated, written, synced, renamed over  *)
(* it and, if still there, removed.  The temporary file's name holds the   *)
(* process id and nothing else, so the threads of one process share it.    *)
(*                                                                         *)
(* A descriptor follows the file it was opened on through a rename, so a   *)
(* writer may find itself writing to the published file.  Modes are left   *)
(* out, and so is the loss of a rename that was not synced to the disk: a  *)
(* crash here is the death of a process.                                   *)
(***************************************************************************)
CONSTANTS
  Writers, Pids, ProcessOf,   \* the threads that save, and their processes
  Values,                     \* what a save writes, whole
  NoFile, Empty, Torn,        \* no file; one just truncated; pieces of saves
  NoValue                     \* a writer that writes nothing

ASSUME WriterAssumption ==
  /\ ProcessOf \in [Writers -> Pids]
  /\ NoFile \notin Values \cup {Empty, Torn}
  /\ {Empty, Torn, NoValue} \cap Values = {}

VARIABLES
  published,   \* what a reader of the file finds
  temp,        \* per process: the temporary file
  step,        \* per writer: how far its save has got
  wants,       \* per writer: the content it is to write
  opened,      \* per writer: where the file it has open is now
  crowded,     \* history: saves in progress that met another of their process
  shared       \* history: the save that published last was one of them

fileVars == <<published, temp, step, wants, opened, crowded, shared>>

Content == Values \cup {Empty, Torn}

FileInit ==
  /\ published = NoFile
  /\ temp = [p \in Pids |-> NoFile]
  /\ step = [w \in Writers |-> "idle"]
  /\ wants = [w \in Writers |-> NoValue]
  /\ opened = [w \in Writers |-> "nowhere"]
  /\ crowded = {} /\ shared = FALSE

Busy(w) == step[w] # "idle"
Temp(w) == temp[ProcessOf[w]]
SetTemp(w, c) == temp' = [temp EXCEPT ![ProcessOf[w]] = c]
Step(w, s) == step' = [step EXCEPT ![w] = s]

\* The other saves that are under way in w's process.
Mates(w) == {x \in Writers \ {w} : ProcessOf[x] = ProcessOf[w] /\ Busy(x)}

Begun(w, v, where) ==
  /\ ~Busy(w) /\ Step(w, "opened")
  /\ wants' = [wants EXCEPT ![w] = v]
  /\ opened' = [opened EXCEPT ![w] = where]
  /\ crowded' = IF Mates(w) = {} THEN crowded ELSE crowded \cup {w} \cup Mates(w)
  /\ UNCHANGED shared

\* A mutant: the file is written where it is, without a temporary one.
OpenInPlace(w, v) ==
  Begun(w, v, "published") /\ published' = Empty /\ UNCHANGED temp

\* os.open with O_CREAT and O_TRUNC: a file another thread opened is emptied.
\* Nothing keeps the threads of a process from saving one file at once.
Open(w, v) ==
  Begun(w, v, "temp") /\ SetTemp(w, Empty) /\ UNCHANGED published

\* Each writer writes from the start of the file: over a longer text of
\* another's, the end of that text stays.
Over(old, v) == IF old \in {Empty, v} THEN {v} ELSE {v, Torn}

\* The write, the sync and the close.  The write may fail half way.
Write(w) ==
  /\ step[w] = "opened"
  /\ \E ok \in BOOLEAN :
       /\ Step(w, IF ok THEN "written" ELSE "failed")
       /\ CASE opened[w] = "temp" ->
                 /\ \E c \in (IF ok THEN Over(Temp(w), wants[w]) ELSE {Torn}) : SetTemp(w, c)
                 /\ UNCHANGED published
            [] opened[w] = "published" ->
                 /\ published' \in (IF ok THEN Over(published, wants[w]) ELSE {Torn})
                 /\ UNCHANGED temp
            [] OTHER -> UNCHANGED <<published, temp>>
  /\ opened' = [opened EXCEPT ![w] = "nowhere"]
  /\ UNCHANGED <<wants, crowded, shared>>

\* What has the temporary file's name gets the file's; the file that had that is
\* no longer anywhere.
Replace(w) ==
  /\ Step(w, "renamed")
  /\ published' = Temp(w) /\ SetTemp(w, NoFile)
  /\ opened' = [x \in Writers |->
                  IF opened[x] = "temp" /\ ProcessOf[x] = ProcessOf[w] THEN "published"
                  ELSE IF opened[x] = "published" THEN "nowhere" ELSE opened[x]]
  /\ shared' = (w \in crowded)
  /\ UNCHANGED <<wants, crowded>>

\* A mutant: the temporary file is renamed after a failed write too.
RenameAnyway(w) == step[w] \in {"written", "failed"} /\ Temp(w) # NoFile /\ Replace(w)

\* os.chmod and os.replace: the name is gone if another thread was quicker.
Rename(w) ==
  /\ step[w] = "written"
  /\ IF Temp(w) # NoFile THEN Replace(w)
     ELSE Step(w, "failed") /\ UNCHANGED <<published, temp, wants, opened, crowded, shared>>

\* The finally clause: whatever has the temporary file's name goes.
Finish(w) ==
  /\ step[w] \in {"renamed", "failed"}
  /\ Step(w, "idle")
  /\ SetTemp(w, NoFile)
  /\ wants' = [wants EXCEPT ![w] = NoValue]
  /\ opened' = [x \in Writers |->
                  IF opened[x] = "temp" /\ ProcessOf[x] = ProcessOf[w]
                  THEN "nowhere" ELSE opened[x]]
  /\ crowded' = crowded \ {w}
  /\ UNCHANGED <<published, shared>>

\* The process dies; its temporary file stays, and nobody reads what is in it
\* before the next save empties it.
Die(p) ==
  /\ temp' = [temp EXCEPT ![p] = IF @ = NoFile THEN NoFile ELSE Torn]
  /\ step' = [w \in Writers |-> IF ProcessOf[w] = p THEN "idle" ELSE step[w]]
  /\ wants' = [w \in Writers |-> IF ProcessOf[w] = p THEN NoValue ELSE wants[w]]
  /\ opened' = [w \in Writers |-> IF ProcessOf[w] = p THEN "nowhere" ELSE opened[w]]
  /\ crowded' = {w \in crowded : ProcessOf[w] # p}
  /\ UNCHANGED <<published, shared>>

FileNext ==
  \/ \E w \in Writers : Write(w) \/ Rename(w) \/ Finish(w) \/ \E v \in Values : Open(w, v)
  \/ \E p \in Pids : Die(p)

FileSpec == FileInit /\ [][FileNext]_fileVars

-----------------------------------------------------------------------------
(* Properties                                                              *)

FileTypeOK ==
  /\ published \in Content \cup {NoFile}
  /\ temp \in [Pids -> Content \cup {NoFile}]
  /\ step \in [Writers -> {"idle", "opened", "written", "renamed", "failed"}]
  /\ wants \in [Writers -> Values \cup {NoValue}]
  /\ opened \in [Writers -> {"nowhere", "temp", "published"}]
  /\ crowded \subseteq Writers /\ shared \in BOOLEAN
  /\ \A w \in Writers : (w \in crowded => Busy(w)) /\ (Busy(w) <=> wants[w] # NoValue)

\* Whoever reads the file, at any moment and after any death of a process, finds
\* one whole content somebody saved, never a truncated or a mixed one, unless the
\* save that published it met another of its process, which uses the same
\* temporary file.  The next save that meets none makes it whole again.
WholeFile == shared \/ published \in Values \cup {NoFile}

\* The file changes only in the rename of a save that succeeds, and to what that
\* save was to write: a save that raises has changed nothing.  The exception is the
\* same: saves of one process that meet change each other's file.
SavedOrUntouched ==
  [][published' # published /\ ~shared' =>
       \E w \in Writers : step'[w] = "renamed" /\ published' = wants[w]]_fileVars

\* write_json_atomic: "A crash or full disk mid-write leaves the *original* file
\* intact rather than a truncated one - critical for auth.json".
AlwaysWhole == published \in Values \cup {NoFile}
=============================================================================
