--------------------------- MODULE AccountsProofs ---------------------------
(***************************************************************************)
(* Proofs about AtomicFile and Accounts, for any users, tokens, backups    *)
(* and number of web threads.  The file comes first, for any writers,      *)
(* processes and contents, and whatever saves meet; then the typing of     *)
(* Accounts and its use of AtomicFile; then that an administrator remains, *)
(* and that a revoked token stays revoked.                                 *)
(***************************************************************************)
EXTENDS Accounts, TLAPS

-----------------------------------------------------------------------------
(* Typing                                                                  *)

LEMMA FileTyped == FileTypeOK /\ [FileNext]_fileVars => FileTypeOK'
<1> SUFFICES ASSUME FileTypeOK, [FileNext]_fileVars PROVE FileTypeOK'
  OBVIOUS
<1> USE WriterAssumption DEF FileTypeOK, Content, SetTemp, Step, Busy
<1>1. ASSUME NEW w \in Writers, Write(w) PROVE FileTypeOK'
  <2>1. wants[w] \in Values
    BY <1>1 DEF Write
  <2>2. \A c : Over(c, wants[w]) \subseteq Content
    BY <2>1 DEF Over
  <2>3. PICK ok \in BOOLEAN :
          /\ step' = [step EXCEPT ![w] = IF ok THEN "written" ELSE "failed"]
          /\ CASE opened[w] = "temp" ->
                    /\ \E c \in (IF ok THEN Over(Temp(w), wants[w]) ELSE {Torn}) :
                         temp' = [temp EXCEPT ![ProcessOf[w]] = c]
                    /\ UNCHANGED published
               [] opened[w] = "published" ->
                    /\ published' \in (IF ok THEN Over(published, wants[w]) ELSE {Torn})
                    /\ UNCHANGED temp
               [] OTHER -> UNCHANGED <<published, temp>>
    BY <1>1 DEF Write
  <2>4. published' \in Content \cup {NoFile} /\ temp' \in [Pids -> Content \cup {NoFile}]
    <3>1. CASE opened[w] = "temp"
      <4>1. PICK c \in Content : temp' = [temp EXCEPT ![ProcessOf[w]] = c]
        BY <2>2, <2>3, <3>1
      <4> QED
        BY <2>3, <3>1, <4>1
    <3>2. CASE opened[w] = "published"
      <4>1. published' \in Content /\ UNCHANGED temp
        BY <2>2, <2>3, <3>2
      <4> QED
        BY <4>1
    <3>3. CASE opened[w] = "nowhere"
      BY <2>3, <3>3
    <3> QED
      BY <3>1, <3>2, <3>3
  <2> QED
    BY <1>1, <2>3, <2>4 DEF Write
<1>2. ASSUME NEW w \in Writers, NEW v \in Values, Open(w, v) PROVE FileTypeOK'
  <2>1. crowded' \subseteq Writers /\ \A x \in crowded' : x = w \/ x \in crowded \/ x \in Mates(w)
    BY <1>2 DEF Open, Begun, Mates
  <2>2. \A x \in Writers : x \in crowded' => Busy(x)'
    BY <1>2, <2>1 DEF Open, Begun, Mates
  <2> QED
    BY <1>2, <2>1, <2>2 DEF Open, Begun
<1>3. ASSUME NEW w \in Writers, Rename(w) PROVE FileTypeOK'
  <2>1. CASE Temp(w) # NoFile
    <3>1. /\ published' \in Content /\ temp' \in [Pids -> Content \cup {NoFile}]
          /\ wants' = wants /\ step' = [step EXCEPT ![w] = "renamed"] /\ step[w] = "written"
          /\ crowded' = crowded /\ shared' \in BOOLEAN
      BY <1>3, <2>1 DEF Rename, Replace, Temp
    <3>2. opened' \in [Writers -> {"nowhere", "temp", "published"}]
      BY <1>3, <2>1 DEF Rename, Replace
    <3> QED
      BY <3>1, <3>2
  <2>2. CASE Temp(w) = NoFile
    BY <1>3, <2>2 DEF Rename
  <2> QED
    BY <2>1, <2>2
<1>4. ASSUME NEW w \in Writers, Finish(w) PROVE FileTypeOK'
  BY <1>4 DEF Finish
<1>5. ASSUME NEW p \in Pids, Die(p) PROVE FileTypeOK'
  BY <1>5 DEF Die
<1>6. CASE UNCHANGED fileVars
  BY <1>6 DEF fileVars
<1> QED
  BY <1>1, <1>2, <1>3, <1>4, <1>5, <1>6 DEF FileNext

-----------------------------------------------------------------------------
(* Saves that meet, and saves that do not                                  *)

\* A save in progress that has met none of its process.
Alone(w) == Busy(w) /\ w \notin crowded

\* It still has the process to itself.
OneByOne ==
  \A w, x \in Writers : Alone(w) /\ Busy(x) /\ ProcessOf[x] = ProcessOf[w] => x = w

\* Nobody else touches its temporary file, so that file holds what it has written.
InOrder == \A w \in Writers :
  /\ step[w] # "opened" => opened[w] = "nowhere"
  /\ Alone(w) /\ step[w] = "opened" => opened[w] = "temp" /\ Temp(w) = Empty
  /\ Alone(w) /\ step[w] = "written" => Temp(w) = wants[w]

\* A writer has the published file open only after saves that met.
Apart == shared \/ \A w \in Writers : opened[w] # "published"

\* A whole temporary file is what some save in progress is to write.
Sourced == \A p \in Pids :
  temp[p] \in Values => \E w \in Writers : Busy(w) /\ ProcessOf[w] = p /\ wants[w] = temp[p]

FileInv == FileTypeOK /\ WholeFile /\ OneByOne /\ InOrder /\ Apart /\ Sourced

\* What a step may do to the file: a save that met none renames its own content
\* over it; whatever meets leaves it broken, or whole as one of the saves wants it.
Changed ==
  /\ published' # published /\ ~shared' =>
       \E w \in Writers : step'[w] = "renamed" /\ published' = wants[w]
  /\ published' # published =>
       \/ published' \in {Empty, Torn}
       \/ \E w \in Writers : Busy(w) /\ published' = wants[w]

LEMMA FileInitInv == FileInit => FileInv
BY WriterAssumption DEF FileInit, FileInv, FileTypeOK, WholeFile, OneByOne, InOrder, Apart,
                        Sourced, Alone, Busy

LEMMA OpenStep ==
  ASSUME FileInv, NEW w \in Writers, NEW v \in Values, Open(w, v)
  PROVE  FileInv' /\ published' = published
<1>0. FileTypeOK'
  BY FileTyped DEF FileNext, FileInv
<1> USE DEF Open, Begun, SetTemp, Step, FileInv
<1>1. /\ step' = [step EXCEPT ![w] = "opened"] /\ opened' = [opened EXCEPT ![w] = "temp"]
      /\ wants' = [wants EXCEPT ![w] = v] /\ ~Busy(w)
      /\ temp' = [temp EXCEPT ![ProcessOf[w]] = Empty] /\ ProcessOf[w] \in Pids
      /\ published' = published /\ shared' = shared
  BY WriterAssumption
<1>2. ASSUME NEW x \in Writers, x # w, Busy(x), ProcessOf[x] = ProcessOf[w]
      PROVE  ~Alone(x)' /\ ~Alone(w)'
  <2>1. x \in Mates(w)
    BY <1>2 DEF Mates
  <2> QED
    BY <2>1 DEF Alone
<1>3. \A x \in Writers \ {w} : Busy(x)' = Busy(x) /\ (Alone(x)' => Alone(x))
  BY <1>1 DEF Alone, Busy, FileTypeOK
<1>4. WholeFile' /\ Apart'
  BY <1>1 DEF FileTypeOK, WholeFile, Apart
<1>5. OneByOne'
  BY <1>2, <1>3 DEF OneByOne, Alone
<1>6. InOrder'
  <2> SUFFICES ASSUME NEW x \in Writers
               PROVE  /\ step'[x] # "opened" => opened'[x] = "nowhere"
                      /\ Alone(x)' /\ step'[x] = "opened" => opened'[x] = "temp" /\ Temp(x)' = Empty
                      /\ Alone(x)' /\ step'[x] = "written" => Temp(x)' = wants'[x]
    BY DEF InOrder
  <2>1. CASE x = w
    BY <1>1, <2>1, WriterAssumption DEF FileTypeOK, Temp
  <2>2. CASE x # w
    <3>1. step'[x] = step[x] /\ opened'[x] = opened[x] /\ wants'[x] = wants[x]
      BY <1>1, <2>2 DEF FileTypeOK
    <3>2. Alone(x)' => Alone(x) /\ ProcessOf[x] # ProcessOf[w]
      BY <1>2, <1>3, <2>2 DEF Alone
    <3>3. ProcessOf[x] # ProcessOf[w] => Temp(x)' = Temp(x)
      BY <1>1, WriterAssumption DEF Temp, FileTypeOK
    <3> QED
      BY <3>1, <3>2, <3>3 DEF InOrder
  <2> QED
    BY <2>1, <2>2
<1>7. Sourced'
  BY <1>1, <1>3, WriterAssumption DEF Sourced, Busy, FileTypeOK
<1> QED
  BY <1>0, <1>1, <1>4, <1>5, <1>6, <1>7

LEMMA WriteStep ==
  ASSUME FileInv, NEW w \in Writers, Write(w)
  PROVE  FileInv' /\ Changed
<1>0. FileTypeOK'
  BY FileTyped DEF FileNext, FileInv
<1> USE DEF FileInv
<1>1. /\ step[w] = "opened" /\ opened' = [opened EXCEPT ![w] = "nowhere"]
      /\ step'[w] \in {"written", "failed"} /\ opened[w] \in {"nowhere", "temp", "published"}
      /\ \A x \in Writers \ {w} : step'[x] = step[x]
      /\ UNCHANGED <<wants, crowded, shared>> /\ wants[w] \in Values
  BY DEF Write, Step, FileTypeOK, Busy
<1>2. \A x \in Writers : Busy(x)' = Busy(x) /\ Alone(x)' = Alone(x)
  BY <1>1 DEF Busy, Alone
<1>3. \/ /\ opened[w] = "temp" /\ published' = published
         /\ \E c \in Over(Temp(w), wants[w]) \cup {Torn} :
              /\ temp' = [temp EXCEPT ![ProcessOf[w]] = c]
              /\ step'[w] = "written" => c \in Over(Temp(w), wants[w])
      \/ /\ opened[w] = "published" /\ temp' = temp
         /\ published' \in Over(published, wants[w]) \cup {Torn}
      \/ opened[w] = "nowhere" /\ temp' = temp /\ published' = published
  BY <1>1 DEF Write, Step, SetTemp, FileTypeOK
<1>4. /\ \A p \in Pids : p # ProcessOf[w] => temp'[p] = temp[p]
      /\ opened[w] = "temp" /\ step'[w] = "written" =>
           temp'[ProcessOf[w]] \in Over(Temp(w), wants[w])
  BY <1>1, <1>3, WriterAssumption DEF FileTypeOK
<1>5. WholeFile' /\ Apart'
  BY <1>1, <1>3 DEF FileTypeOK, WholeFile, Apart
<1>6. OneByOne'
  BY <1>2 DEF OneByOne
<1>7. InOrder'
  <2> SUFFICES ASSUME NEW x \in Writers
               PROVE  /\ step'[x] # "opened" => opened'[x] = "nowhere"
                      /\ Alone(x)' /\ step'[x] = "opened" => opened'[x] = "temp" /\ Temp(x)' = Empty
                      /\ Alone(x)' /\ step'[x] = "written" => Temp(x)' = wants'[x]
    BY DEF InOrder
  <2>1. CASE x = w
    <3>1. Alone(w) => opened[w] = "temp" /\ Temp(w) = Empty
      BY <1>1 DEF InOrder
    <3>2. Alone(w) /\ step'[w] = "written" => Temp(w)' = wants[w]
      BY <1>4, <3>1 DEF Over, Temp
    <3> QED
      BY <1>1, <1>2, <2>1, <3>2 DEF FileTypeOK
  <2>2. CASE x # w
    <3>1. step'[x] = step[x] /\ opened'[x] = opened[x] /\ wants'[x] = wants[x]
      BY <1>1, <2>2 DEF FileTypeOK
    <3>2. Alone(x) => ProcessOf[x] # ProcessOf[w]
      BY <1>1, <2>2 DEF OneByOne, Busy
    <3>3. ProcessOf[x] # ProcessOf[w] => Temp(x)' = Temp(x)
      BY <1>4, WriterAssumption DEF Temp
    <3> QED
      BY <1>2, <3>1, <3>2, <3>3 DEF InOrder
  <2> QED
    BY <2>1, <2>2
<1>8. Sourced'
  <2> SUFFICES ASSUME NEW p \in Pids, temp'[p] \in Values
               PROVE  \E x \in Writers : Busy(x)' /\ ProcessOf[x] = p /\ wants'[x] = temp'[p]
    BY DEF Sourced
  <2>1. CASE temp'[p] = temp[p]
    BY <1>1, <1>2, <2>1 DEF Sourced
  <2>2. CASE temp'[p] # temp[p]
    <3>1. p = ProcessOf[w] /\ temp'[p] \in Over(Temp(w), wants[w]) \cup {Torn}
      BY <1>3, <2>2, WriterAssumption DEF FileTypeOK
    <3>2. temp'[p] = wants[w]
      BY <3>1, WriterAssumption DEF Over
    <3> QED
      BY <1>1, <1>2, <3>1, <3>2 DEF Busy
  <2> QED
    BY <2>1, <2>2
<1>9. Changed
  <2>1. CASE published' = published
    BY <2>1 DEF Changed
  <2>2. CASE published' # published
    <3>1. shared' /\ published' \in {wants[w], Torn}
      BY <1>1, <1>3, <2>2 DEF Apart, Over
    <3> QED
      BY <1>1, <3>1 DEF Changed, Busy
  <2> QED
    BY <2>1, <2>2
<1> QED
  BY <1>0, <1>5, <1>6, <1>7, <1>8, <1>9

\* A successful rename publishes a whole content only as some save wants it.
LEMMA RenameStep ==
  ASSUME FileInv, NEW w \in Writers, Rename(w)
  PROVE  /\ FileInv' /\ Changed
         /\ IF step'[w] = "renamed"
            THEN \/ published' \in {Empty, Torn}
                 \/ \E x \in Writers : Busy(x) /\ published' = wants[x]
            ELSE published' = published
<1>0. FileTypeOK'
  BY FileTyped DEF FileNext, FileInv
<1> USE DEF Rename, SetTemp, Step, FileInv
<1>1. /\ step[w] = "written" /\ UNCHANGED <<wants, crowded>>
      /\ step'[w] \in {"renamed", "failed"} /\ \A x \in Writers \ {w} : step'[x] = step[x]
  BY DEF FileTypeOK, Replace
<1>2. \A x \in Writers : Busy(x)' = Busy(x) /\ Alone(x)' = Alone(x)
  BY <1>1 DEF Busy, Alone
<1>3. OneByOne'
  BY <1>2 DEF OneByOne
<1>4. CASE Temp(w) = NoFile
  <2>1. UNCHANGED <<published, temp, wants, opened, crowded, shared>> /\ step'[w] = "failed"
    BY <1>4 DEF FileTypeOK
  <2>2. InOrder'
    BY <1>1, <1>2, <2>1 DEF InOrder, Temp
  <2>3. Sourced'
    BY <1>2, <2>1 DEF Sourced
  <2>4. WholeFile' /\ Apart' /\ Changed
    BY <2>1 DEF WholeFile, Apart, Changed
  <2> QED
    BY <1>0, <1>3, <2>1, <2>2, <2>3, <2>4
<1>5. CASE Temp(w) # NoFile
  <2> USE DEF Replace
  <2>1. /\ published' = Temp(w) /\ temp' = [temp EXCEPT ![ProcessOf[w]] = NoFile]
        /\ shared' = (w \in crowded) /\ step'[w] = "renamed"
        /\ opened' = [x \in Writers |->
                  IF opened[x] = "temp" /\ ProcessOf[x] = ProcessOf[w] THEN "published"
                  ELSE IF opened[x] = "published" THEN "nowhere" ELSE opened[x]]
    BY <1>5 DEF FileTypeOK
  <2>2. published' \in {Empty, Torn} \/ \E x \in Writers : Busy(x) /\ published' = wants[x]
    <3>1. ProcessOf[w] \in Pids /\ temp[ProcessOf[w]] \in Content
      BY <1>5, WriterAssumption DEF Temp, FileTypeOK
    <3> QED
      BY <2>1, <3>1 DEF Sourced, Temp, Content
  <2>3. Alone(w) => /\ Temp(w) = wants[w] /\ wants[w] \in Values
                    /\ \A x \in Writers : ~(opened[x] = "temp" /\ ProcessOf[x] = ProcessOf[w])
    BY <1>1 DEF InOrder, OneByOne, Busy, FileTypeOK
  <2>4. ~shared' => Alone(w)
    BY <1>1, <2>1 DEF Alone, Busy
  <2>5. WholeFile' /\ Apart' /\ Changed
    BY <1>1, <2>1, <2>2, <2>3, <2>4 DEF WholeFile, Apart, Changed
  <2>6. InOrder'
    <3> SUFFICES ASSUME NEW x \in Writers
                 PROVE  /\ step'[x] # "opened" => opened'[x] = "nowhere"
                        /\ Alone(x)' /\ step'[x] = "opened" => opened'[x] = "temp" /\ Temp(x)' = Empty
                        /\ Alone(x)' /\ step'[x] = "written" => Temp(x)' = wants'[x]
      BY DEF InOrder
    <3>1. CASE x = w
      BY <1>1, <2>1, <3>1 DEF InOrder
    <3>2. CASE x # w
      <4>1. step'[x] = step[x] /\ (opened[x] = "nowhere" => opened'[x] = "nowhere")
        BY <1>1, <2>1, <3>2
      <4>2. Alone(x) => ProcessOf[x] # ProcessOf[w]
        BY <1>1, <3>2 DEF OneByOne, Busy
      <4>3. ProcessOf[x] # ProcessOf[w] =>
              Temp(x)' = Temp(x) /\ (opened[x] = "temp" => opened'[x] = "temp")
        BY <2>1, WriterAssumption DEF Temp, FileTypeOK
      <4> QED
        BY <1>1, <1>2, <4>1, <4>2, <4>3 DEF InOrder
    <3> QED
      BY <3>1, <3>2
  <2>7. Sourced'
    BY <1>1, <1>2, <2>1, WriterAssumption DEF Sourced, FileTypeOK
  <2> QED
    BY <1>0, <1>3, <2>1, <2>2, <2>5, <2>6, <2>7
<1> QED
  BY <1>4, <1>5

LEMMA FinishStep ==
  ASSUME FileInv, NEW w \in Writers, Finish(w)
  PROVE  FileInv' /\ published' = published
<1>0. FileTypeOK'
  BY FileTyped DEF FileNext, FileInv
<1> USE DEF Finish, SetTemp, Step, FileInv
<1>1. /\ step[w] \in {"renamed", "failed"} /\ step'[w] = "idle"
      /\ \A x \in Writers \ {w} : step'[x] = step[x] /\ wants'[x] = wants[x]
      /\ temp' = [temp EXCEPT ![ProcessOf[w]] = NoFile]
      /\ UNCHANGED <<published, shared>> /\ crowded' = crowded \ {w}
  BY DEF FileTypeOK
<1>2. /\ ~Busy(w)' /\ ~Alone(w)'
      /\ \A x \in Writers \ {w} : Busy(x)' = Busy(x) /\ Alone(x)' = Alone(x)
  BY <1>1 DEF Busy, Alone
<1>3. WholeFile' /\ Apart'
  BY <1>1 DEF WholeFile, Apart
<1>4. OneByOne'
  BY <1>2 DEF OneByOne
<1>5. InOrder'
  <2> SUFFICES ASSUME NEW x \in Writers
               PROVE  /\ step'[x] # "opened" => opened'[x] = "nowhere"
                      /\ Alone(x)' /\ step'[x] = "opened" => opened'[x] = "temp" /\ Temp(x)' = Empty
                      /\ Alone(x)' /\ step'[x] = "written" => Temp(x)' = wants'[x]
    BY DEF InOrder
  <2>1. CASE x = w
    BY <1>1, <1>2, <2>1 DEF InOrder
  <2>2. CASE x # w
    <3>1. step'[x] = step[x] /\ (opened[x] = "nowhere" => opened'[x] = "nowhere")
      BY <1>1, <2>2
    <3>2. Alone(x) => ProcessOf[x] # ProcessOf[w]
      BY <1>1, <2>2 DEF OneByOne, Busy
    <3>3. ProcessOf[x] # ProcessOf[w] =>
            Temp(x)' = Temp(x) /\ (opened[x] = "temp" => opened'[x] = "temp")
      BY <1>1, WriterAssumption DEF Temp, FileTypeOK
    <3> QED
      BY <1>1, <1>2, <2>2, <3>1, <3>2, <3>3 DEF InOrder
  <2> QED
    BY <2>1, <2>2
<1>6. Sourced'
  <2> SUFFICES ASSUME NEW p \in Pids, temp'[p] \in Values
               PROVE  \E x \in Writers : Busy(x)' /\ ProcessOf[x] = p /\ wants'[x] = temp'[p]
    BY DEF Sourced
  <2>1. p # ProcessOf[w] /\ temp'[p] = temp[p]
    BY <1>1, WriterAssumption DEF FileTypeOK
  <2>2. PICK x \in Writers : Busy(x) /\ ProcessOf[x] = p /\ wants[x] = temp[p]
    BY <2>1 DEF Sourced
  <2> QED
    BY <1>1, <1>2, <2>1, <2>2
<1> QED
  BY <1>0, <1>1, <1>3, <1>4, <1>5, <1>6

LEMMA DieStep ==
  ASSUME FileInv, NEW p \in Pids, Die(p)
  PROVE  FileInv' /\ published' = published
<1>0. FileTypeOK'
  BY FileTyped DEF FileNext, FileInv
<1> USE DEF Die, FileInv
<1>1. /\ \A x \in Writers : IF ProcessOf[x] = p THEN ~Busy(x)' /\ ~Alone(x)'
                            ELSE Busy(x)' = Busy(x) /\ Alone(x)' = Alone(x)
      /\ UNCHANGED <<published, shared>>
  BY DEF Busy, Alone, FileTypeOK
<1>2. WholeFile' /\ Apart'
  BY <1>1 DEF WholeFile, Apart
<1>3. OneByOne'
  BY <1>1 DEF OneByOne
<1>4. InOrder'
  BY <1>1, WriterAssumption DEF InOrder, Busy, Temp, FileTypeOK
<1>5. Sourced'
  <2> SUFFICES ASSUME NEW q \in Pids, temp'[q] \in Values
               PROVE  \E x \in Writers : Busy(x)' /\ ProcessOf[x] = q /\ wants'[x] = temp'[q]
    BY DEF Sourced
  <2>1. q # p /\ temp'[q] = temp[q]
    BY WriterAssumption DEF FileTypeOK
  <2>2. PICK x \in Writers : Busy(x) /\ ProcessOf[x] = q /\ wants[x] = temp[q]
    BY <2>1 DEF Sourced
  <2> QED
    BY <1>1, <2>1, <2>2
<1> QED
  BY <1>0, <1>1, <1>2, <1>3, <1>4, <1>5

LEMMA FileStep ==
  ASSUME FileInv, [FileNext]_fileVars
  PROVE  FileInv' /\ Changed
<1>1. CASE UNCHANGED fileVars
  BY <1>1 DEF fileVars, FileInv, FileTypeOK, WholeFile, OneByOne, InOrder, Apart, Sourced,
              Alone, Busy, Temp, Changed
<1>2. published' = published => Changed
  BY DEF Changed
<1> QED
  BY <1>1, <1>2, OpenStep, WriteStep, RenameStep, FinishStep, DieStep DEF FileNext

-----------------------------------------------------------------------------
(* The theorems                                                            *)

\* write_json_atomic: every reader finds one whole content, through failed writes,
\* deaths and the saves of other processes, unless the save that published last
\* met another of its own process.
THEOREM Atomic == FileSpec => []WholeFile
<1>1. FileInv /\ [FileNext]_fileVars => FileInv'
  BY FileStep
<1>2. FileInv => WholeFile
  BY DEF FileInv
<1> QED
  BY <1>1, <1>2, FileInitInv, PTL DEF FileSpec

\* write_json_atomic: a save that raises has changed nothing, and one that succeeds
\* has saved what it was given, with the same exception.
THEOREM FailsCleanly == FileSpec => SavedOrUntouched
<1>1. FileInv /\ [FileNext]_fileVars => FileInv'
  BY FileStep
<1>2. FileInv /\ [FileNext]_fileVars =>
        [published' # published /\ ~shared' =>
           \E w \in Writers : step'[w] = "renamed" /\ published' = wants[w]]_fileVars
  BY FileStep DEF Changed
<1> QED
  BY <1>1, <1>2, FileInitInv, PTL DEF FileSpec, SavedOrUntouched

-----------------------------------------------------------------------------
(* The accounts, on such a file                                            *)

LEMMA InitTypeOK == Init => TypeOK
<1> SUFFICES ASSUME Init PROVE TypeOK
  OBVIOUS
<1>1. FileTypeOK
  BY FileInitInv DEF Init, FileInv
<1>2. saves \in 0..MaxSaves
  BY BoundAssumption DEF Init
<1>3. \A w \in Writers : Fits(w)
  BY DEF Init, FileInit, Fits, Busy, Saving
<1> QED
  BY <1>1, <1>2, <1>3 DEF Init, TypeOK, Phases

-----------------------------------------------------------------------------
(* Configurations                                                          *)

LEMMA LoadedType == Loaded \in Config
BY DEF Loaded, Nothing, Config

\* What an edit of a user or of a token makes of a configuration.
LEMMA UserEdited ==
  ASSUME NEW c \in Config, NEW u \in Users, NEW role \in Roles \cup {"none"}
  PROVE  /\ [c EXCEPT !.role[u] = role] \in Config
         /\ [c EXCEPT !.role[u] = role, !.must = @ \ {u}] \in Config
         /\ [c EXCEPT !.must = @ \ {u}] \in Config
BY DEF Config

LEMMA TokenEdited ==
  ASSUME NEW c \in Config, NEW t \in Tokens, NEW k \in {"none", "unused", "used"}
  PROVE  [c EXCEPT !.token[t] = k] \in Config
BY DEF Config

LEMMA MadeConfigs ==
  ASSUME NEW c \in Config, NEW u \in Users, NEW g \in BOOLEAN
  PROVE  Bootstrapped(c, g) \in Config /\ WithPassword(c, u) \in Config
<1>1. c.must \subseteq Users /\ c.role[u] \in Roles \cup {"none"} /\ Admin \in Users
  BY AccountAssumption DEF Config
<1>2. Bootstrapped(c, g) \in Config
  BY <1>1 DEF Bootstrapped, Config, Roles
<1>3. WithPassword(c, u) \in Config
  BY <1>1 DEF WithPassword, Config, Roles
<1> QED
  BY <1>2, <1>3

-----------------------------------------------------------------------------
(* Typing                                                                  *)

\* A step of a handler, a start or a command that prepares a save, or only moves
\* on: AtomicFile's variables stay as they are.
LEMMA MoveOn ==
  ASSUME TypeOK, NEW w \in Writers, ~Busy(w), UNCHANGED fileVars, up' \in BOOLEAN,
         saves' \in 0..MaxSaves,
         NEW p \in Phases, phase' = [phase EXCEPT ![w] = p],
         NEW c \in Config \cup {NoValue}, saving' = [saving EXCEPT ![w] = c],
         c # NoValue <=> p \in Saving,
         NEW who \in Users \cup Tokens \cup {NoCaller}, caller' = [caller EXCEPT ![w] = who],
         p \in {"found", "touch"} => who \in Tokens,
         w = Cli /\ p = "boot" => who \in Users,
         dropping' \in [Writers -> Tokens \cup {NoCaller}],
         overtaken' \subseteq revoked' /\ revoked' \subseteq Tokens /\ misread' \in BOOLEAN
  PROVE  TypeOK'
<1> USE DEF fileVars
<1>1. FileTypeOK'
  BY DEF TypeOK, FileTypeOK, Busy
<1>2. /\ phase' \in [Writers -> Phases]
      /\ caller' \in [Writers -> Users \cup Tokens \cup {NoCaller}]
      /\ saving' \in [Writers -> Config \cup {NoValue}]
  BY DEF TypeOK
<1>3. phase'[w] = p /\ saving'[w] = c /\ caller'[w] = who /\ ~Busy(w)'
  BY DEF TypeOK, Busy
<1>4. ASSUME NEW x \in Writers, x # w PROVE Fits(x)'
  <2>1. phase'[x] = phase[x] /\ saving'[x] = saving[x] /\ caller'[x] = caller[x]
    BY <1>4 DEF TypeOK
  <2>2. Fits(x)
    BY DEF TypeOK
  <2> QED
    BY <2>1, <2>2 DEF Fits, Busy
<1>5. Fits(w)'
  BY <1>3 DEF Fits
<1>6. \A x \in Writers : Fits(x)'
  BY <1>4, <1>5
<1> QED
  BY <1>1, <1>2, <1>6 DEF TypeOK

LEMMA Unoccupied ==
  ASSUME TypeOK, NEW w \in Writers, phase[w] \notin Saving
  PROVE  ~Busy(w) /\ saving[w] = NoValue
BY DEF TypeOK, Fits

LEMMA WriterKinds ==
  /\ \A r \in Requests : r \in Writers /\ r # Cli /\ r # Main
  /\ Main \in Writers /\ Cli \in Writers /\ Main # Cli
BY AccountAssumption

\* An edit: the request has a configuration in hand, and who asked is forgotten.
LEMMA EditStep ==
  ASSUME TypeOK, NEW r \in Requests, NEW c \in Config, phase[r] \notin Saving,
         Prepare(r, c, "edit"), Forget(r), UNCHANGED <<fileVars, up>>,
         dropping' \in [Writers -> Tokens \cup {NoCaller}],
         overtaken' \subseteq revoked' /\ revoked' \subseteq Tokens /\ misread' \in BOOLEAN
  PROVE  TypeOK'
<1>1. ~Busy(r) /\ r \in Writers /\ r # Cli
  BY Unoccupied, WriterKinds
<1>2. saves' \in 0..MaxSaves
  BY BoundAssumption DEF Prepare, TypeOK
<1>3. "edit" \in Phases /\ "edit" \in Saving /\ c # NoValue
  BY WriterAssumption, AccountAssumption DEF Phases, Saving
<1> QED
  BY <1>1, <1>2, <1>3, MoveOn DEF Prepare, Hold, Goto, Forget, TypeOK

\* A request that moves on without a save in hand.
LEMMA PassStep ==
  ASSUME TypeOK, NEW r \in Requests, phase[r] \notin Saving,
         NEW p \in Phases \ Saving, Goto(r, p),
         NEW who \in Users \cup Tokens \cup {NoCaller}, caller' = [caller EXCEPT ![r] = who],
         p = "found" => who \in Tokens,
         UNCHANGED <<fileVars, up, saves, saving, dropping, history>>
  PROVE  TypeOK'
<1>1. ~Busy(r) /\ r \in Writers /\ r # Cli /\ saving[r] = NoValue
  BY Unoccupied, WriterKinds
<1>2. saving' = [saving EXCEPT ![r] = NoValue] /\ p # "touch"
  BY <1>1 DEF TypeOK, Saving
<1> QED
  BY <1>1, <1>2, MoveOn DEF Goto, TypeOK, history

LEMMA HandleTyped ==
  ASSUME TypeOK, NEW r \in Requests, Handle(r)
  PROVE  TypeOK' /\ UNCHANGED fileVars
<1>1. r \in Writers /\ r # Cli /\ Loaded \in Config
  BY WriterKinds, LoadedType
<1>2. ASSUME NEW c \in Config, phase[r] \notin Saving, Edit(r, c)
      PROVE  TypeOK' /\ UNCHANGED fileVars
  BY <1>2, EditStep DEF Edit, history, TypeOK
<1>3. Roles \cup {"must"} \subseteq Phases \ Saving /\ {"none", "found"} \subseteq Phases \ Saving
  BY DEF Roles, Phases, Saving
<1>4. ASSUME NEW u \in Users, Login(r, u) PROVE TypeOK' /\ UNCHANGED fileVars
  <2>1. Loaded.role[u] \in Roles
    BY <1>1, <1>4 DEF Login, Exists, Config
  <2>2. (IF u \in Loaded.must THEN "must" ELSE Loaded.role[u]) \in Phases \ (Saving \cup {"found"})
    BY <2>1, <1>3 DEF Roles
  <2> QED
    BY <1>3, <1>4, <2>2, PassStep DEF Login
<1>5. ASSUME NEW u \in Users, SetPassword(r, u) \/ DeleteUser(r, u)
      PROVE  TypeOK' /\ UNCHANGED fileVars
  <2>1. [Loaded EXCEPT !.role[u] = "none", !.must = @ \ {u}] \in Config
    BY <1>1, UserEdited
  <2> QED
    BY <1>1, <1>2, <1>5, <2>1 DEF SetPassword, DeleteUser, Saving
<1>6. ASSUME NEW u \in Users, NEW role \in Roles, CreateUser(r, u, role) \/ SetRole(r, u, role)
      PROVE  TypeOK' /\ UNCHANGED fileVars
  <2>1. [Loaded EXCEPT !.role[u] = role] \in Config
    BY <1>1, UserEdited
  <2> QED
    BY <1>2, <1>6, <2>1 DEF CreateUser, SetRole, Saving
<1>7. ASSUME NEW t \in Tokens, Present(r, t) PROVE TypeOK' /\ UNCHANGED fileVars
  <2>1. TokenRole[t] \in Roles /\ "found" \notin Roles
    BY AccountAssumption DEF Roles
  <2> DEFINE p == IF Loaded.token[t] = "used" THEN TokenRole[t] ELSE "found"
  <2>2. p \in Phases \ Saving
    BY <1>3, <2>1
  <2> QED
    BY <1>3, <1>7, <2>2, PassStep DEF Present
<1>8. ASSUME NEW t \in Tokens, CreateToken(r, t) PROVE TypeOK' /\ UNCHANGED fileVars
  <2>1. [Loaded EXCEPT !.token[t] = "unused"] \in Config
    BY <1>1, TokenEdited
  <2> QED
    BY <1>2, <1>8, <2>1 DEF CreateToken, Saving
<1>9. ASSUME NEW t \in Tokens, DeleteToken(r, t) PROVE TypeOK' /\ UNCHANGED fileVars
  <2>1. [Loaded EXCEPT !.token[t] = "none"] \in Config
    BY <1>1, TokenEdited
  <2>2. dropping' \in [Writers -> Tokens \cup {NoCaller}]
    BY <1>9 DEF DeleteToken, TypeOK
  <2>3. phase[r] \notin Saving
    BY <1>9 DEF DeleteToken, Saving
  <2> QED
    BY <1>9, <2>1, <2>2, <2>3, EditStep DEF DeleteToken, history, TypeOK
<1>10. ASSUME NEW b \in Backups, Restore(r, b) PROVE TypeOK' /\ UNCHANGED fileVars
  <2>1. b \in Config /\ phase[r] \notin Saving
    BY <1>10, AccountAssumption DEF Restore, Saving
  <2> QED
    BY <1>10, <2>1, EditStep DEF Restore, TypeOK
<1>11. CASE Touch(r)
  <2>1. caller[r] \in Tokens /\ phase[r] \notin Saving /\ ~Busy(r)
    BY <1>1, <1>11, Unoccupied DEF Touch, TypeOK, Fits, Saving
  <2>2. CASE caller[r] \in Held(Loaded)
    <3> DEFINE c == [Loaded EXCEPT !.token[caller[r]] = "used"]
    <3>1. c \in Config /\ c # NoValue
      BY <1>1, <2>1, WriterAssumption, AccountAssumption DEF Config
    <3>2. saves' \in 0..MaxSaves
      BY <1>11, <2>2, BoundAssumption DEF Touch, Prepare, TypeOK
    <3>3. "touch" \in Phases /\ "touch" \in Saving
      BY DEF Phases, Saving
    <3>4. caller' = [caller EXCEPT ![r] = caller[r]]
      BY <1>11 DEF Touch, TypeOK
    <3>5. Prepare(r, c, "touch") /\ UNCHANGED <<fileVars, up, dropping, history>>
      BY <1>11, <2>2 DEF Touch
    <3> HIDE DEF c
    <3> QED
      BY <1>1, <2>1, <3>1, <3>2, <3>3, <3>4, <3>5, MoveOn DEF Prepare, Hold, Goto, TypeOK, history
  <2>3. CASE caller[r] \notin Held(Loaded)
    <3>1. TokenRole[caller[r]] \in Phases \ Saving /\ TokenRole[caller[r]] # "found"
      BY <1>3, <2>1, AccountAssumption DEF Roles
    <3>2. caller' = [caller EXCEPT ![r] = caller[r]]
      BY <1>11 DEF Touch, TypeOK
    <3> QED
      BY <1>11, <2>1, <2>3, <3>1, <3>2, PassStep DEF Touch
  <2> QED
    BY <2>2, <2>3
<1>12. CASE ChangePassword(r)
  <2>1. caller[r] \in Users => [Loaded EXCEPT !.must = @ \ {caller[r]}] \in Config
    BY <1>1, UserEdited
  <2> QED
    BY <1>2, <1>12, <2>1 DEF ChangePassword, Saving
<1>13. CASE Leave(r)
  BY <1>3, <1>13, PassStep DEF Leave, Forget, Roles
<1> QED
  BY <1>4, <1>5, <1>6, <1>7, <1>8, <1>9, <1>10, <1>11, <1>12, <1>13 DEF Handle

LEMMA StartTyped == TypeOK /\ Start => TypeOK' /\ UNCHANGED fileVars
<1> SUFFICES ASSUME TypeOK, Start PROVE TypeOK'
  BY DEF Start
<1>1. Main \in Writers /\ Main # Cli /\ Loaded \in Config
  BY WriterKinds, LoadedType
<1>2. ~Busy(Main) /\ phase[Main] = "none" /\ saving[Main] = NoValue
  BY <1>1, Unoccupied DEF Start, Saving
<1>3. caller' = [caller EXCEPT ![Main] = caller[Main]]
  BY DEF Start, TypeOK
<1>4. ASSUME NEW g \in BOOLEAN, UNCHANGED up, Prepare(Main, Bootstrapped(Loaded, g), "boot")
      PROVE  TypeOK'
  <2> DEFINE c == Bootstrapped(Loaded, g)
  <2>1. c \in Config /\ c # NoValue
    <3>1. Admin \in Users
      BY AccountAssumption
    <3>2. c \in Config
      BY <1>1, <3>1, MadeConfigs
    <3>3. NoValue \notin Config
      BY WriterAssumption, AccountAssumption
    <3> HIDE DEF c
    <3> QED
      BY <3>2, <3>3
  <2>2. saves' \in 0..MaxSaves
    BY <1>4, BoundAssumption DEF Prepare, TypeOK
  <2>3. "boot" \in Phases /\ "boot" \in Saving
    BY DEF Phases, Saving
  <2>4. Prepare(Main, c, "boot")
    BY <1>4
  <2> HIDE DEF c
  <2>5. /\ phase' = [phase EXCEPT ![Main] = "boot"] /\ saving' = [saving EXCEPT ![Main] = c]
        /\ UNCHANGED <<fileVars, dropping, history>>
    BY <2>4 DEF Start, Prepare, Hold, Goto
  <2>6. caller[Main] \in Users \cup Tokens \cup {NoCaller} /\ up' \in BOOLEAN
    BY <1>1, <1>4 DEF TypeOK
  <2>7. /\ dropping' \in [Writers -> Tokens \cup {NoCaller}]
        /\ overtaken' \subseteq revoked' /\ revoked' \subseteq Tokens /\ misread' \in BOOLEAN
    BY <2>5 DEF TypeOK, history
  <2> QED
    BY <1>1, <1>2, <1>3, <2>1, <2>2, <2>3, <2>5, <2>6, <2>7, MoveOn
<1>5. CASE up' = TRUE /\ UNCHANGED <<saves, phase, saving>>
  <2>1. /\ phase' = [phase EXCEPT ![Main] = "none"] /\ saving' = [saving EXCEPT ![Main] = NoValue]
        /\ "none" \in Phases \ Saving
    BY <1>2, <1>5 DEF TypeOK, Phases, Saving, Roles
  <2> QED
    BY <1>1, <1>2, <1>3, <1>5, <2>1, MoveOn DEF Start, TypeOK, history
<1> QED
  BY <1>4, <1>5 DEF Start

LEMMA CommandTyped ==
  ASSUME TypeOK, NEW u \in Users, Command(u)
  PROVE  TypeOK' /\ UNCHANGED fileVars
<1>1. Cli \in Writers /\ Loaded \in Config
  BY WriterKinds, LoadedType
<1>2. ~Busy(Cli)
  BY <1>1, Unoccupied DEF Command, Saving
<1>3. PICK c \in Config, p \in {"boot", "edit"} : Prepare(Cli, c, p)
  BY <1>1, MadeConfigs DEF Command
<1>4. c # NoValue /\ p \in Phases /\ p \in Saving /\ p \notin {"found", "touch"}
  BY <1>3, WriterAssumption, AccountAssumption DEF Phases, Saving
<1>5. saves' \in 0..MaxSaves
  BY <1>3, BoundAssumption DEF Prepare, TypeOK
<1> QED
  BY <1>1, <1>2, <1>3, <1>4, <1>5, MoveOn DEF Command, Prepare, Hold, Goto, TypeOK, history

\* The steps of a save before its end leave the request as it is.
LEMMA SaveTyped ==
  ASSUME TypeOK, NEW w \in Writers, Save(w) \/ Publish(w)
  PROVE  TypeOK' /\ FileNext
<1>1. FileNext
  <2>1. saving[w] # NoValue => saving[w] \in Values
    BY AccountAssumption DEF TypeOK
  <2> QED
    BY <2>1 DEF Save, Publish, FileNext
<1>2. FileTypeOK'
  BY <1>1, FileTyped DEF TypeOK
<1>3. /\ UNCHANGED <<up, saves, requests>> /\ misread' \in BOOLEAN
      /\ overtaken' \subseteq revoked' /\ revoked' \subseteq Tokens
  BY DEF Save, Publish, TypeOK, history
<1>4. ASSUME NEW x \in Writers PROVE Fits(x)'
  <2>1. Fits(x) /\ Fits(w)
    BY DEF TypeOK
  <2>2. Busy(x)' => (Busy(x) /\ wants'[x] = wants[x])
                    \/ (x = w /\ wants'[x] = saving[x] /\ saving[x] # NoValue)
    <3>1. CASE Open(w, saving[w]) /\ saving[w] # NoValue
      BY <3>1 DEF Open, Begun, Step, Busy, TypeOK, FileTypeOK
    <3>2. CASE Write(w) \/ Rename(w)
      BY <3>2 DEF Write, Rename, Replace, Step, Busy, TypeOK, FileTypeOK
    <3> QED
      BY <3>1, <3>2 DEF Save, Publish
  <2> QED
    BY <1>3, <2>1, <2>2 DEF Fits, requests
<1> QED
  BY <1>1, <1>2, <1>3, <1>4 DEF TypeOK, requests

\* The end of a save, with whatever the writer has in hand next.
LEMMA EndStep ==
  ASSUME TypeOK, NEW w \in Writers, Finish(w), up' \in BOOLEAN, UNCHANGED saves,
         NEW p \in Phases, Goto(w, p), NEW c \in Config \cup {NoValue}, Hold(w, c),
         c # NoValue <=> p \in Saving, p \notin {"found", "touch", "boot"},
         caller' \in [Writers -> Users \cup Tokens \cup {NoCaller}],
         \A x \in Writers \ {w} : caller'[x] = caller[x],
         dropping' \in [Writers -> Tokens \cup {NoCaller}],
         overtaken' \subseteq revoked' /\ revoked' \subseteq Tokens /\ misread' \in BOOLEAN
  PROVE  TypeOK' /\ FileNext
<1>1. FileNext
  BY DEF FileNext
<1>2. FileTypeOK'
  BY <1>1, FileTyped DEF TypeOK
<1>3. /\ phase' \in [Writers -> Phases] /\ phase'[w] = p
      /\ saving' \in [Writers -> Config \cup {NoValue}] /\ saving'[w] = c
      /\ \A x \in Writers \ {w} : phase'[x] = phase[x] /\ saving'[x] = saving[x]
  BY DEF TypeOK, Goto, Hold
<1>4. /\ ~Busy(w)'
      /\ \A x \in Writers \ {w} : step'[x] = step[x] /\ wants'[x] = wants[x]
  BY DEF Finish, Step, Busy, TypeOK, FileTypeOK
<1>5. Fits(w)'
  BY <1>3, <1>4 DEF Fits
<1>6. ASSUME NEW x \in Writers \ {w} PROVE Fits(x)'
  BY <1>3, <1>4 DEF Fits, Busy, TypeOK
<1>7. \A x \in Writers : Fits(x)'
  BY <1>5, <1>6
<1> QED
  BY <1>1, <1>2, <1>3, <1>7 DEF TypeOK

\* What Continue leaves a writer with.
LEMMA Continued ==
  ASSUME TypeOK, NEW w \in Writers, step[w] = "renamed", Continue(w)
  PROVE  \E p \in Phases, c \in Config \cup {NoValue} :
           /\ Goto(w, p) /\ Hold(w, c)
           /\ c # NoValue <=> p \in Saving
           /\ p \notin {"found", "touch", "boot"}
           /\ c # NoValue => /\ saving[w] \in Config
                             /\ c = WithPassword(saving[w], caller[w]) /\ caller[w] \in Users
<1>1. Fits(w) /\ saving[w] \in Config
  BY DEF TypeOK, Fits, Busy
<1>2. CASE phase[w] = "boot" /\ w = Cli
  <2>1. caller[w] \in Users
    BY <1>1, <1>2 DEF Fits
  <2>2. WithPassword(saving[w], caller[w]) \in Config
    BY <1>1, <2>1, MadeConfigs
  <2>3. WithPassword(saving[w], caller[w]) # NoValue
    BY <2>2, WriterAssumption, AccountAssumption
  <2>4. "edit" \in Phases /\ "edit" \in Saving
    BY DEF Phases, Saving
  <2>5. Hold(w, WithPassword(saving[w], caller[w])) /\ Goto(w, "edit")
    BY <1>2 DEF Continue
  <2> QED
    BY <1>1, <2>1, <2>2, <2>3, <2>4, <2>5
<1>3. CASE phase[w] = "touch"
  <2>1. Hold(w, NoValue) /\ Goto(w, TokenRole[caller[w]])
    BY <1>3 DEF Continue
  <2>2. TokenRole[caller[w]] \in Roles
    BY <1>1, <1>3, AccountAssumption DEF Fits
  <2> QED
    BY <2>1, <2>2 DEF Phases, Saving, Roles
<1>4. CASE ~(phase[w] = "boot" /\ w = Cli) /\ phase[w] # "touch"
  <2>1. Hold(w, NoValue) /\ Goto(w, "none")
    BY <1>4 DEF Continue
  <2> QED
    BY <2>1 DEF Phases, Saving
<1> QED
  BY <1>2, <1>3, <1>4

LEMMA EndTyped ==
  ASSUME TypeOK, NEW w \in Writers, Saved(w) \/ Failed(w)
  PROVE  TypeOK' /\ FileNext
<1>1. CASE Saved(w)
  <2>1. PICK p \in Phases, c \in Config \cup {NoValue} :
          Goto(w, p) /\ Hold(w, c) /\ (c # NoValue <=> p \in Saving)
          /\ p \notin {"found", "touch", "boot"}
    BY <1>1, Continued DEF Saved
  <2>2. /\ caller' \in [Writers -> Users \cup Tokens \cup {NoCaller}]
        /\ \A x \in Writers \ {w} : caller'[x] = caller[x]
        /\ dropping' \in [Writers -> Tokens \cup {NoCaller}]
    BY <1>1 DEF Saved, TypeOK
  <2>3. overtaken' \subseteq revoked' /\ revoked' \subseteq Tokens /\ misread' \in BOOLEAN
    BY <1>1 DEF Saved, TypeOK, history
  <2>4. Finish(w) /\ up' \in BOOLEAN /\ UNCHANGED saves
    BY <1>1 DEF Saved, TypeOK
  <2> QED
    BY <2>1, <2>2, <2>3, <2>4, EndStep
<1>2. CASE Failed(w)
  <2>1. "none" \in Phases \ Saving
    BY DEF Phases, Saving
  <2>2. /\ caller' \in [Writers -> Users \cup Tokens \cup {NoCaller}]
        /\ \A x \in Writers \ {w} : caller'[x] = caller[x]
        /\ dropping' \in [Writers -> Tokens \cup {NoCaller}]
    BY <1>2 DEF Failed, Forget, TypeOK
  <2> QED
    BY <1>2, <2>1, <2>2, EndStep DEF Failed, TypeOK, history
<1> QED
  BY <1>1, <1>2

LEMMA CrashTyped ==
  ASSUME TypeOK, NEW p \in Pids, Crash(p)
  PROVE  TypeOK' /\ FileNext
<1>1. FileNext
  BY DEF Crash, FileNext
<1>2. FileTypeOK'
  BY <1>1, FileTyped DEF TypeOK
<1>3. ASSUME NEW w \in Writers PROVE Fits(w)'
  <2>1. CASE ProcessOf[w] = p
    BY <2>1 DEF Crash, Die, Fits, Busy, Saving
  <2>2. CASE ProcessOf[w] # p
    BY <2>2 DEF Crash, Die, Fits, Busy, TypeOK
  <2> QED
    BY <2>1, <2>2
<1>4. /\ phase' \in [Writers -> Phases]
      /\ caller' \in [Writers -> Users \cup Tokens \cup {NoCaller}]
      /\ saving' \in [Writers -> Config \cup {NoValue}]
      /\ dropping' \in [Writers -> Tokens \cup {NoCaller}]
  BY DEF Crash, TypeOK, Phases
<1> QED
  BY <1>1, <1>2, <1>3, <1>4 DEF Crash, TypeOK, history

LEMMA NextTyped == TypeOK /\ [Next]_vars => TypeOK' /\ [FileNext]_fileVars
<1> SUFFICES ASSUME TypeOK, [Next]_vars PROVE TypeOK' /\ [FileNext]_fileVars
  OBVIOUS
<1>1. CASE UNCHANGED vars
  <2>1. UNCHANGED fileVars /\ FileTypeOK'
    BY <1>1, FileTyped DEF vars, TypeOK
  <2>2. \A w \in Writers : Fits(w)'
    BY <1>1 DEF vars, fileVars, requests, TypeOK, Fits, Busy
  <2> QED
    BY <1>1, <2>1, <2>2 DEF vars, requests, history, TypeOK
<1> QED
  BY <1>1, HandleTyped, StartTyped, CommandTyped, SaveTyped, EndTyped, CrashTyped DEF Next

\* core/auth.py: typing, and what a writer has in hand fits where it is, whatever
\* saves meet.
THEOREM TypeCorrect == Spec => []TypeOK
<1>1. TypeOK /\ [Next]_vars => TypeOK'
  BY NextTyped
<1> QED
  BY <1>1, InitTypeOK, PTL DEF Spec

\* save_config is the only way auth.json changes: Accounts does with its file
\* what AtomicFile allows.
THEOREM SavesAreAtomicFile == Spec => FileSpec
<1>1. Init => FileInit
  BY DEF Init
<1>2. TypeOK /\ [Next]_vars => [FileNext]_fileVars
  BY NextTyped
<1> QED
  BY <1>1, <1>2, TypeCorrect, PTL DEF Spec, FileSpec

-----------------------------------------------------------------------------
(* An administrator remains                                                *)

\* What a writer has in hand has an administrator, unless an edit was made of a
\* broken file, and a request that got in has found a file there.
SavingAdmins == \A w \in Writers : saving[w] # NoValue => Admins(saving[w]) # {}

Administered ==
  /\ AdminRemains
  /\ misread \/ SavingAdmins
  /\ \A r \in Requests : phase[r] # "none" => published # NoFile

LEMMA InitAdministered == Init => Administered
BY WriterKinds, WriterAssumption, AccountAssumption
   DEF Init, FileInit, Administered, AdminRemains, SavingAdmins

\* An accepted edit leaves an administrator.
LEMMA EditsKeepAdmins ==
  ASSUME NEW c \in Config, Admins(c) # {}, NEW u \in Users, NEW role \in Roles
  PROVE  /\ ~Exists(c, u) => Admins([c EXCEPT !.role[u] = role]) # {}
         /\ (role # "admin" => ~LastAdmin(c, u)) => Admins([c EXCEPT !.role[u] = role]) # {}
         /\ ~LastAdmin(c, u) => Admins([c EXCEPT !.role[u] = "none", !.must = @ \ {u}]) # {}
         /\ Admins([c EXCEPT !.must = @ \ {u}]) # {}
         /\ Admins(WithPassword(c, u)) # {}
<1>1. PICK a \in Users : c.role[a] = "admin"
  BY DEF Admins
<1>2. \A r \in Roles \cup {"none"} : r = "admin" \/ ~Exists(c, u) \/ ~LastAdmin(c, u) =>
        \E b \in Users : [c.role EXCEPT ![u] = r][b] = "admin"
  <2> SUFFICES ASSUME NEW r \in Roles \cup {"none"},
                      r = "admin" \/ ~Exists(c, u) \/ ~LastAdmin(c, u)
               PROVE  \E b \in Users : [c.role EXCEPT ![u] = r][b] = "admin"
    OBVIOUS
  <2>1. CASE r = "admin"
    BY <2>1 DEF Config
  <2>2. CASE a # u
    BY <1>1, <2>2 DEF Config
  <2>3. CASE a = u /\ r # "admin"
    <3>1. PICK b \in Users \ {u} : c.role[b] = "admin"
      BY <1>1, <2>3 DEF LastAdmin, Admins, Exists
    <3> QED
      BY <3>1 DEF Config
  <2> QED
    BY <2>1, <2>2, <2>3
<1>3. /\ [c EXCEPT !.role[u] = role].role = [c.role EXCEPT ![u] = role]
      /\ [c EXCEPT !.role[u] = "none", !.must = @ \ {u}].role = [c.role EXCEPT ![u] = "none"]
      /\ [c EXCEPT !.must = @ \ {u}].role = c.role
  BY DEF Config
<1>4. WithPassword(c, u).role = [c.role EXCEPT ![u] = IF Exists(c, u) THEN @ ELSE "admin"]
  BY DEF WithPassword, Config
<1>5. \E b \in Users : WithPassword(c, u).role[b] = "admin"
  BY <1>1, <1>4 DEF Config, Exists
<1> QED
  BY <1>1, <1>2, <1>3, <1>5 DEF Admins

\* The file does not change, or some save in hand has replaced it, or it is broken.
LEMMA Replaced ==
  ASSUME TypeOK, FileInv, [Next]_vars
  PROVE  \/ published' = published \/ published' \in {Empty, Torn}
         \/ \E w \in Writers : saving[w] # NoValue /\ published' = saving[w]
<1>1. Changed
  BY NextTyped, FileStep
<1>2. \A w \in Writers : Busy(w) => saving[w] # NoValue /\ wants[w] = saving[w]
  BY DEF TypeOK, Fits
<1> QED
  BY <1>1, <1>2 DEF Changed

\* A broken file is neither missing nor a configuration.
LEMMA Broken == {Empty, Torn} \cap Config = {} /\ NoFile \notin Config \cup {Empty, Torn}
BY WriterAssumption, AccountAssumption

\* What is loaded of a file that is there has an administrator, if it parses.
LEMMA LoadedAdmins ==
  ASSUME TypeOK, Administered, published # NoFile, ~misread
  PROVE  published \in {Empty, Torn} \/ Admins(Loaded) # {}
<1>1. published \in {Empty, Torn} \/ published \in Config
  BY AccountAssumption DEF TypeOK, FileTypeOK, Content
<1> QED
  BY <1>1 DEF Administered, AdminRemains, Loaded

\* What a handler takes in hand has an administrator, and the file is there.
LEMMA HandleAdministered ==
  ASSUME TypeOK, Administered, NEW r \in Requests, Handle(r)
  PROVE  /\ published # NoFile /\ (misread => misread')
         /\ saving' = saving \/ misread' \/ \E c \in Config : Hold(r, c) /\ Admins(c) # {}
         /\ \A x \in Writers \ {r} : phase'[x] = phase[x]
<1>1. r \in Writers /\ Loaded \in Config
  BY WriterKinds, LoadedType
<1>2. published # NoFile
  <2>1. CASE phase[r] # "none"
    BY <2>1 DEF Administered
  <2>2. CASE phase[r] = "none"
    <3>1. \/ \E u \in Users : Exists(Loaded, u)
          \/ \E t \in Tokens : t \in Held(Loaded)
      BY <2>2 DEF Handle, Login, SetPassword, DeleteUser, CreateUser, SetRole, Present,
                  CreateToken, DeleteToken, Restore, Touch, ChangePassword, Leave, Roles
    <3>2. Loaded # Nothing
      BY <3>1 DEF Exists, Held, Nothing
    <3> QED
      BY <3>2, WriterAssumption, AccountAssumption DEF Loaded
  <2> QED
    BY <2>1, <2>2
<1>3. /\ \A c : Edit(r, c) => misread' \/ Admins(Loaded) # {}
      /\ UNCHANGED misread /\ Held(Loaded) # {} => misread' \/ Admins(Loaded) # {}
  <2>1. published \in {Empty, Torn} => Held(Loaded) = {}
    BY Broken DEF Loaded, Held, Nothing
  <2> QED
    BY <1>2, <2>1, LoadedAdmins DEF Edit
<1>4. \A x \in Writers \ {r} : phase'[x] = phase[x]
  BY DEF Handle, Login, SetPassword, DeleteUser, CreateUser, SetRole, Present, CreateToken,
         DeleteToken, Restore, Touch, ChangePassword, Leave, Edit, Prepare, Goto, TypeOK
<1>13. misread => misread'
  BY DEF Handle, Login, SetPassword, DeleteUser, CreateUser, SetRole, Present, CreateToken,
         DeleteToken, Restore, Touch, ChangePassword, Leave, Edit, history
<1>5. ASSUME NEW c \in Config, Admins(c) # {}, Edit(r, c) \/ Prepare(r, c, "edit") \/ Prepare(r, c, "touch")
      PROVE  \E d \in Config : Hold(r, d) /\ Admins(d) # {}
  BY <1>5 DEF Edit, Prepare
<1>6. ASSUME NEW u \in Users, NEW role \in Roles,
             SetPassword(r, u) \/ DeleteUser(r, u) \/ CreateUser(r, u, role) \/ SetRole(r, u, role)
      PROVE  misread' \/ \E c \in Config : Hold(r, c) /\ Admins(c) # {}
  <2>0. Admins(Loaded) # {} \/ misread'
    BY <1>3, <1>6 DEF SetPassword, DeleteUser, CreateUser, SetRole
  <2>1. CASE SetPassword(r, u)
    BY <1>1, <1>5, <2>0, <2>1 DEF SetPassword
  <2>2. CASE DeleteUser(r, u)
    <3>1. [Loaded EXCEPT !.role[u] = "none", !.must = @ \ {u}] \in Config
      BY <1>1, UserEdited
    <3>2. misread' \/ Admins([Loaded EXCEPT !.role[u] = "none", !.must = @ \ {u}]) # {}
      BY <1>1, <2>0, <2>2, EditsKeepAdmins DEF DeleteUser, Roles
    <3> QED
      BY <1>5, <2>2, <3>1, <3>2 DEF DeleteUser
  <2>3. CASE CreateUser(r, u, role) \/ SetRole(r, u, role)
    <3>1. [Loaded EXCEPT !.role[u] = role] \in Config
      BY <1>1, UserEdited
    <3>2. misread' \/ Admins([Loaded EXCEPT !.role[u] = role]) # {}
      BY <1>1, <2>0, <2>3, EditsKeepAdmins DEF CreateUser, SetRole
    <3> QED
      BY <1>5, <2>3, <3>1, <3>2 DEF CreateUser, SetRole
  <2> QED
    BY <1>6, <2>1, <2>2, <2>3
<1>7. ASSUME NEW t \in Tokens, NEW k \in {"none", "unused", "used"}
      PROVE  /\ [Loaded EXCEPT !.token[t] = k] \in Config
             /\ Admins(Loaded) # {} => Admins([Loaded EXCEPT !.token[t] = k]) # {}
  <2>1. [Loaded EXCEPT !.token[t] = k].role = Loaded.role
    BY <1>1 DEF Config
  <2>2. Admins([Loaded EXCEPT !.token[t] = k]) = Admins(Loaded)
    BY <2>1 DEF Admins
  <2> QED
    BY <1>1, <2>2, TokenEdited
<1>8. ASSUME NEW t \in Tokens, CreateToken(r, t) \/ DeleteToken(r, t)
      PROVE  misread' \/ \E c \in Config : Hold(r, c) /\ Admins(c) # {}
  <2>1. CASE CreateToken(r, t)
    BY <1>3, <1>5, <1>7, <2>1 DEF CreateToken
  <2>2. CASE DeleteToken(r, t)
    BY <1>3, <1>5, <1>7, <2>2 DEF DeleteToken, history
  <2> QED
    BY <1>8, <2>1, <2>2
<1>9. ASSUME NEW b \in Backups, Restore(r, b)
      PROVE  \E c \in Config : Hold(r, c) /\ Admins(c) # {}
  BY <1>5, <1>9, AccountAssumption DEF Restore
<1>10. ASSUME Touch(r)
       PROVE  saving' = saving \/ misread' \/ \E c \in Config : Hold(r, c) /\ Admins(c) # {}
  <2>1. caller[r] \in Tokens
    BY <1>1, <1>10 DEF Touch, TypeOK, Fits
  <2> QED
    BY <1>3, <1>5, <1>7, <1>10, <2>1 DEF Touch, history
<1>11. ASSUME ChangePassword(r)
       PROVE  misread' \/ \E c \in Config : Hold(r, c) /\ Admins(c) # {}
  <2>1. caller[r] \in Users /\ [Loaded EXCEPT !.must = @ \ {caller[r]}] \in Config
    BY <1>1, <1>11, UserEdited DEF ChangePassword
  <2>2. misread' \/ Admins([Loaded EXCEPT !.must = @ \ {caller[r]}]) # {}
    BY <1>1, <1>3, <1>11, <2>1, EditsKeepAdmins DEF ChangePassword, Roles
  <2> QED
    BY <1>5, <1>11, <2>1, <2>2 DEF ChangePassword
<1>12. saving' = saving \/ misread' \/ \E c \in Config : Hold(r, c) /\ Admins(c) # {}
  <2>1. \A u \in Users : Login(r, u) => saving' = saving
    BY DEF Login
  <2>2. \A t \in Tokens : Present(r, t) => saving' = saving
    BY DEF Present
  <2>3. Leave(r) => saving' = saving
    BY DEF Leave
  <2>4. "admin" \in Roles
    BY DEF Roles
  <2> QED
    BY <1>6, <1>8, <1>9, <1>10, <1>11, <2>1, <2>2, <2>3, <2>4 DEF Handle
<1> QED
  BY <1>2, <1>4, <1>13, <1>12

LEMMA NextAdministered ==
  ASSUME TypeOK, FileInv, Administered, [Next]_vars
  PROVE  Administered'
<1>0. misread => misread'
  BY HandleAdministered DEF Next, vars, history, Start, Command, Save, Publish, Saved, Failed, Crash
<1>1. /\ published # NoFile => published' # NoFile
      /\ AdminRemains'
  <2>1. CASE published' = published
    BY <1>0, <2>1 DEF Administered, AdminRemains, Admins
  <2>2. CASE \E w \in Writers : saving[w] # NoValue /\ published' = saving[w]
    <3>1. published' \in Config /\ (misread \/ Admins(published') # {})
      BY <2>2 DEF Administered, SavingAdmins, TypeOK
    <3>2. published' # NoFile
      BY <3>1, Broken
    <3>3. Admins(published)' = Admins(published')
      BY DEF Admins
    <3> QED
      BY <1>0, <3>1, <3>2, <3>3 DEF AdminRemains
  <2>3. CASE published' \in {Empty, Torn}
    BY <2>3, Broken DEF AdminRemains
  <2> QED
    BY <2>1, <2>2, <2>3, Replaced
<1>2. ASSUME NEW w \in Writers, NEW c \in Config \cup {NoValue}, Hold(w, c),
             c # NoValue => misread' \/ Admins(c) # {}
      PROVE  misread' \/ SavingAdmins'
  BY <1>0, <1>2 DEF Hold, Administered, SavingAdmins, Admins, TypeOK
<1>3. ASSUME UNCHANGED saving
      PROVE  misread' \/ SavingAdmins'
  BY <1>0, <1>3 DEF Administered, SavingAdmins, Admins
<1>4. ASSUME NEW r \in Requests, Handle(r) PROVE Administered'
  <2>1. r \in Writers
    BY WriterKinds
  <2>2. /\ published # NoFile
        /\ saving' = saving \/ misread' \/ \E c \in Config : Hold(r, c) /\ Admins(c) # {}
        /\ \A x \in Writers \ {r} : phase'[x] = phase[x]
    BY <1>4, HandleAdministered
  <2>3. misread' \/ SavingAdmins'
    BY <1>2, <1>3, <2>1, <2>2
  <2>4. published' # NoFile
    BY <1>1, <2>2
  <2> QED
    BY <1>1, <2>3, <2>4 DEF Administered
<1>5. ASSUME \A r \in Requests : phase'[r] # "none" => phase[r] # "none",
             misread' \/ SavingAdmins'
      PROVE  Administered'
  BY <1>1, <1>5 DEF Administered
<1>6. \A c \in Config, u \in Users, g \in BOOLEAN :
        /\ Admins(Bootstrapped(c, g)) # {}
        /\ Admins(c) # {} => Admins(WithPassword(c, u)) # {}
  <2>1. \A c \in Config, g \in BOOLEAN : Bootstrapped(c, g).role[Admin] = "admin"
    BY AccountAssumption DEF Bootstrapped, Config
  <2>2. "admin" \in Roles
    BY DEF Roles
  <2> QED
    BY <2>1, <2>2, EditsKeepAdmins, AccountAssumption DEF Admins
<1>7. CASE Start
  <2>1. \A r \in Requests : phase'[r] = phase[r]
    BY <1>7, WriterKinds DEF Start, Prepare, Goto, TypeOK
  <2>2. saving' = saving \/ \E g \in BOOLEAN : Hold(Main, Bootstrapped(Loaded, g))
    BY <1>7 DEF Start, Prepare
  <2>3. ASSUME NEW g \in BOOLEAN
        PROVE  Bootstrapped(Loaded, g) \in Config /\ Admins(Bootstrapped(Loaded, g)) # {}
    BY <1>6, LoadedType, MadeConfigs, AccountAssumption
  <2> QED
    BY <1>2, <1>3, <1>5, <2>1, <2>2, <2>3, WriterKinds
<1>8. ASSUME NEW u \in Users, Command(u) PROVE Administered'
  <2>1. \A r \in Requests : phase'[r] = phase[r]
    BY <1>8, WriterKinds DEF Command, Prepare, Goto, TypeOK
  <2>2. \/ \E g \in BOOLEAN : Hold(Cli, Bootstrapped(Loaded, g))
        \/ ~NoUsers /\ Hold(Cli, WithPassword(Loaded, u))
    BY <1>8 DEF Command, Prepare
  <2>3. ASSUME NEW g \in BOOLEAN
        PROVE  Bootstrapped(Loaded, g) \in Config /\ Admins(Bootstrapped(Loaded, g)) # {}
    BY <1>6, LoadedType, MadeConfigs
  <2>4. /\ WithPassword(Loaded, u) \in Config
        /\ ~NoUsers => misread \/ Admins(WithPassword(Loaded, u)) # {}
    <3>1. ~NoUsers => Loaded # Nothing
      BY DEF NoUsers, Exists, Nothing
    <3>2. ~NoUsers => published # NoFile /\ published \notin {Empty, Torn}
      BY <3>1, Broken DEF Loaded
    <3> QED
      BY <1>6, <3>2, LoadedAdmins, LoadedType, MadeConfigs
  <2> QED
    BY <1>0, <1>2, <1>5, <2>1, <2>2, <2>3, <2>4, WriterKinds
<1>9. ASSUME NEW w \in Writers, Save(w) \/ Publish(w) PROVE Administered'
  BY <1>3, <1>5, <1>9 DEF Save, Publish, requests
<1>10. ASSUME NEW w \in Writers, Saved(w) PROVE Administered'
  <2>1. PICK p \in Phases, c \in Config \cup {NoValue} :
          /\ Goto(w, p) /\ Hold(w, c)
          /\ c # NoValue => /\ saving[w] \in Config
                            /\ c = WithPassword(saving[w], caller[w]) /\ caller[w] \in Users
    BY <1>10, Continued DEF Saved
  <2>2. c # NoValue => misread \/ Admins(c) # {}
    BY <1>6, <2>1, WriterAssumption, AccountAssumption DEF Administered, SavingAdmins
  <2>3. phase[w] # "none"
    BY <1>10 DEF Saved, TypeOK, Fits, Busy, Saving
  <2>4. \A r \in Requests : phase'[r] # "none" => phase[r] # "none"
    BY <2>1, <2>3, WriterKinds DEF Goto, TypeOK
  <2> QED
    BY <1>0, <1>2, <1>5, <2>1, <2>2, <2>4
<1>11. ASSUME NEW w \in Writers, Failed(w) PROVE Administered'
  BY <1>2, <1>5, <1>11, WriterKinds DEF Failed, Goto, TypeOK
<1>12. ASSUME NEW p \in Pids, Crash(p) PROVE Administered'
  <2>1. \A r \in Requests : phase'[r] # "none" => phase[r] # "none"
    BY <1>12, WriterKinds DEF Crash, TypeOK
  <2>2. \A x \in Writers : saving'[x] # NoValue => saving'[x] = saving[x]
    BY <1>12 DEF Crash, TypeOK
  <2>3. misread' \/ SavingAdmins'
    BY <1>0, <2>2 DEF Administered, SavingAdmins, Admins
  <2> QED
    BY <1>5, <2>1, <2>3
<1>13. CASE UNCHANGED vars
  BY <1>3, <1>5, <1>13 DEF vars, requests
<1> QED
  BY <1>4, <1>7, <1>8, <1>9, <1>10, <1>11, <1>12, <1>13 DEF Next

\* users_set_role, users_delete, backup_restore, cli_set_password: an administrator
\* remains, though no edit holds a lock from its check to its save and saves may
\* meet in the file, unless an edit was made of a file they had broken.
THEOREM AdministratorRemains == Spec => []AdminRemains
<1>1. TypeOK /\ FileInv /\ Administered /\ [Next]_vars => Administered'
  BY NextAdministered
<1>2. FileInv /\ [FileNext]_fileVars => FileInv'
  BY FileStep
<1>3. Administered => AdminRemains
  BY DEF Administered
<1>4. FileSpec => []FileInv
  BY <1>2, FileInitInv, PTL DEF FileSpec
<1> QED
  BY <1>1, <1>3, <1>4, TypeCorrect, SavesAreAtomicFile, InitAdministered, PTL DEF Spec

\* load_config: whoever loads the accounts finds them whole, whatever process dies
\* and whatever save fails, unless the save that published last met another.
THEOREM AccountsWhole == Spec => []WholeFile
BY Atomic, SavesAreAtomicFile, PTL

-----------------------------------------------------------------------------
(* A revoked token                                                         *)

\* A writer that is to revoke a token saves an edit without it.
Dropping(w) ==
  dropping[w] # NoCaller => phase[w] = "edit" /\ dropping[w] \notin Held(saving[w])

\* Nobody has in hand a revoked token, unless it was overtaken.
Forgotten ==
  /\ \A t \in revoked \ overtaken :
       /\ published \in Config => t \notin Held(published)
       /\ \A w \in Writers : saving[w] # NoValue => t \notin Held(saving[w])
  /\ \A w \in Writers : Dropping(w)

LEMMA InitForgotten == Init => Forgotten
BY DEF Init, Forgotten, Dropping

Clean(c) == \A t \in revoked \ overtaken : t \notin Held(c)

\* What a handler takes in hand has no revoked token in it.
LEMMA HandleForgets ==
  ASSUME TypeOK, Forgotten, NEW r \in Requests, Handle(r)
  PROVE  Forgotten'
<1>1. r \in Writers /\ Loaded \in Config /\ UNCHANGED fileVars
  BY WriterKinds, LoadedType, HandleTyped
<1>2. Clean(Loaded)
  BY DEF Forgotten, Loaded, Held, Nothing, Clean
<1>3. phase[r] # "edit" /\ dropping[r] = NoCaller
  <2>1. phase[r] # "edit"
    BY DEF Handle, Login, SetPassword, DeleteUser, CreateUser, SetRole, Present,
           CreateToken, DeleteToken, Restore, Touch, ChangePassword, Leave, Roles
  <2> QED
    BY <1>1, <2>1 DEF Forgotten, Dropping
<1>4. ASSUME NEW c \in Config, \A t \in revoked' \ overtaken' : t \notin Held(c),
             revoked' \ overtaken' \subseteq revoked \ overtaken, Hold(r, c),
             \A x \in Writers \ {r} : phase'[x] = phase[x] /\ dropping'[x] = dropping[x],
             dropping'[r] # NoCaller => phase'[r] = "edit" /\ dropping'[r] \notin Held(c)
      PROVE  Forgotten'
  <2>1. published' = published
    BY <1>1 DEF fileVars
  <2>2. \A w \in Writers : saving'[w] = IF w = r THEN c ELSE saving[w]
    BY <1>4 DEF Hold, TypeOK
  <2>3. \A w \in Writers : Dropping(w)'
    BY <1>4, <2>2 DEF Forgotten, Dropping, Held
  <2> QED
    BY <1>4, <2>1, <2>2, <2>3 DEF Forgotten, Held
<1>5. ASSUME NEW c \in Config, Clean(c),
             Prepare(r, c, "edit") \/ Prepare(r, c, "touch"), UNCHANGED <<revoked, overtaken>>,
             \/ UNCHANGED dropping
             \/ /\ phase'[r] = "edit"
                /\ \E t \in Tokens \ Held(c) : dropping' = [dropping EXCEPT ![r] = t]
      PROVE  Forgotten'
  <2>1. /\ Hold(r, c) /\ \A x \in Writers \ {r} : phase'[x] = phase[x] /\ dropping'[x] = dropping[x]
        /\ dropping'[r] # NoCaller => phase'[r] = "edit" /\ dropping'[r] \notin Held(c)
    BY <1>1, <1>3, <1>5 DEF Prepare, Goto, TypeOK
  <2> QED
    BY <1>4, <1>5, <2>1 DEF Clean
<1>6. ASSUME NEW c \in Config, Clean(c), Edit(r, c)
      PROVE  Forgotten'
  BY <1>5, <1>6 DEF Edit
<1>7. ASSUME NEW u \in Users, NEW role \in Roles,
             SetPassword(r, u) \/ DeleteUser(r, u) \/ CreateUser(r, u, role) \/ SetRole(r, u, role)
      PROVE  Forgotten'
  <2>1. /\ [Loaded EXCEPT !.role[u] = "none", !.must = @ \ {u}] \in Config
        /\ [Loaded EXCEPT !.role[u] = role] \in Config
    BY <1>1, UserEdited
  <2>2. /\ [Loaded EXCEPT !.role[u] = "none", !.must = @ \ {u}].token = Loaded.token
        /\ [Loaded EXCEPT !.role[u] = role].token = Loaded.token
    BY <1>1 DEF Config
  <2>3. /\ Held([Loaded EXCEPT !.role[u] = "none", !.must = @ \ {u}]) = Held(Loaded)
        /\ Held([Loaded EXCEPT !.role[u] = role]) = Held(Loaded)
    BY <2>2 DEF Held
  <2>4. /\ Clean([Loaded EXCEPT !.role[u] = "none", !.must = @ \ {u}])
        /\ Clean([Loaded EXCEPT !.role[u] = role])
    BY <1>2, <2>3 DEF Clean
  <2> QED
    BY <1>1, <1>2, <1>6, <1>7, <2>1, <2>4 DEF SetPassword, DeleteUser, CreateUser, SetRole
<1>8. ASSUME NEW t \in Tokens, NEW k \in {"none", "unused", "used"}
      PROVE  /\ [Loaded EXCEPT !.token[t] = k] \in Config
             /\ t \notin revoked \ overtaken \/ t \in Held(Loaded) \/ k = "none" =>
                  Clean([Loaded EXCEPT !.token[t] = k])
             /\ k = "none" => t \notin Held([Loaded EXCEPT !.token[t] = k])
  <2> DEFINE c == [Loaded EXCEPT !.token[t] = k]
  <2>1. c \in Config /\ c.token = [Loaded.token EXCEPT ![t] = k]
    BY <1>1, TokenEdited DEF Config
  <2>2. c.token[t] = k /\ \A x \in Tokens \ {t} : c.token[x] = Loaded.token[x]
    BY <1>1, <2>1 DEF Config
  <2>3. Held(c) \subseteq Held(Loaded) \cup {t} /\ (k = "none" => t \notin Held(c))
    BY <2>2 DEF Held
  <2> QED
    BY <1>2, <2>1, <2>3 DEF Clean
<1>9. ASSUME NEW t \in Tokens, CreateToken(r, t) PROVE Forgotten'
  <2>1. t \notin revoked \ overtaken
    BY <1>9 DEF CreateToken, New
  <2>2. [Loaded EXCEPT !.token[t] = "unused"] \in Config
        /\ Clean([Loaded EXCEPT !.token[t] = "unused"])
    BY <1>8, <2>1
  <2> QED
    BY <1>6, <1>9, <2>2 DEF CreateToken
<1>10. ASSUME NEW t \in Tokens, DeleteToken(r, t) PROVE Forgotten'
  <2>1. phase'[r] = "edit"
    BY <1>1, <1>10 DEF DeleteToken, Prepare, Goto, TypeOK
  <2>2. [Loaded EXCEPT !.token[t] = "none"] \in Config
        /\ Clean([Loaded EXCEPT !.token[t] = "none"])
        /\ t \notin Held([Loaded EXCEPT !.token[t] = "none"])
    BY <1>8
  <2> QED
    BY <1>5, <1>10, <2>1, <2>2 DEF DeleteToken, history
<1>11. ASSUME NEW b \in Backups, Restore(r, b) PROVE Forgotten'
  <2>1. /\ b \in Config /\ Hold(r, b)
        /\ \A x \in Writers \ {r} : phase'[x] = phase[x] /\ dropping'[x] = dropping[x]
        /\ dropping'[r] = NoCaller
    BY <1>1, <1>3, <1>11, AccountAssumption DEF Restore, Prepare, Goto, TypeOK
  <2>2. revoked' \ overtaken' = (revoked \ overtaken) \ Held(b)
    BY <1>11 DEF Restore
  <2> QED
    BY <1>4, <2>1, <2>2
<1>12. CASE Touch(r)
  <2>1. caller[r] \in Tokens
    BY <1>1, <1>12 DEF Touch, TypeOK, Fits
  <2>2. CASE caller[r] \in Held(Loaded)
    <3>1. [Loaded EXCEPT !.token[caller[r]] = "used"] \in Config
          /\ Clean([Loaded EXCEPT !.token[caller[r]] = "used"])
      BY <1>8, <2>1, <2>2
    <3> QED
      BY <1>5, <1>12, <2>2, <3>1 DEF Touch, history
  <2>3. CASE caller[r] \notin Held(Loaded)
    BY <1>1, <1>3, <1>12, <2>3 DEF Touch, Goto, Forgotten, Dropping, TypeOK, fileVars, history, Held
  <2> QED
    BY <2>2, <2>3
<1>13. CASE ChangePassword(r)
  <2>1. caller[r] \in Users /\ [Loaded EXCEPT !.must = @ \ {caller[r]}] \in Config
    BY <1>1, <1>13, UserEdited DEF ChangePassword
  <2>2. Held([Loaded EXCEPT !.must = @ \ {caller[r]}]) = Held(Loaded)
    BY <1>1 DEF Config, Held
  <2> QED
    BY <1>2, <1>6, <1>13, <2>1, <2>2 DEF ChangePassword, Clean
<1>14. ASSUME NEW p, Goto(r, p), UNCHANGED <<fileVars, saving, dropping, history>>
       PROVE  Forgotten'
  BY <1>1, <1>3, <1>14 DEF Goto, Forgotten, Dropping, TypeOK, fileVars, history, Held
<1>15. \A u \in Users : Login(r, u) => Forgotten'
  BY <1>14 DEF Login
<1>16. \A t \in Tokens : Present(r, t) => Forgotten'
  BY <1>14 DEF Present
<1>17. Leave(r) => Forgotten'
  BY <1>14 DEF Leave
<1>18. "admin" \in Roles
  BY DEF Roles
<1> QED
  BY <1>7, <1>9, <1>10, <1>11, <1>12, <1>13, <1>15, <1>16, <1>17, <1>18 DEF Handle

\* Clean(published) is only asked of a file that is a configuration.
CleanFile == published \in Config => Clean(published)

LEMMA CleanParts ==
  Forgotten <=> /\ CleanFile
                /\ \A w \in Writers : saving[w] # NoValue => Clean(saving[w])
                /\ \A w \in Writers : Dropping(w)
BY DEF Forgotten, CleanFile, Clean

\* A step that revokes nothing and takes nothing in hand but what is clean.
LEMMA KeepsForgotten ==
  ASSUME TypeOK, FileInv, Forgotten, [Next]_vars, UNCHANGED <<revoked, overtaken>>,
         \A w \in Writers : saving'[w] # NoValue => Clean(saving'[w]),
         \A w \in Writers : Dropping(w)'
  PROVE  Forgotten'
<1>1. \/ published' = published \/ published' \in {Empty, Torn}
      \/ \E w \in Writers : saving[w] # NoValue /\ published' = saving[w]
  BY Replaced
<1>2. published' \in Config => Clean(published')
  BY <1>1, CleanParts, Broken DEF CleanFile
<1> QED
  BY <1>2 DEF Forgotten, Clean, Held

LEMMA SavedForgets ==
  ASSUME TypeOK, FileInv, Forgotten, [Next]_vars, NEW w \in Writers, Saved(w)
  PROVE  Forgotten'
<1>1. PICK p \in Phases, c \in Config \cup {NoValue} :
        /\ Goto(w, p) /\ Hold(w, c)
        /\ c # NoValue => /\ saving[w] \in Config
                          /\ c = WithPassword(saving[w], caller[w]) /\ caller[w] \in Users
  BY Continued DEF Saved
<1>2. /\ saving[w] # NoValue /\ dropping'[w] = NoCaller /\ UNCHANGED <<revoked, overtaken>>
      /\ \A x \in Writers \ {w} : /\ saving'[x] = saving[x] /\ phase'[x] = phase[x]
                                  /\ dropping'[x] = dropping[x]
      /\ saving'[w] = c
  BY <1>1 DEF Saved, Finish, Hold, Goto, TypeOK, Fits, Busy, history
<1>3. \A x \in Writers : Dropping(x)'
  BY <1>2 DEF Forgotten, Dropping, Held
<1>4. c # NoValue => Held(c) = Held(saving[w])
  BY <1>1 DEF WithPassword, Config, Held
<1>5. \A x \in Writers : saving'[x] # NoValue => Clean(saving'[x])
  BY <1>2, <1>4, CleanParts DEF Clean
<1> QED
  BY <1>2, <1>3, <1>5, KeepsForgotten

\* The rename publishes what some save had in hand: its own, which has no revoked
\* token in it, or another's, by which the token it revokes is overtaken.
LEMMA PublishForgets ==
  ASSUME TypeOK, FileInv, Forgotten, NEW w \in Writers, Publish(w)
  PROVE  Forgotten'
<1>1. /\ saving[w] # NoValue /\ UNCHANGED requests
      /\ \/ published' = published /\ step'[w] # "renamed"
         \/ published' \in {Empty, Torn}
         \/ \E x \in Writers : saving[x] # NoValue /\ published' = saving[x]
  <2>1. /\ step[w] = "written"
        /\ \A x \in Writers : Busy(x) => wants[x] = saving[x] /\ saving[x] # NoValue
    BY DEF Publish, Rename, TypeOK, Fits
  <2>2. IF step'[w] = "renamed"
        THEN \/ published' \in {Empty, Torn}
             \/ \E x \in Writers : Busy(x) /\ published' = wants[x]
        ELSE published' = published
    BY RenameStep DEF Publish
  <2> QED
    BY <2>1, <2>2 DEF Publish, Busy
<1>2. \A x \in Writers : Dropping(x)'
  BY <1>1 DEF requests, Forgotten, Dropping, Held
<1>3. ASSUME NEW t \in revoked' \ overtaken'
      PROVE  /\ published' \in Config => t \notin Held(published')
             /\ \A x \in Writers : saving[x] # NoValue => t \notin Held(saving[x])
  <2>1. t \in revoked \ overtaken
        \/ (t = dropping[w] /\ t \in Tokens /\ ~InHand(w, t) /\ step'[w] = "renamed")
    BY <1>3 DEF Publish
  <2>2. CASE t \in revoked \ overtaken
    BY <1>1, <2>2, Broken DEF Forgotten
  <2>3. CASE t = dropping[w] /\ t \in Tokens /\ ~InHand(w, t) /\ step'[w] = "renamed"
    <3>1. t \notin Held(saving[w])
      BY <2>3, CallerAssumption DEF Forgotten, Dropping
    <3>2. \A x \in Writers : saving[x] # NoValue => t \notin Held(saving[x])
      BY <2>3, <3>1 DEF InHand
    <3> QED
      BY <1>1, <2>3, <3>2, Broken
  <2> QED
    BY <2>1, <2>2, <2>3
<1> QED
  BY <1>1, <1>2, <1>3 DEF Forgotten, Held, requests

LEMMA NextForgets ==
  ASSUME TypeOK, FileInv, Forgotten, [Next]_vars
  PROVE  Forgotten'
<1>1. Clean(Loaded)
  BY DEF Forgotten, Loaded, Held, Nothing, Clean
<1>2. \A c \in Config : Clean(c) =>
        /\ \A g \in BOOLEAN : Clean(Bootstrapped(c, g))
        /\ \A u \in Users : Clean(WithPassword(c, u))
  BY DEF Config, Clean, Held, Bootstrapped, WithPassword
<1>3. CASE Start
  <2>1. \A w \in Writers : saving'[w] # NoValue => Clean(saving'[w])
    <3>1. saving' = saving \/ \E g \in BOOLEAN : Hold(Main, Bootstrapped(Loaded, g))
      BY <1>3 DEF Start, Prepare
    <3> QED
      BY <1>1, <1>2, <3>1, LoadedType, CleanParts DEF Hold, TypeOK
  <2>2. dropping[Main] = NoCaller
    BY <1>3, WriterKinds DEF Start, Forgotten, Dropping
  <2>3. \A w \in Writers : Dropping(w)'
    BY <1>3, <2>2 DEF Start, Prepare, Hold, Goto, Forgotten, Dropping, Held, TypeOK
  <2> QED
    BY <1>3, <2>1, <2>3, KeepsForgotten DEF Start, history
<1>4. ASSUME NEW u \in Users, Command(u) PROVE Forgotten'
  <2>1. \A w \in Writers : saving'[w] # NoValue => Clean(saving'[w])
    <3>1. \/ \E g \in BOOLEAN : Hold(Cli, Bootstrapped(Loaded, g))
          \/ Hold(Cli, WithPassword(Loaded, u))
      BY <1>4 DEF Command, Prepare
    <3> QED
      BY <1>1, <1>2, <3>1, LoadedType, CleanParts DEF Hold, TypeOK
  <2>2. dropping[Cli] = NoCaller
    BY <1>4, WriterKinds DEF Command, Forgotten, Dropping
  <2>3. \A w \in Writers : Dropping(w)'
    BY <1>4, <2>2 DEF Command, Prepare, Hold, Goto, Forgotten, Dropping, Held, TypeOK
  <2> QED
    BY <1>4, <2>1, <2>3, KeepsForgotten DEF Command, history
<1>5. ASSUME NEW w \in Writers, Save(w) PROVE Forgotten'
  <2>1. \A x \in Writers : Dropping(x)'
    BY <1>5 DEF Save, requests, Forgotten, Dropping, Held
  <2> QED
    BY <1>5, <2>1, KeepsForgotten, CleanParts DEF Save, requests, history
<1>6. ASSUME NEW w \in Writers, Failed(w) PROVE Forgotten'
  <2>1. \A x \in Writers : saving'[x] # NoValue => Clean(saving'[x])
    BY <1>6, CleanParts DEF Failed, Hold, TypeOK
  <2>2. \A x \in Writers : Dropping(x)'
    BY <1>6 DEF Failed, Goto, Hold, Forgotten, Dropping, Held, TypeOK
  <2> QED
    BY <1>6, <2>1, <2>2, KeepsForgotten DEF Failed, history
<1>7. ASSUME NEW p \in Pids, Crash(p) PROVE Forgotten'
  <2>1. \A x \in Writers : saving'[x] # NoValue => Clean(saving'[x])
    BY <1>7, CleanParts DEF Crash, TypeOK
  <2>2. \A x \in Writers : Dropping(x)'
    BY <1>7 DEF Crash, Forgotten, Dropping, Held, TypeOK
  <2> QED
    BY <1>7, <2>1, <2>2, KeepsForgotten DEF Crash, history
<1>8. CASE UNCHANGED vars
  <2>1. \A x \in Writers : Dropping(x)'
    BY <1>8 DEF vars, requests, Forgotten, Dropping, Held
  <2> QED
    BY <1>8, <2>1, KeepsForgotten, CleanParts DEF vars, requests, history
<1> QED
  BY <1>3, <1>4, <1>5, <1>6, <1>7, <1>8, HandleForgets, SavedForgets, PublishForgets DEF Next

\* tokens_delete, _touch_token: a revoked token comes back only through a save that
\* had loaded it before, also when saves meet in the file.
THEOREM RevokedForGood == Spec => []RevokedStaysRevoked
<1>1. TypeOK /\ FileInv /\ Forgotten /\ [Next]_vars => Forgotten'
  BY NextForgets
<1>2. FileInv /\ [FileNext]_fileVars => FileInv'
  BY FileStep
<1>3. Forgotten => RevokedStaysRevoked
  BY DEF Forgotten, RevokedStaysRevoked
<1>4. FileSpec => []FileInv
  BY <1>2, FileInitInv, PTL DEF FileSpec
<1> QED
  BY <1>1, <1>3, <1>4, TypeCorrect, SavesAreAtomicFile, InitForgotten, PTL DEF Spec
=============================================================================
