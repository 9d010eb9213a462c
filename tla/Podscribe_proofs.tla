---------------------------- MODULE Podscribe_proofs ----------------------------
(***************************************************************************)
(* What the podscribe pipeline guarantees for every set of files, every    *)
(* size of its two pools and every number of things that go wrong.         *)
(***************************************************************************)
EXTENDS Podscribe, TLAPS

\* Only the thread inside StateManager.save waits there, and between runs there
\* is no thread; after says only where an update leads.
SaveInv ==
  /\ \A f \in Files : pc[f] = "saving" <=> writer = f
  /\ stage = "none" => \A f \in Files : pc[f] = "idle"
  /\ after \notin {"saving", "converting", "write_raw", "raw_open", "raw_first", "raw_repeated",
                   "final_closed"}
  /\ stage # "none" /\ ~torn => disk = state

\* The bounds of the model.
BoundInv == Troubles <= MaxTroubles /\ \A f \in Files : version[f] <= 1 + changes

\* What exists was made from some version of the audio.
Dated(file) == file = NoFile \/ file.version >= 1

\* The places where a file's thread holds a transcript.
HasText(f) == Place(f) \in {"write_raw", "raw_open", "edit", "final_open"}

\* The places behind the writing or the reading of the raw transcript.
HasRaw(f) ==
  Place(f) \in {"raw_open", "raw_first", "raw_repeated", "edit", "final_open", "final_closed"}

\* A thread that holds a transcript holds a complete one, and finds on disk what
\* it has written.
FileInv ==
  \A f \in Files :
    /\ version[f] >= 1 /\ Dated(pre[f]) /\ Dated(raw[f])
    /\ HasText(f) => text[f].closed /\ text[f].version >= 1
    /\ HasRaw(f) => Exists(raw[f])
    /\ pc[f] = "final_closed" => final[f].closed

\* What the entries e say of the files is true.
True(e) ==
  \A f \in Files :
    /\ e[f].status \in {"transcribed", "completed"} => Exists(raw[f]) \/ losses > 0
    /\ e[f].status = "completed" => final[f].closed

ClaimInv == True(state) /\ (~torn => True(disk))

\* Beyond the comparison of its hash a file is not completed until its final
\* transcript is.
OpenInv ==
  \A f \in Files :
    Place(f) \notin {"idle", "listed", "hash", "dropped", "done"} => Status(f) # "completed"

\* Places a file can be in whose chunks are not the thread's to use: before the
\* conversion, which makes them again, behind a failure, or in a stage that takes
\* no audio.
Early == {"idle", "listed", "hash", "duration", "existing", "convert", "dropped", "done"}
MadeAgain(status, place) ==
  /\ status \in {"new", "failed"}
  /\ place \in Early \/ (stage = "postprocess" /\ place \in {"prepared", "post"})

\* The status of f that the run goes by, or that the next run will load.
Known(f) == IF stage # "none" THEN Status(f) ELSE IF torn THEN "new" ELSE disk[f].status

\* Chunks that are not all there are still being made, or are those of a first
\* preprocessing that ended early: then there is no transcript to take over, and
\* they are made again.
Unused(f) == raw[f] = NoFile /\ MadeAgain(Known(f), Place(f))
PartOfPre(f) == pre[f].sound /\ (pc[f] = "converting" \/ Unused(f))

\* Only the thread that writes a file leaves it less than whole.
WholeFile(f) ==
  /\ pre[f] = NoFile \/ Whole(pre[f]) \/ PartOfPre(f)
  /\ raw[f] = NoFile \/ Whole(raw[f]) \/ pc[f] = "raw_open"
  /\ HasText(f) => Whole(text[f])
  /\ pc[f] = "final_closed" \/ Status(f) = "completed" => Whole(final[f])

\* That is so for every file of which no part was left that passes for the whole.
WholeInv ==
  \A f \in Files : f \notin cut =>
    WholeFile(f) /\ (~torn /\ disk[f].status = "completed" => Whole(final[f]))

\* The places between the transcriber's answer and the entry that records it.
Unrecorded == {"write_raw", "raw_open", "raw_first", "raw_repeated"}

\* A file in this place, with this status and this raw transcript, can still lead
\* to a call of the transcriber.
Owes(place, status, file) == place \notin Unrecorded /\ (~Exists(file) \/ status = "preprocessed")
Owed(f) == Owes(Place(f), Known(f), raw[f])

\* Only a file without a transcript becomes "preprocessed", and a transcript that
\* was asked for again is not that of such a file.
PlaceOK(place, status, file) ==
  /\ place \in {"convert", "converting"} /\ status \in {"new", "failed"} => ~Exists(file)
  /\ place = "raw_repeated" => status # "preprocessed"
PlaceInv == \A f \in Files : PlaceOK(Place(f), Status(f), raw[f])

\* Whoever can still call the transcriber has a call in hand.
CallInv == \A f \in Files : calls[f] <= 1 + Troubles /\ (Owed(f) => calls[f] <= Troubles)

IInv ==
  /\ TypeOK /\ SaveInv /\ BoundInv /\ FileInv /\ ClaimInv /\ OpenInv /\ WholeInv
  /\ PlaceInv /\ CallInv

-----------------------------------------------------------------------------
(* What the helpers return. *)

\* Files made of files are files.
LEMMA ContentsOK ==
  /\ NoFile \in Contents
  /\ \A c \in Contents :
       /\ Unclosed(c) \in Contents /\ MadeFrom(c) \in Contents
       /\ [c EXCEPT !.closed = TRUE] \in Contents
<1>1. NoFile \in Contents
  BY PodscribeAssumption DEF NoFile, Contents, Versions
<1>2. ASSUME NEW c \in Contents
      PROVE  Unclosed(c) \in Contents /\ [c EXCEPT !.closed = TRUE] \in Contents
  BY DEF Unclosed, Contents
<1>3. ASSUME NEW c \in Contents PROVE MadeFrom(c) \in Contents
  <2> DEFINE w == Whole(c)
  <2>1. w \in BOOLEAN
    BY DEF Whole, Contents
  <2>2. c.version \in Versions
    BY DEF Contents
  <2>3. MadeFrom(c) = [version |-> c.version, closed |-> TRUE, sound |-> w]
    BY DEF MadeFrom
  <2> HIDE DEF w
  <2> QED
    BY <2>1, <2>2, <2>3 DEF Contents
<1> QED
  BY <1>1, <1>2, <1>3

\* So is the audio of a file.
LEMMA AudioOK ==
  ASSUME TypeOK, NEW f \in Files
  PROVE  Audio(f) \in Contents /\ Source(f) \in Contents
<1>1. Audio(f) \in Contents
  BY DEF TypeOK, Audio, Contents
<1> QED
  BY <1>1 DEF TypeOK, Source

\* The entries an update writes are entries, and keep the hash but for a reset.
LEMMA EntriesOK ==
  ASSUME TypeOK, NEW f \in Files
  PROVE  /\ NewEntry \in Entries /\ [NewEntry EXCEPT !.hash = version[f]] \in Entries
         /\ \A s \in Statuses : SetStatus(f, s) \in Entries
         /\ Promoted(f) \in Entries
<1>1. NewEntry \in Entries /\ [NewEntry EXCEPT !.hash = version[f]] \in Entries
  <2>1. version[f] \in Versions /\ 0 \in Versions
    BY PodscribeAssumption DEF TypeOK, Versions
  <2>2. NewEntry \in Entries
    BY <2>1 DEF NewEntry, Entries, Statuses
  <2> QED
    BY <2>1, <2>2 DEF Entries
<1>2. \A s \in Statuses : SetStatus(f, s) \in Entries
  <2>1. state[f] \in Entries
    BY DEF TypeOK
  <2> QED
    BY <2>1 DEF SetStatus, Entries
<1>3. Promoted(f) \in Entries
  <2>1. SetStatus(f, "transcribed") \in Entries
    BY <1>2 DEF Statuses
  <2>2. state[f] \in Entries
    BY DEF TypeOK
  <2> QED
    BY <2>1, <2>2 DEF Promoted
<1> QED
  BY <1>1, <1>2, <1>3

\* A turn of f's thread: it goes on to l with entry e, at once if the entry is
\* untouched, or else when it has saved it.
Turn(f, l, e) ==
  /\ pc[f] \notin {"idle", "saving"} /\ stage # "none" /\ stage' = stage
  /\ Place(f) = pc[f] /\ Place(f)' = l
  /\ \A g \in Files \ {f} : Place(g)' = Place(g)
  /\ pc' = [pc EXCEPT ![f] = pc'[f]] /\ state' = [state EXCEPT ![f] = e]
  /\ \/ pc'[f] = l /\ UNCHANGED <<disk, torn, state, writer, after>>
     \/ /\ pc'[f] = "saving" /\ writer = NoOne /\ writer' = f /\ after' = l
        /\ torn' = TRUE /\ disk' = disk

LEMMA UpdateTurns ==
  ASSUME TypeOK, SaveInv, NEW f \in Files, NEW l, NEW e,
         pc[f] # "idle", UNCHANGED stage, Update(f, e, l)
  PROVE  Turn(f, l, e)
<1>1. writer = NoOne /\ writer' = f /\ after' = l /\ torn' = TRUE /\ disk' = disk
      /\ state' = [state EXCEPT ![f] = e] /\ pc' = [pc EXCEPT ![f] = "saving"]
  BY DEF Update, Goto
<1>2. stage # "none"
  BY DEF SaveInv
<1>3. pc[f] # "saving" /\ NoOne \notin Files
  BY <1>1, PodscribeAssumption DEF SaveInv
<1>4. pc'[f] = "saving" /\ \A g \in Files \ {f} : pc'[g] = pc[g]
  BY <1>1 DEF TypeOK
<1>5. /\ Place(f) = pc[f] /\ Place(f)' = l
      /\ \A g \in Files \ {f} : Place(g)' = Place(g)
  BY <1>1, <1>3, <1>4 DEF Place
<1> QED
  BY <1>1, <1>2, <1>3, <1>4, <1>5 DEF Turn

LEMMA GotoTurns ==
  ASSUME TypeOK, SaveInv, NEW f \in Files, NEW l, l # "saving",
         pc[f] \notin {"idle", "saving"}, UNCHANGED stage, Goto(f, l), NoUpdate
  PROVE  Turn(f, l, state[f])
<1>1. UNCHANGED <<disk, torn, state, writer, after>> /\ pc' = [pc EXCEPT ![f] = l]
  BY DEF NoUpdate, Goto
<1>2. stage # "none" /\ writer # f
  BY DEF SaveInv
<1>3. pc'[f] = l /\ \A g \in Files \ {f} : pc'[g] = pc[g]
  BY <1>1 DEF TypeOK
<1>4. /\ Place(f) = pc[f] /\ Place(f)' = l
      /\ \A g \in Files \ {f} : Place(g)' = Place(g)
  BY <1>1, <1>2, <1>3 DEF Place
<1>5. state' = [state EXCEPT ![f] = state[f]]
  BY <1>1 DEF TypeOK
<1> QED
  BY <1>1, <1>2, <1>3, <1>4, <1>5 DEF Turn

-----------------------------------------------------------------------------
(* Types and the threads. *)

\* A turn keeps the types of what a thread shares with the others, and keeps
\* only its own thread waiting for a save.
Turns(f) == \E l \in Places, e \in Entries :
  /\ Turn(f, l, e)
  /\ l \notin {"saving", "idle"}
  /\ l \in {"converting", "write_raw", "raw_open", "raw_first", "raw_repeated", "final_closed"} =>
       pc'[f] = l

LEMMA TurnOK ==
  ASSUME TypeOK, SaveInv, NEW f \in Files, Turns(f)
  PROVE  /\ SaveInv'
         /\ disk' \in [Files -> Entries] /\ torn' \in BOOLEAN
         /\ stage' \in {"none", "all", "transcribe", "postprocess"}
         /\ state' \in [Files -> Entries]
         /\ writer' \in Files \cup {NoOne} /\ after' \in Places
         /\ pc' \in [Files -> Places]
<1>1. PICK l \in Places, e \in Entries :
        /\ Turn(f, l, e)
        /\ l \notin {"saving", "idle"}
        /\ l \in {"converting", "write_raw", "raw_open", "raw_first", "raw_repeated", "final_closed"}
             => pc'[f] = l
  BY DEF Turns
<1>2. /\ disk' \in [Files -> Entries] /\ torn' \in BOOLEAN
      /\ stage' \in {"none", "all", "transcribe", "postprocess"}
      /\ state' \in [Files -> Entries]
      /\ writer' \in Files \cup {NoOne} /\ after' \in Places
  BY <1>1 DEF Turn, TypeOK
<1>3. pc'[f] \in Places
  BY <1>1 DEF Turn, Places
<1>4. pc' \in [Files -> Places]
  BY <1>1, <1>3 DEF Turn, TypeOK
<1>5. SaveInv'
  <2>1. \A g \in Files : pc'[g] = "saving" <=> writer' = g
    <3>1. CASE pc'[f] = l /\ UNCHANGED <<disk, torn, state, writer, after>>
      BY <1>1, <3>1 DEF Turn, TypeOK, SaveInv
    <3>2. CASE pc'[f] = "saving" /\ writer = NoOne /\ writer' = f
      BY <1>1, <3>2, PodscribeAssumption DEF Turn, TypeOK, SaveInv
    <3> QED
      BY <1>1, <3>1, <3>2 DEF Turn
  <2>2. stage' # "none"
    BY <1>1 DEF Turn
  <2>3. after' \notin {"saving", "converting", "write_raw", "raw_open", "raw_first", "raw_repeated",
                       "final_closed"}
    BY <1>1 DEF Turn, SaveInv
  <2>4. ~torn' => disk' = state'
    BY <1>1 DEF Turn, SaveInv
  <2> QED
    BY <2>1, <2>2, <2>3, <2>4 DEF SaveInv
<1> QED
  BY <1>2, <1>4, <1>5

\* Where an update leads.
Ends == {"duration", "existing", "convert", "prepared", "dropped", "transcribed", "done", "edit"}

LEMMA UpdateIsTurn ==
  ASSUME TypeOK, SaveInv, NEW f \in Files, NEW l \in Ends, NEW e \in Entries,
         pc[f] # "idle", UNCHANGED stage, Update(f, e, l)
  PROVE  Turns(f)
<1>1. Turn(f, l, e)
  BY UpdateTurns
<1> QED
  BY <1>1 DEF Turns, Ends, Places, InPreparation, InTranscription, InPostprocessing

LEMMA GotoIsTurn ==
  ASSUME TypeOK, SaveInv, NEW f \in Files, NEW l \in Places, l \notin {"saving", "idle"},
         pc[f] \notin {"idle", "saving"}, UNCHANGED stage, Goto(f, l), NoUpdate
  PROVE  Turns(f)
<1>1. Turn(f, l, state[f]) /\ pc'[f] = l /\ state[f] \in Entries
  BY GotoTurns DEF Goto, TypeOK
<1> QED
  BY <1>1 DEF Turns

\* Every step of a file's thread is a turn.
LEMMA PrepareTurns ==
  ASSUME TypeOK, SaveInv, NEW f \in Files, Prepare(f)
  PROVE  Turns(f)
<1> USE DEF Ends, Places, InPreparation, InTranscription, InPostprocessing
<1>0. state[f] \in Entries
  BY DEF TypeOK
<1>1. CASE NextFile(f)
  BY <1>1, GotoIsTurn DEF NextFile, run
<1>2. CASE Hash(f)
  BY <1>2, GotoIsTurn, UpdateIsTurn, EntriesOK DEF Hash, run
<1>3. CASE Duration(f)
  BY <1>0, <1>3, GotoIsTurn, UpdateIsTurn DEF Duration, run
<1>4. CASE Existing(f)
  BY <1>4, GotoIsTurn, UpdateIsTurn, EntriesOK DEF Existing, run
<1>5. CASE Convert(f)
  BY <1>5, GotoIsTurn DEF Convert
<1>6. CASE Converted(f)
  <2> DEFINE e == [state[f] EXCEPT !.preprocessed = TRUE,
                                   !.status = IF @ \in {"new", "failed"} THEN "preprocessed" ELSE @]
  <2>1. e \in Entries
    BY <1>0 DEF Entries, Statuses
  <2>2. Update(f, e, "prepared") /\ pc[f] = "converting" /\ UNCHANGED stage
    BY <1>6 DEF Converted
  <2> HIDE DEF e
  <2> QED
    BY <2>1, <2>2, UpdateIsTurn
<1>7. CASE ConvertFails(f)
  <2>1. SetStatus(f, "failed") \in Entries
    BY EntriesOK DEF Statuses
  <2> QED
    BY <2>1, <1>7, GotoIsTurn, UpdateIsTurn DEF ConvertFails, run
<1> QED
  BY <1>1, <1>2, <1>3, <1>4, <1>5, <1>6, <1>7 DEF Prepare

LEMMA WorkTurns ==
  ASSUME TypeOK, SaveInv, NEW f \in Files, Work(f)
  PROVE  Turns(f)
<1> USE DEF Ends, Places, InPreparation, InTranscription, InPostprocessing
<1>0. /\ state[f] \in Entries /\ Promoted(f) \in Entries
      /\ \A s \in {"failed", "transcribed", "completed"} : SetStatus(f, s) \in Entries
  BY EntriesOK DEF TypeOK, Statuses
<1>a. AfterTranscription \in Ends
  BY DEF AfterTranscription
<1>1. CASE TakeTranscription(f)
  BY <1>1, GotoIsTurn DEF TakeTranscription, run
<1>2. CASE TakePostprocessing(f)
  BY <1>2, GotoIsTurn DEF TakePostprocessing, run
<1>3. CASE Transcribe(f) \/ WriteRaw(f) \/ WroteRaw(f) \/ Postprocess(f) \/ WroteFinal(f)
  BY <1>3, GotoIsTurn DEF Transcribe, WriteRaw, WroteRaw, Postprocess, WroteFinal, run
<1>4. CASE TranscribeFails(f)
  BY <1>0, <1>a, <1>4, UpdateIsTurn DEF TranscribeFails, run
<1>5. CASE PostprocessFails(f)
  BY <1>0, <1>5, UpdateIsTurn DEF PostprocessFails, run
<1>6. CASE ReuseTranscript(f)
  BY <1>0, <1>a, <1>6, UpdateIsTurn DEF ReuseTranscript, run
<1>7. CASE RecordRaw(f)
  BY <1>0, <1>a, <1>7, UpdateIsTurn DEF RecordRaw, run
<1>8. CASE RecordFinal(f)
  BY <1>0, <1>8, UpdateIsTurn DEF RecordFinal, run
<1>9. CASE LoadRaw(f)
  BY <1>0, <1>9, GotoIsTurn, UpdateIsTurn DEF LoadRaw
<1>10. CASE WriteFails(f)
  BY <1>0, <1>a, <1>10, UpdateIsTurn DEF WriteFails, run
<1> QED
  BY <1>1, <1>2, <1>3, <1>4, <1>5, <1>6, <1>7, <1>8, <1>9, <1>10 DEF Work

\* Each of four counts is at most their sum.
LEMMA PartOfSum ==
  ASSUME NEW m \in Nat, NEW a \in Nat, NEW b \in Nat, NEW c \in Nat, NEW d \in Nat,
         a + b + c + d <= m
  PROVE  a \in 0..m /\ b \in 0..m /\ c \in 0..m /\ d \in 0..m
OBVIOUS

\* A step counts one trouble or none.
OneTrouble ==
  \/ changes' = changes + 1 /\ UNCHANGED <<crashes, losses, failures>>
  \/ crashes' = crashes + 1 /\ UNCHANGED <<changes, losses, failures>>
  \/ losses' = losses + 1 /\ UNCHANGED <<changes, crashes, failures>>
  \/ failures' = failures + 1 /\ UNCHANGED <<changes, crashes, losses>>

\* What goes wrong is counted by the step in which it does.
LEMMA TroubleStep ==
  ASSUME [Next]_vars
  PROVE  UNCHANGED troubles \/ (MoreTrouble /\ OneTrouble)
<1>1. ASSUME NEW f \in Files, Prepare(f) PROVE UNCHANGED troubles \/ (MoreTrouble /\ OneTrouble)
  BY <1>1 DEF Prepare, NextFile, Hash, Duration, Existing, Convert, Converted, ConvertFails,
              Fail, OneTrouble, troubles
<1>2. ASSUME NEW f \in Files, Work(f) PROVE UNCHANGED troubles \/ (MoreTrouble /\ OneTrouble)
  BY <1>2 DEF Work, TakeTranscription, Transcribe, TranscribeFails, ReuseTranscript, WriteRaw,
              WroteRaw, RecordRaw, TakePostprocessing, LoadRaw, Postprocess, PostprocessFails,
              WroteFinal, WriteFails, RecordFinal, Fail, NoFail, OneTrouble, troubles
<1>3. ASSUME NEW f \in Files, Change(f) \/ Lose(f) PROVE MoreTrouble /\ OneTrouble
  BY <1>3 DEF Change, Lose, OneTrouble
<1>4. CASE Crash
  BY <1>4 DEF Crash, OneTrouble
<1>5. CASE EndUpdate \/ EndRun \/ (\E s \in Stages : StartRun(s)) \/ UNCHANGED vars
  BY <1>5 DEF EndUpdate, EndRun, StartRun, vars
<1> QED
  BY <1>1, <1>2, <1>3, <1>4, <1>5 DEF Next, Step

\* Nothing that went wrong is forgotten.
LEMMA TroublesGrow ==
  ASSUME TypeOK, [Next]_vars
  PROVE  Troubles \in Nat /\ Troubles' \in Nat /\ Troubles' \in {Troubles, Troubles + 1}
<1>1. changes \in Nat /\ crashes \in Nat /\ losses \in Nat /\ failures \in Nat
  BY PodscribeAssumption DEF TypeOK
<1> QED
  BY <1>1, TroubleStep DEF OneTrouble, Troubles, troubles

\* The history of calls keeps to its values.
LEMMA CallsTyped ==
  ASSUME TypeOK, [Next]_vars
  PROVE  calls' \in [Files -> 0..CallsCap]
<1> USE PodscribeAssumption
<1>1. \A f \in Files : Called(f) \in [Files -> 0..CallsCap]
  BY DEF Called, TypeOK, CallsCap
<1>2. UNCHANGED calls \/ \E f \in Files : calls' = Called(f)
  <2>1. ASSUME NEW f \in Files, Prepare(f) PROVE UNCHANGED calls
    BY <2>1 DEF Prepare, NextFile, Hash, Duration, Existing, Convert, Converted, ConvertFails
  <2>2. ASSUME NEW f \in Files, Work(f) PROVE UNCHANGED calls \/ calls' = Called(f)
    BY <2>2 DEF Work, TakeTranscription, Transcribe, TranscribeFails, ReuseTranscript, WriteRaw,
                WroteRaw, RecordRaw, TakePostprocessing, LoadRaw, Postprocess, PostprocessFails,
                WroteFinal, WriteFails, RecordFinal
  <2>3. CASE EndUpdate \/ EndRun \/ (\E s \in Stages : StartRun(s)) \/ Crash
             \/ (\E f \in Files : Lose(f) \/ Change(f)) \/ UNCHANGED vars
    BY <2>3 DEF EndUpdate, EndRun, StartRun, Crash, Lose, Change, vars
  <2> QED
    BY <2>1, <2>2, <2>3 DEF Next, Step
<1> QED
  BY <1>1, <1>2 DEF TypeOK

\* What was left partly written is not forgotten.
LEMMA CutOK ==
  ASSUME TypeOK, [Next]_vars
  PROVE  cut \subseteq cut' /\ cut' \subseteq Files
<1>0. cut \subseteq Files
  BY DEF TypeOK
<1>1. ASSUME NEW f \in Files, Prepare(f) PROVE cut \subseteq cut' /\ cut' \subseteq Files
  BY <1>0, <1>1 DEF Prepare, NextFile, Hash, Duration, Existing, Convert, Converted, ConvertFails,
                    Cut, troubles
<1>2. ASSUME NEW f \in Files, Work(f) PROVE cut \subseteq cut' /\ cut' \subseteq Files
  BY <1>0, <1>2 DEF Work, TakeTranscription, Transcribe, TranscribeFails, ReuseTranscript,
                    WriteRaw, WroteRaw, RecordRaw, TakePostprocessing, LoadRaw, Postprocess,
                    PostprocessFails, WroteFinal, WriteFails, RecordFinal, Cut, troubles
<1>3. CASE EndUpdate \/ EndRun \/ (\E s \in Stages : StartRun(s)) \/ Crash
           \/ (\E f \in Files : Lose(f) \/ Change(f)) \/ UNCHANGED vars
  BY <1>0, <1>3 DEF EndUpdate, EndRun, StartRun, Crash, Lose, Change, Cut, vars, troubles
<1> QED
  BY <1>1, <1>2, <1>3 DEF Next, Step

\* The counts stay under their bounds.
LEMMA CountsOK ==
  ASSUME TypeOK, BoundInv, [Next]_vars
  PROVE  /\ BoundInv' /\ version' \in [Files -> Versions]
         /\ {changes, crashes, losses, failures}' \subseteq 0..MaxTroubles
         /\ calls' \in [Files -> 0..CallsCap]
<1> USE PodscribeAssumption
<1>1. UNCHANGED troubles \/ (MoreTrouble /\ OneTrouble)
  BY TroubleStep
<1>2. /\ changes \in Nat /\ crashes \in Nat /\ losses \in Nat /\ failures \in Nat
      /\ Troubles <= MaxTroubles
  BY DEF TypeOK, BoundInv
<1>3. /\ Troubles' <= MaxTroubles
      /\ changes' \in Nat /\ crashes' \in Nat /\ losses' \in Nat /\ failures' \in Nat
      /\ changes' >= changes
  BY <1>1, <1>2 DEF MoreTrouble, OneTrouble, Troubles, troubles
<1>4. /\ changes' \in 0..MaxTroubles /\ crashes' \in 0..MaxTroubles
      /\ losses' \in 0..MaxTroubles /\ failures' \in 0..MaxTroubles
  <2>1. changes' + crashes' + losses' + failures' <= MaxTroubles /\ MaxTroubles \in Nat
    BY <1>3 DEF Troubles
  <2>2. /\ changes' \in Nat /\ crashes' \in Nat /\ losses' \in Nat /\ failures' \in Nat
    BY <1>3
  <2> QED
    BY <2>1, <2>2, PartOfSum
<1>5. \/ UNCHANGED version
      \/ \E f \in Files : Change(f)
  <2>1. ASSUME NEW f \in Files, Prepare(f) PROVE UNCHANGED version
    BY <2>1 DEF Prepare, NextFile, Hash, Duration, Existing, Convert, Converted, ConvertFails
  <2>2. ASSUME NEW f \in Files, Work(f) PROVE UNCHANGED version
    BY <2>2 DEF Work, TakeTranscription, Transcribe, TranscribeFails, ReuseTranscript, WriteRaw,
                WroteRaw, RecordRaw, TakePostprocessing, LoadRaw, Postprocess, PostprocessFails,
                WroteFinal, WriteFails, RecordFinal
  <2>3. CASE EndUpdate \/ EndRun \/ (\E s \in Stages : StartRun(s)) \/ Crash
             \/ (\E f \in Files : Lose(f)) \/ UNCHANGED vars
    BY <2>3 DEF EndUpdate, EndRun, StartRun, Crash, Lose, vars
  <2> QED
    BY <2>1, <2>2, <2>3 DEF Next, Step
<1>6. \A f \in Files : version'[f] <= 1 + changes' /\ version'[f] \in Nat
  <2>1. CASE UNCHANGED version
    BY <1>2, <1>3, <2>1 DEF BoundInv, TypeOK, Versions
  <2>2. ASSUME NEW f \in Files, Change(f)
        PROVE  \A g \in Files : version'[g] <= 1 + changes' /\ version'[g] \in Nat
    BY <1>2, <2>2 DEF BoundInv, TypeOK, Versions, Change
  <2> QED
    BY <1>5, <2>1, <2>2
<1>7. version' \in [Files -> Versions]
  <2>1. DOMAIN version' = Files /\ version' = [f \in Files |-> version'[f]]
    BY <1>5 DEF TypeOK, Change
  <2>2. \A f \in Files : version'[f] \in Versions
    <3> SUFFICES ASSUME NEW f \in Files PROVE version'[f] \in 0..(MaxTroubles + 1)
      BY DEF Versions
    <3>1. version'[f] <= 1 + changes' /\ version'[f] \in Nat /\ changes' \in 0..MaxTroubles
      BY <1>4, <1>6
    <3>2. MaxTroubles \in Nat
      OBVIOUS
    <3> QED
      BY ONLY <3>1, <3>2
  <2> QED
    BY <2>1, <2>2
<1>8. calls' \in [Files -> 0..CallsCap]
  BY CallsTyped
<1> QED
  BY <1>3, <1>4, <1>6, <1>7, <1>8 DEF BoundInv

\* What threads make of the files are files.
FilesTyped ==
  /\ pre \in [Files -> Contents] /\ raw \in [Files -> Contents] /\ final \in [Files -> Contents]
  /\ work \in [Files -> BOOLEAN] /\ text \in [Files -> Contents]

LEMMA FilesOK ==
  ASSUME TypeOK, [Next]_vars
  PROVE  FilesTyped'
<1> USE DEF FilesTyped
<1>0. /\ FilesTyped
      /\ \A f \in Files : /\ Audio(f) \in Contents /\ Source(f) \in Contents
                          /\ Unclosed(Audio(f)) \in Contents /\ MadeFrom(Source(f)) \in Contents
                          /\ MadeFrom(raw[f]) \in Contents /\ Unclosed(text[f]) \in Contents
      /\ NoFile \in Contents
  BY AudioOK, ContentsOK DEF TypeOK
<1>1. ASSUME NEW f \in Files, Prepare(f) PROVE FilesTyped'
  <2>1. CASE NextFile(f) \/ Hash(f) \/ Duration(f) \/ Existing(f) \/ ConvertFails(f)
    BY <1>0, <2>1 DEF NextFile, Hash, Duration, Existing, ConvertFails, files, run
  <2>2. CASE Convert(f)
    <3>1. state[f].preprocessed \in BOOLEAN
      BY DEF TypeOK, Entries
    <3>2. work' \in [Files -> BOOLEAN]
      BY <2>2, <1>0, <3>1 DEF Convert
    <3>3. pre' \in [Files -> Contents]
      BY <2>2, <1>0 DEF Convert
    <3> QED
      BY <2>2, <1>0, <3>2, <3>3 DEF Convert
  <2>3. CASE Converted(f)
    <3>1. [pre[f] EXCEPT !.closed = TRUE] \in Contents
      BY <1>0, ContentsOK
    <3>2. pre' \in [Files -> Contents]
      BY <1>0, <2>3, <3>1 DEF Converted
    <3> QED
      BY <1>0, <2>3, <3>2 DEF Converted
  <2> QED
    BY <1>1, <2>1, <2>2, <2>3 DEF Prepare
<1>2. ASSUME NEW f \in Files, Work(f) PROVE FilesTyped'
  <2>1. CASE TakeTranscription(f) \/ TranscribeFails(f) \/ ReuseTranscript(f) \/ RecordRaw(f)
             \/ TakePostprocessing(f) \/ PostprocessFails(f) \/ WriteFails(f) \/ RecordFinal(f)
    BY <1>0, <2>1 DEF TakeTranscription, TranscribeFails, ReuseTranscript, RecordRaw,
                      TakePostprocessing, PostprocessFails, WriteFails, RecordFinal, files, run
  <2>2. CASE Transcribe(f) \/ LoadRaw(f)
    BY <1>0, <2>2 DEF Transcribe, LoadRaw, files
  <2>3. CASE WriteRaw(f) \/ WroteRaw(f)
    BY <1>0, <2>3 DEF WriteRaw, WroteRaw, run
  <2>4. CASE Postprocess(f) \/ WroteFinal(f)
    BY <1>0, <2>4 DEF Postprocess, WroteFinal, run
  <2> QED
    BY <1>2, <2>1, <2>2, <2>3, <2>4 DEF Work
<1>3. ASSUME NEW f \in Files, Change(f) \/ Lose(f) PROVE FilesTyped'
  BY <1>0, <1>3 DEF Change, Lose, files, run
<1>4. CASE EndUpdate \/ EndRun \/ Crash \/ UNCHANGED vars
  BY <1>0, <1>4 DEF EndUpdate, EndRun, Crash, vars, files, run
<1>5. ASSUME NEW s \in Stages, StartRun(s) PROVE FilesTyped'
  BY <1>0, <1>5 DEF StartRun, files
<1> QED
  BY <1>1, <1>2, <1>3, <1>4, <1>5 DEF Next, Step

\* The variables the threads share, and where they are.
ControlTyped ==
  /\ disk \in [Files -> Entries] /\ torn \in BOOLEAN
  /\ stage \in {"none", "all", "transcribe", "postprocess"}
  /\ state \in [Files -> Entries]
  /\ writer \in Files \cup {NoOne} /\ after \in Places
  /\ pc \in [Files -> Places]

\* Nobody saves between runs.
LEMMA NobodySaves ==
  ASSUME TypeOK, SaveInv, \A f \in Files : pc[f] # "saving"
  PROVE  writer = NoOne
BY DEF TypeOK, SaveInv

LEMMA ControlOK ==
  ASSUME TypeOK, SaveInv, [Next]_vars
  PROVE  ControlTyped' /\ SaveInv'
<1> USE DEF ControlTyped
<1>1. ASSUME NEW f \in Files, Prepare(f) \/ Work(f) PROVE ControlTyped' /\ SaveInv'
  <2>1. Turns(f)
    BY <1>1, PrepareTurns, WorkTurns
  <2> QED
    BY <2>1, TurnOK
<1>2. ASSUME NEW s \in Stages, StartRun(s) PROVE ControlTyped' /\ SaveInv'
  <2>1. Load \in [Files -> Entries] /\ (~torn => Load = disk)
    <3>1. NewEntry \in Entries \/ Files = {}
      BY EntriesOK
    <3> QED
      BY <3>1 DEF Load, TypeOK
  <2>2. writer = NoOne
    BY <1>2, NobodySaves DEF StartRun, SaveInv
  <2>3. s \in {"all", "transcribe", "postprocess"}
    BY PodscribeAssumption
  <2>4. ControlTyped'
    BY <1>2, <2>1, <2>3 DEF StartRun, TypeOK, Places, InPreparation
  <2>5. SaveInv'
    BY <1>2, <2>1, <2>2, <2>3, PodscribeAssumption DEF StartRun, SaveInv
  <2> QED
    BY <2>4, <2>5
<1>3. CASE EndUpdate
  <2>1. writer \in Files /\ pc' = [pc EXCEPT ![writer] = after] /\ writer' = NoOne
        /\ disk' = state /\ state' = state /\ torn' = FALSE /\ after' = "idle" /\ stage' = stage
    BY <1>3 DEF EndUpdate, Goto, TypeOK, run
  <2>2. ControlTyped'
    BY <2>1 DEF TypeOK, Places
  <2>3. stage # "none"
    BY <2>1 DEF SaveInv
  <2>4. \A g \in Files : pc'[g] # "saving" /\ writer' # g
    BY <2>1, PodscribeAssumption DEF SaveInv, TypeOK
  <2> QED
    BY <2>1, <2>2, <2>3, <2>4 DEF SaveInv
<1>4. CASE EndRun
  <2>1. writer = NoOne
    BY <1>4, NobodySaves DEF EndRun
  <2> QED
    BY <1>4, <2>1, PodscribeAssumption DEF EndRun, TypeOK, SaveInv, Places
<1>5. CASE Crash
  BY <1>5, PodscribeAssumption DEF Crash, TypeOK, SaveInv, Places
<1>6. CASE UNCHANGED <<disk, torn, stage, state, writer, after, pc>>
  BY <1>6 DEF TypeOK, SaveInv
<1>7. ASSUME NEW f \in Files, Change(f) \/ Lose(f)
      PROVE  UNCHANGED <<disk, torn, stage, state, writer, after, pc>>
  BY <1>7 DEF Change, Lose, run
<1>8. UNCHANGED vars => UNCHANGED <<disk, torn, stage, state, writer, after, pc>>
  BY DEF vars, run
<1> QED
  BY <1>1, <1>2, <1>3, <1>4, <1>5, <1>6, <1>7, <1>8 DEF Next, Step

LEMMA TypesOK ==
  ASSUME TypeOK, SaveInv, BoundInv, [Next]_vars
  PROVE  TypeOK' /\ SaveInv' /\ BoundInv'
BY CountsOK, CutOK, FilesOK, ControlOK DEF TypeOK, FilesTyped, ControlTyped

-----------------------------------------------------------------------------
(* The files. *)

\* A turn that leaves the files alone and leads to no place that needs them.
LEMMA FileTurn ==
  ASSUME TypeOK, FileInv, NEW f \in Files, NEW l, NEW e, Turn(f, l, e),
         UNCHANGED <<version, raw, final, text>>, \A g \in Files : Dated(pre[g])',
         l \notin {"write_raw", "raw_open", "raw_first", "raw_repeated", "edit", "final_open",
                   "final_closed"}
  PROVE  FileInv'
<1>1. ASSUME NEW g \in Files
      PROVE  (HasText(g)' => HasText(g)) /\ (HasRaw(g)' => HasRaw(g))
  BY DEF HasText, HasRaw, Turn
<1>2. ASSUME NEW g \in Files
      PROVE  pc'[g] = "final_closed" => pc'[g] = pc[g]
  BY DEF Turn, TypeOK
<1>3. \A g \in Files : Dated(raw[g])' /\ (Exists(raw[g]) => Exists(raw[g])')
  BY DEF FileInv, Dated, Exists
<1> QED
  BY <1>1, <1>2, <1>3 DEF FileInv

\* Places and texts of the threads that do not move.
LEMMA OthersKeep ==
  ASSUME TypeOK, NEW f \in Files, NEW l, NEW e, Turn(f, l, e)
  PROVE  /\ \A g \in Files \ {f} :
              pc'[g] = pc[g] /\ (HasText(g)' <=> HasText(g)) /\ (HasRaw(g)' <=> HasRaw(g))
         /\ HasText(f)' <=> l \in {"write_raw", "raw_open", "edit", "final_open"}
         /\ HasRaw(f)' <=> l \in {"raw_open", "raw_first", "raw_repeated", "edit", "final_open",
                                  "final_closed"}
         /\ pc'[f] \in {l, "saving"}
  BY DEF Turn, HasText, HasRaw, TypeOK

LEMMA FilePrepare ==
  ASSUME TypeOK, SaveInv, FileInv, NEW f \in Files, Prepare(f)
  PROVE  FileInv'
<1>0. (\A g \in Files : Dated(pre[g])) /\ (UNCHANGED pre => \A g \in Files : Dated(pre[g])')
  BY DEF FileInv, Dated
<1>1. CASE NextFile(f)
  BY <1>0, <1>1, GotoTurns, FileTurn DEF NextFile, files, run
<1>2. CASE Hash(f)
  BY <1>0, <1>2, GotoTurns, UpdateTurns, FileTurn DEF Hash, files, run
<1>3. CASE Duration(f)
  BY <1>0, <1>3, GotoTurns, UpdateTurns, FileTurn DEF Duration, files, run
<1>4. CASE Existing(f)
  BY <1>0, <1>4, GotoTurns, UpdateTurns, FileTurn DEF Existing, files, run
<1>5. CASE Convert(f)
  <2>1. \E l \in {"converting", "prepared"} : Turn(f, l, state[f])
    BY <1>5, GotoTurns DEF Convert
  <2>2. \A g \in Files : Dated(pre[g])'
    BY <1>0, <1>5 DEF Convert, Dated, Unclosed, Audio, FileInv, TypeOK
  <2> QED
    BY <1>5, <2>1, <2>2, FileTurn DEF Convert
<1>6. CASE Converted(f)
  <2>1. \E e : Turn(f, "prepared", e)
    BY <1>6, UpdateTurns DEF Converted
  <2>2. Dated(pre[f])'
    <3>1. CASE Exists(pre[f])
      <4>1. pre[f].version >= 1 /\ pre[f] \in Contents
        BY <1>0, <3>1 DEF Dated, Exists, TypeOK
      <4>2. [pre[f] EXCEPT !.closed = TRUE].version = pre[f].version
        BY <4>1 DEF Contents
      <4> QED
        BY <1>6, <3>1, <4>1, <4>2 DEF Converted, Dated, TypeOK
    <3>2. CASE ~Exists(pre[f])
      BY <1>6, <3>2 DEF Converted, Dated, Audio, FileInv, TypeOK
    <3> QED
      BY <3>1, <3>2
  <2>3. \A g \in Files : Dated(pre[g])'
    BY <1>0, <1>6, <2>2 DEF Converted, Dated, TypeOK
  <2> QED
    BY <1>6, <2>1, <2>3, FileTurn DEF Converted
<1>7. CASE ConvertFails(f)
  BY <1>0, <1>7, GotoTurns, UpdateTurns, FileTurn DEF ConvertFails, files, run
<1> QED
  BY <1>1, <1>2, <1>3, <1>4, <1>5, <1>6, <1>7 DEF Prepare

\* A transcript made from something that exists is complete and has its version.
LEMMA MadeOK ==
  ASSUME NEW c, Dated(c), Exists(c)
  PROVE  MadeFrom(c).closed /\ MadeFrom(c).version >= 1
BY DEF Dated, Exists, MadeFrom

LEMMA FileWork ==
  ASSUME TypeOK, SaveInv, FileInv, NEW f \in Files, Work(f)
  PROVE  FileInv'
<1>0. (\A g \in Files : Dated(pre[g])) /\ (UNCHANGED pre => \A g \in Files : Dated(pre[g])')
  BY DEF FileInv, Dated
<1>a. AfterTranscription \in {"transcribed", "done"}
  BY DEF AfterTranscription
<1>1. CASE TakeTranscription(f)
  BY <1>0, <1>1, GotoTurns, FileTurn DEF TakeTranscription, files, run
<1>2. CASE TakePostprocessing(f)
  BY <1>0, <1>2, GotoTurns, FileTurn DEF TakePostprocessing, files, run
<1>3. CASE TranscribeFails(f)
  BY <1>0, <1>a, <1>3, UpdateTurns, FileTurn DEF TranscribeFails, files, run
<1>4. CASE ReuseTranscript(f)
  BY <1>0, <1>a, <1>4, UpdateTurns, FileTurn DEF ReuseTranscript, files, run
<1>5. CASE RecordRaw(f)
  BY <1>0, <1>a, <1>5, UpdateTurns, FileTurn DEF RecordRaw, files, run
<1>6. CASE PostprocessFails(f)
  BY <1>0, <1>6, UpdateTurns, FileTurn DEF PostprocessFails, files, run
<1>7. CASE RecordFinal(f)
  BY <1>0, <1>7, UpdateTurns, FileTurn DEF RecordFinal, files, run
<1>b. CASE WriteFails(f)
  BY <1>0, <1>a, <1>b, UpdateTurns, FileTurn DEF WriteFails, files, run
<1>8. CASE Transcribe(f)
  <2>1. Turn(f, "write_raw", state[f]) /\ UNCHANGED <<version, pre, raw, final>>
    BY <1>8, GotoTurns DEF Transcribe, files
  <2>2. Dated(Source(f)) /\ Exists(Source(f))
    BY <1>8 DEF Transcribe, Source, FileInv, Audio, Dated
  <2>3. text' = [text EXCEPT ![f] = MadeFrom(Source(f))]
    BY <1>8 DEF Transcribe
  <2>4. text'[f].closed /\ text'[f].version >= 1
    BY <2>2, <2>3, MadeOK DEF TypeOK
  <2>5. \A g \in Files \ {f} : text'[g] = text[g]
    BY <2>3 DEF TypeOK
  <2> QED
    BY <2>1, <2>4, <2>5, OthersKeep DEF FileInv, Dated
<1>9. CASE LoadRaw(f)
  <2>1. CASE ~Exists(raw[f])
    BY <1>0, <1>9, <2>1, GotoTurns, UpdateTurns, FileTurn DEF LoadRaw, files
  <2>2. CASE Exists(raw[f])
    <3>1. Turn(f, "edit", Promoted(f)) /\ UNCHANGED <<version, pre, raw, final>>
      BY <1>9, <2>2, UpdateTurns DEF LoadRaw, files
    <3>2. text' = [text EXCEPT ![f] = MadeFrom(raw[f])]
      BY <1>9, <2>2 DEF LoadRaw
    <3>3. text'[f].closed /\ text'[f].version >= 1
      BY <2>2, <3>2, MadeOK DEF TypeOK, FileInv
    <3>4. \A g \in Files \ {f} : text'[g] = text[g]
      BY <3>2 DEF TypeOK
    <3>5. pc'[f] # "final_closed"
      BY <3>1, OthersKeep
    <3> QED
      BY <2>2, <3>1, <3>3, <3>4, <3>5, OthersKeep DEF FileInv, Dated, Exists
  <2> QED
    BY <2>1, <2>2
<1>10. CASE WriteRaw(f) \/ WroteRaw(f)
  <2>1. \E l \in {"raw_open", "raw_first", "raw_repeated"} :
          Turn(f, l, state[f]) /\ UNCHANGED <<version, pre, final, text>>
    BY <1>10, GotoTurns DEF WriteRaw, WroteRaw, run
  <2>2. text[f].version >= 1 /\ text[f] \in Contents
    <3>1. HasText(f)
      BY <1>10, <2>1 DEF HasText, Turn, WriteRaw, WroteRaw
    <3> QED
      BY <3>1 DEF FileInv, TypeOK
  <2>3. raw' \in {[raw EXCEPT ![f] = Unclosed(text[f])], [raw EXCEPT ![f] = text[f]]}
    BY <1>10 DEF WriteRaw, WroteRaw
  <2>4. raw'[f].version >= 1 /\ \A g \in Files \ {f} : raw'[g] = raw[g]
    <3>1. Unclosed(text[f]).version = text[f].version
      BY <2>2 DEF Unclosed, Contents
    <3> QED
      BY <2>2, <2>3, <3>1 DEF TypeOK
  <2>5. Exists(raw[f])' /\ Dated(raw[f])'
    BY <2>4 DEF Exists, NoFile, Dated
  <2>6. /\ pc'[f] \in {"raw_open", "raw_first", "raw_repeated", "saving"}
        /\ \A g \in Files \ {f} :
             pc'[g] = pc[g] /\ (HasText(g)' <=> HasText(g)) /\ (HasRaw(g)' <=> HasRaw(g))
    BY <2>1, OthersKeep
  <2>7. HasText(f) /\ UNCHANGED <<version, pre, final, text>>
    BY <1>10, <2>1 DEF HasText, Turn, WriteRaw, WroteRaw
  <2> QED
    BY <2>4, <2>5, <2>6, <2>7 DEF FileInv, Dated, Exists
<1>11. CASE Postprocess(f) \/ WroteFinal(f)
  <2>1. /\ UNCHANGED <<version, pre, raw, text>> /\ HasText(f) /\ HasRaw(f)
        /\ \/ Turn(f, "final_open", state[f])
           \/ Turn(f, "final_closed", state[f]) /\ final' = [final EXCEPT ![f] = text[f]]
        /\ \A g \in Files \ {f} : final'[g] = final[g]
    <3>1. CASE Postprocess(f)
      <4>1. Turn(f, "final_open", state[f]) /\ UNCHANGED <<version, pre, raw, text>>
        BY <3>1, GotoTurns DEF Postprocess, run
      <4> QED
        BY <3>1, <4>1 DEF Postprocess, HasText, HasRaw, Turn, TypeOK
    <3>2. CASE WroteFinal(f)
      <4>1. Turn(f, "final_closed", state[f]) /\ UNCHANGED <<version, pre, raw, text>>
        BY <3>2, GotoTurns DEF WroteFinal, run
      <4> QED
        BY <3>2, <4>1 DEF WroteFinal, HasText, HasRaw, Turn, TypeOK
    <3> QED
      BY <1>11, <3>1, <3>2
  <2>2. pc'[f] \in {"final_open", "final_closed", "saving"} /\ text[f].closed /\ text[f].version >= 1
    BY <2>1, OthersKeep DEF FileInv
  <2>3. pc'[f] = "final_closed" => final'[f].closed
    <3>1. CASE Turn(f, "final_open", state[f])
      BY <3>1, OthersKeep
    <3>2. CASE Turn(f, "final_closed", state[f]) /\ final' = [final EXCEPT ![f] = text[f]]
      BY <3>2, <2>2 DEF TypeOK
    <3> QED
      BY <2>1, <3>1, <3>2
  <2>4. \A g \in Files \ {f} :
          pc'[g] = pc[g] /\ (HasText(g)' <=> HasText(g)) /\ (HasRaw(g)' <=> HasRaw(g))
    BY <2>1, OthersKeep
  <2> QED
    BY <2>1, <2>2, <2>3, <2>4 DEF FileInv, Dated
<1> QED
  BY <1>1, <1>2, <1>3, <1>4, <1>5, <1>6, <1>7, <1>b, <1>8, <1>9, <1>10, <1>11 DEF Work

LEMMA FileStep ==
  ASSUME TypeOK, SaveInv, FileInv, [Next]_vars
  PROVE  FileInv'
<1>1. ASSUME NEW f \in Files, Prepare(f) \/ Work(f) PROVE FileInv'
  BY <1>1, FilePrepare, FileWork
<1>2. CASE EndUpdate
  <2>1. writer \in Files /\ pc' = [pc EXCEPT ![writer] = after] /\ writer' = NoOne
        /\ UNCHANGED <<version, pre, raw, final, text>>
    BY <1>2 DEF EndUpdate, Goto, TypeOK, files, run
  <2>2. after # "final_closed"
    BY DEF SaveInv
  <2>3. \A g \in Files : (HasText(g)' <=> HasText(g)) /\ (HasRaw(g)' <=> HasRaw(g))
    BY <2>1, PodscribeAssumption DEF HasText, HasRaw, Place, TypeOK
  <2>4. \A g \in Files : pc'[g] = "final_closed" => pc'[g] = pc[g]
    BY <2>1, <2>2 DEF TypeOK
  <2> QED
    BY <2>1, <2>3, <2>4 DEF FileInv, Dated, Exists
<1>3. ASSUME \A f \in Files : pc'[f] \in {"idle", "listed"}, writer' = NoOne,
             UNCHANGED <<version, pre, raw, final>>
      PROVE  FileInv'
  <2>1. \A g \in Files : ~HasText(g)' /\ ~HasRaw(g)'
    BY <1>3, PodscribeAssumption DEF HasText, HasRaw, Place
  <2> QED
    BY <1>3, <2>1 DEF FileInv, Dated, Exists
<1>4. CASE EndRun \/ Crash \/ (\E s \in Stages : StartRun(s))
  <2>1. writer' = NoOne
    BY <1>4, NobodySaves DEF EndRun, Crash, StartRun, SaveInv
  <2> QED
    BY <1>3, <1>4, <2>1 DEF EndRun, Crash, StartRun, files
<1>5. ASSUME NEW f \in Files, Change(f) PROVE FileInv'
  <2>1. \A g \in Files : version'[g] >= 1
    BY <1>5 DEF Change, FileInv, TypeOK, Versions
  <2> QED
    BY <1>5, <2>1 DEF Change, FileInv, Dated, Exists, HasText, HasRaw, Place, files, run
<1>6. ASSUME NEW f \in Files, Lose(f) PROVE FileInv'
  <2>1. \A g \in Files : pc'[g] = "idle"
    BY <1>6 DEF Lose, SaveInv
  <2>2. writer' = NoOne
    BY <1>6, NobodySaves DEF Lose, SaveInv
  <2>3. \A g \in Files : ~HasText(g)' /\ ~HasRaw(g)'
    BY <2>1, <2>2, PodscribeAssumption DEF HasText, HasRaw, Place
  <2>4. \A g \in Files : Dated(pre[g])' /\ Dated(raw[g])'
    BY <1>6 DEF Lose, FileInv, Dated, TypeOK
  <2> QED
    BY <1>6, <2>1, <2>3, <2>4 DEF Lose, FileInv, run
<1>7. CASE UNCHANGED vars
  BY <1>7 DEF vars, files, run, FileInv, Dated, Exists, HasText, HasRaw, Place
<1> QED
  BY <1>1, <1>2, <1>4, <1>5, <1>6, <1>7 DEF Next, Step

-----------------------------------------------------------------------------
(* The entries. *)

Closed == {"idle", "listed", "hash", "dropped", "done"}

\* What a turn to l must see to when it leaves the entry e: e is true of the
\* files, completed only at the end, and completed for good.
EntryOK(f, l, e) ==
  /\ l \in Closed \/ e.status # "completed"
  /\ e.status \in {"transcribed", "completed"} => Exists(raw'[f]) \/ losses > 0
  /\ e.status = "completed" => final'[f].closed
  /\ state[f].status = "completed" => e.status = "completed" \/ e.hash # state[f].hash
  /\ losses' = losses /\ \A g \in Files : Exists(raw[g]) => Exists(raw'[g])
  /\ \A g \in Files \ {f} : final'[g] = final[g]

LEMMA EntryTurn ==
  ASSUME TypeOK, SaveInv, ClaimInv, OpenInv,
         NEW f \in Files, NEW l, NEW e, Turn(f, l, e), EntryOK(f, l, e)
  PROVE  /\ ClaimInv' /\ OpenInv'
         /\ \A g \in Files : Status(g) = "completed" /\ state'[g].status # "completed"
                               => state'[g].hash # state[g].hash
<1>1. state'[f] = e /\ \A g \in Files \ {f} : state'[g] = state[g]
  BY DEF Turn, TypeOK
<1>2. True(state)'
  BY <1>1 DEF EntryOK, ClaimInv, True, Exists
<1>3. ~torn' => disk' = state'
  BY DEF Turn, SaveInv
<1>4. ClaimInv'
  BY <1>2, <1>3 DEF ClaimInv, True
<1>5. OpenInv'
  BY <1>1 DEF EntryOK, Turn, OpenInv, Status, Closed
<1> QED
  BY <1>1, <1>4, <1>5 DEF EntryOK, Status

\* An entry that is not touched stays true when the files are not touched.
LEMMA EntryKept ==
  ASSUME TypeOK, SaveInv, ClaimInv, OpenInv,
         NEW f \in Files, NEW l, l \in Closed \/ pc[f] \notin Closed,
         Turn(f, l, state[f]), UNCHANGED losses, UNCHANGED final,
         \A g \in Files : Exists(raw[g]) => Exists(raw'[g])
  PROVE  EntryOK(f, l, state[f])
BY DEF EntryOK, ClaimInv, True, Exists, Turn, OpenInv, Status, Closed

\* The fields of the entries the code writes.
LEMMA EntryFields ==
  ASSUME TypeOK, NEW f \in Files
  PROVE  /\ \A s \in Statuses : SetStatus(f, s).status = s /\ SetStatus(f, s).hash = state[f].hash
         /\ [NewEntry EXCEPT !.hash = version[f]].status = "new"
         /\ [NewEntry EXCEPT !.hash = version[f]].hash = version[f]
         /\ Promoted(f).status \in {"transcribed", state[f].status}
         /\ Status(f) # "completed" => Promoted(f).status # "completed"
<1>1. state[f] \in Entries
  BY DEF TypeOK
<1>2. \A s \in Statuses : SetStatus(f, s).status = s /\ SetStatus(f, s).hash = state[f].hash
  BY <1>1 DEF SetStatus, Entries
<1>3. /\ [NewEntry EXCEPT !.hash = version[f]].status = "new"
      /\ [NewEntry EXCEPT !.hash = version[f]].hash = version[f]
  BY DEF NewEntry
<1>4. SetStatus(f, "transcribed").status = "transcribed"
  BY <1>2 DEF Statuses
<1> QED
  BY <1>2, <1>3, <1>4 DEF Promoted, Status

\* Up to the hash of its file a thread may find a completed entry, not beyond.
EntryStep(f) == \E l, e : Turn(f, l, e) /\ EntryOK(f, l, e)

LEMMA EntryUnchanged ==
  ASSUME TypeOK, SaveInv, ClaimInv, OpenInv,
         NEW f \in Files, NEW l, l \in Closed \/ pc[f] \notin Closed,
         Turn(f, l, state[f]), UNCHANGED <<losses, final>>,
         \A g \in Files : Exists(raw[g]) => Exists(raw'[g])
  PROVE  EntryStep(f)
BY EntryKept DEF EntryStep

\* An entry written by a thread beyond the hash.
LEMMA EntryWritten ==
  ASSUME TypeOK, SaveInv, ClaimInv, OpenInv,
         NEW f \in Files, NEW l, NEW e, Turn(f, l, e), pc[f] \notin Closed,
         UNCHANGED <<losses, raw, final>>,
         e.status # "completed", e.status = "transcribed" => Exists(raw[f]) \/ losses > 0
  PROVE  EntryStep(f)
<1>1. state[f].status # "completed"
  BY DEF Turn, OpenInv, Status, Closed
<1> QED
  BY <1>1 DEF EntryStep, EntryOK

LEMMA EntryPrepare ==
  ASSUME TypeOK, SaveInv, ClaimInv, OpenInv, NEW f \in Files, Prepare(f)
  PROVE  EntryStep(f)
<1> USE DEF Closed
<1>0. \A g \in Files : Exists(raw[g]) => (UNCHANGED raw => Exists(raw'[g]))
  OBVIOUS
<1>1. CASE NextFile(f)
  BY <1>0, <1>1, GotoTurns, EntryUnchanged DEF NextFile, files, run, troubles
<1>2. CASE Hash(f)
  <2>1. UNCHANGED <<losses, raw, final>> /\ pc[f] = "hash"
    BY <1>2 DEF Hash, files, troubles
  <2>2. CASE state[f].hash = version[f]
    <3>1. CASE Skips(Status(f))
      <4>1. Turn(f, "dropped", state[f])
        BY <1>2, <2>2, <3>1, GotoTurns DEF Hash, run, Update
      <4> QED
        BY <1>0, <2>1, <4>1, EntryUnchanged
    <3>2. CASE ~Skips(Status(f))
      <4>1. Turn(f, "duration", state[f]) /\ Status(f) # "completed"
        BY <1>2, <2>2, <3>2, GotoTurns DEF Hash, run, Skips
      <4>2. EntryOK(f, "duration", state[f])
        BY <2>1, <4>1 DEF EntryOK, ClaimInv, True, Status
      <4> QED
        BY <4>1, <4>2 DEF EntryStep
    <3> QED
      BY <3>1, <3>2
  <2>3. CASE state[f].hash # version[f]
    <3> DEFINE e == [NewEntry EXCEPT !.hash = version[f]]
    <3>1. Turn(f, "duration", e)
      BY <1>2, <2>3, UpdateTurns DEF Hash, run
    <3>2. e.status = "new" /\ e.hash # state[f].hash
      BY <2>3, EntryFields
    <3> HIDE DEF e
    <3>3. EntryOK(f, "duration", e)
      BY <2>1, <3>2 DEF EntryOK
    <3> QED
      BY <3>1, <3>3 DEF EntryStep
  <2> QED
    BY <2>2, <2>3
<1>3. CASE Duration(f)
  BY <1>0, <1>3, GotoTurns, UpdateTurns, EntryUnchanged DEF Duration, files, run, troubles
<1>4. CASE Existing(f)
  <2>1. UNCHANGED <<losses, raw, final>> /\ pc[f] = "existing"
    BY <1>4 DEF Existing, files, troubles
  <2>2. CASE Status(f) \in {"new", "failed"} /\ Exists(raw[f])
    <3>1. Turn(f, "convert", Promoted(f))
      BY <1>4, <2>2, UpdateTurns DEF Existing, run
    <3> QED
      BY <2>1, <2>2, <3>1, EntryFields, EntryWritten
  <2>3. CASE ~(Status(f) \in {"new", "failed"} /\ Exists(raw[f]))
    <3>1. Turn(f, "convert", state[f])
      BY <1>4, <2>3, GotoTurns DEF Existing, run
    <3> QED
      BY <1>0, <2>1, <3>1, EntryUnchanged
  <2> QED
    BY <2>2, <2>3
<1>5. CASE Convert(f)
  <2>1. \E l \in {"converting", "prepared"} : Turn(f, l, state[f])
    BY <1>5, GotoTurns DEF Convert
  <2> QED
    BY <1>0, <1>5, <2>1, EntryUnchanged DEF Convert, troubles
<1>6. CASE Converted(f)
  <2> DEFINE e == [state[f] EXCEPT !.preprocessed = TRUE,
                                   !.status = IF @ \in {"new", "failed"} THEN "preprocessed" ELSE @]
  <2>1. Turn(f, "prepared", e) /\ UNCHANGED <<losses, raw, final>> /\ pc[f] = "converting"
    BY <1>6, UpdateTurns DEF Converted, troubles
  <2>2. e.status \in {"preprocessed", state[f].status}
    <3>1. state[f] \in Entries
      BY DEF TypeOK
    <3> QED
      BY <3>1 DEF Entries
  <2>3. state[f].status # "completed"
    BY <2>1 DEF Turn, OpenInv, Status
  <2>4. e.status = "transcribed" => Exists(raw[f]) \/ losses > 0
    BY <2>2 DEF ClaimInv, True
  <2> HIDE DEF e
  <2> QED
    BY <2>1, <2>2, <2>3, <2>4, EntryWritten
<1>7. CASE ConvertFails(f)
  <2>1. UNCHANGED <<losses, raw, final>> /\ pc[f] = "converting"
    BY <1>7 DEF ConvertFails, files
  <2>2. CASE Status(f) \in {"new", "failed"}
    <3>1. Turn(f, "dropped", SetStatus(f, "failed")) /\ SetStatus(f, "failed").status = "failed"
      BY <1>7, <2>2, UpdateTurns, EntryFields DEF ConvertFails, run, Statuses
    <3> QED
      BY <2>1, <3>1, EntryWritten
  <2>3. CASE Status(f) \notin {"new", "failed"}
    <3>1. Turn(f, "dropped", state[f])
      BY <1>7, <2>3, GotoTurns DEF ConvertFails, run
    <3> QED
      BY <1>0, <2>1, <3>1, EntryUnchanged
  <2> QED
    BY <2>2, <2>3
<1> QED
  BY <1>1, <1>2, <1>3, <1>4, <1>5, <1>6, <1>7 DEF Prepare

LEMMA EntryWork ==
  ASSUME TypeOK, SaveInv, FileInv, ClaimInv, OpenInv, NEW f \in Files, Work(f)
  PROVE  EntryStep(f)
<1> USE DEF Closed
<1>0. \A g \in Files : Exists(raw[g]) => (UNCHANGED raw => Exists(raw'[g]))
  OBVIOUS
<1>a. /\ AfterTranscription \in {"transcribed", "done"}
      /\ SetStatus(f, "failed").status = "failed"
      /\ SetStatus(f, "transcribed").status = "transcribed"
      /\ SetStatus(f, "completed").status = "completed"
  BY EntryFields DEF AfterTranscription, Statuses
<1>1. CASE TakeTranscription(f) \/ TakePostprocessing(f)
  BY <1>0, <1>1, GotoTurns, EntryUnchanged DEF TakeTranscription, TakePostprocessing, files, run,
                                               troubles
<1>2. CASE Transcribe(f)
  BY <1>0, <1>2, GotoTurns, EntryUnchanged DEF Transcribe, files, troubles
<1>3. CASE TranscribeFails(f)
  BY <1>a, <1>3, UpdateTurns, EntryWritten DEF TranscribeFails, files, run
<1>4. CASE PostprocessFails(f)
  BY <1>a, <1>4, UpdateTurns, EntryWritten DEF PostprocessFails, files, run
<1>b. CASE WriteFails(f)
  BY <1>a, <1>b, UpdateTurns, EntryWritten DEF WriteFails, files, run
<1>5. CASE ReuseTranscript(f)
  <2>1. /\ Turn(f, AfterTranscription, Promoted(f)) /\ UNCHANGED <<losses, raw, final>>
        /\ pc[f] = "transcribe" /\ Exists(raw[f])
    BY <1>5, UpdateTurns DEF ReuseTranscript, NeedsTranscriber, files, run, troubles
  <2>2. Status(f) # "completed"
    BY <2>1 DEF OpenInv, Turn
  <2> QED
    BY <2>1, <2>2, EntryFields, EntryWritten
<1>6. CASE WriteRaw(f) \/ WroteRaw(f)
  <2>1. \E l \in {"raw_open", "raw_first", "raw_repeated"} : Turn(f, l, state[f])
    BY <1>6, GotoTurns DEF WriteRaw, WroteRaw, run
  <2>2. Exists(raw'[f])
    <3>1. HasRaw(f)'
      BY <2>1, OthersKeep
    <3>2. FileInv'
      BY FileWork
    <3> QED
      BY <3>1, <3>2 DEF FileInv, Exists
  <2>3. \A g \in Files : Exists(raw[g]) => Exists(raw'[g])
    BY <1>6, <2>2 DEF WriteRaw, WroteRaw, TypeOK
  <2> QED
    BY <1>6, <2>1, <2>3, EntryUnchanged DEF WriteRaw, WroteRaw, troubles
<1>7. CASE RecordRaw(f)
  <2>1. /\ UNCHANGED <<losses, raw, final>> /\ pc[f] \in {"raw_first", "raw_repeated"}
        /\ \/ Turn(f, AfterTranscription, SetStatus(f, "transcribed"))
           \/ Turn(f, AfterTranscription, state[f])
    BY <1>7, UpdateTurns DEF RecordRaw, files, run, troubles
  <2>2. Exists(raw[f])
    BY <2>1 DEF FileInv, HasRaw, Turn
  <2> QED
    BY <1>0, <1>a, <2>1, <2>2, EntryWritten, EntryUnchanged
<1>8. CASE LoadRaw(f)
  <2>1. UNCHANGED <<losses, raw, final>> /\ pc[f] = "post"
    BY <1>8 DEF LoadRaw, files, troubles
  <2>2. CASE Exists(raw[f])
    <3>1. Turn(f, "edit", Promoted(f))
      BY <1>8, <2>2, UpdateTurns DEF LoadRaw
    <3>2. Status(f) # "completed"
      BY <2>1, <3>1 DEF OpenInv, Turn
    <3> QED
      BY <2>1, <2>2, <3>1, <3>2, EntryFields, EntryWritten
  <2>3. CASE ~Exists(raw[f])
    <3>1. Turn(f, "done", SetStatus(f, "failed")) \/ Turn(f, "done", state[f])
      BY <1>8, <2>3, UpdateTurns, GotoTurns DEF LoadRaw
    <3> QED
      BY <1>0, <1>a, <2>1, <3>1, EntryUnchanged, EntryWritten
  <2> QED
    BY <2>2, <2>3
<1>9. CASE Postprocess(f) \/ WroteFinal(f)
  <2>1. \E l \in {"final_open", "final_closed"} : Turn(f, l, state[f])
    BY <1>9, GotoTurns DEF Postprocess, WroteFinal, run
  <2>2. /\ UNCHANGED <<losses, raw>> /\ pc[f] \in {"edit", "final_open"}
        /\ \A g \in Files \ {f} : final'[g] = final[g]
    BY <1>9 DEF Postprocess, WroteFinal, TypeOK, troubles
  <2>3. state[f].status # "completed"
    BY <2>1, <2>2 DEF OpenInv, Turn, Status
  <2> QED
    BY <2>1, <2>2, <2>3 DEF EntryStep, EntryOK, ClaimInv, True
<1>10. CASE RecordFinal(f)
  <2>1. /\ Turn(f, "done", SetStatus(f, "completed")) /\ UNCHANGED <<losses, raw, final>>
        /\ pc[f] = "final_closed"
    BY <1>10, UpdateTurns DEF RecordFinal, files, run, troubles
  <2>2. Exists(raw[f]) /\ final[f].closed
    BY <2>1 DEF FileInv, HasRaw, Turn
  <2> QED
    BY <1>a, <2>1, <2>2 DEF EntryStep, EntryOK
<1> QED
  BY <1>1, <1>2, <1>3, <1>4, <1>b, <1>5, <1>6, <1>7, <1>8, <1>9, <1>10 DEF Work

LEMMA ClaimStep ==
  ASSUME TypeOK, SaveInv, FileInv, ClaimInv, OpenInv, [Next]_vars
  PROVE  ClaimInv' /\ OpenInv'
<1>1. ASSUME NEW f \in Files, Prepare(f) \/ Work(f) PROVE ClaimInv' /\ OpenInv'
  BY <1>1, EntryPrepare, EntryWork, EntryTurn DEF EntryStep
<1>2. CASE EndUpdate
  <2>1. writer \in Files /\ pc' = [pc EXCEPT ![writer] = after] /\ writer' = NoOne
        /\ state' = state /\ disk' = state /\ UNCHANGED <<raw, final, losses>>
    BY <1>2 DEF EndUpdate, Goto, TypeOK, files, troubles
  <2>2. \A g \in Files : Place(g)' = Place(g)
    BY <2>1, PodscribeAssumption DEF Place, TypeOK
  <2> QED
    BY <2>1, <2>2 DEF ClaimInv, True, OpenInv, Status, Exists
<1>3. ASSUME NEW s \in Stages, StartRun(s) PROVE ClaimInv' /\ OpenInv'
  <2>1. writer' = NoOne
    BY <1>3, NobodySaves DEF StartRun, SaveInv
  <2>2. \A f \in Files : Place(f)' = "listed"
    BY <1>3, <2>1, PodscribeAssumption DEF StartRun, Place
  <2>3. \/ state' = [f \in Files |-> NewEntry] /\ torn' /\ disk' = disk
        \/ state' = disk /\ ~torn /\ disk' = disk
    BY <1>3 DEF StartRun, Load, TypeOK
  <2> QED
    BY <1>3, <2>2, <2>3 DEF StartRun, ClaimInv, True, OpenInv, NewEntry, Exists, files, troubles
<1>4. CASE EndRun \/ Crash
  <2>1. writer' = NoOne
    BY <1>4, NobodySaves DEF EndRun, Crash
  <2>2. \A f \in Files : Place(f)' = "idle"
    BY <1>4, <2>1, PodscribeAssumption DEF EndRun, Crash, Place
  <2> QED
    BY <1>4, <2>2 DEF EndRun, Crash, ClaimInv, True, OpenInv, Exists, files, troubles
<1>5. ASSUME NEW f \in Files, Change(f) PROVE ClaimInv' /\ OpenInv'
  BY <1>5 DEF Change, ClaimInv, True, OpenInv, Status, Place, Exists, files
<1>6. ASSUME NEW f \in Files, Lose(f) PROVE ClaimInv' /\ OpenInv'
  <2>1. losses' > 0
    BY <1>6 DEF Lose, TypeOK
  <2> QED
    BY <1>6, <2>1 DEF Lose, ClaimInv, True, OpenInv, Status, Place
<1>7. CASE UNCHANGED vars
  BY <1>7 DEF vars, files, troubles, ClaimInv, True, OpenInv, Status, Place, Exists
<1> QED
  BY <1>1, <1>2, <1>3, <1>4, <1>5, <1>6, <1>7 DEF Next, Step

-----------------------------------------------------------------------------
(* Whole files.  Only what is stopped half-way breaks them, and only its own. *)

\* What is made of whole files is whole.
LEMMA MadeWhole ==
  ASSUME NEW c, Whole(c)
  PROVE  Whole(MadeFrom(c))
BY DEF Whole, MadeFrom

\* It is enough to look at the file whose thread took the turn.
LEMMA WholeTurn ==
  ASSUME TypeOK, SaveInv, WholeInv, cut \subseteq cut',
         NEW f \in Files, NEW l, NEW e, Turn(f, l, e), f \notin cut' => WholeFile(f)',
         \A g \in Files \ {f} : UNCHANGED <<pre[g], raw[g], text[g], final[g]>>
  PROVE  WholeInv'
<1>1. ASSUME NEW g \in Files \ {f}, g \notin cut' PROVE WholeFile(g)'
  <2>1. /\ pc'[g] = pc[g] /\ (HasText(g)' <=> HasText(g)) /\ state'[g] = state[g]
        /\ Place(g)' = Place(g) /\ stage' = stage /\ stage # "none"
    BY OthersKeep DEF Turn, TypeOK
  <2>2. WholeFile(g)
    BY <1>1 DEF WholeInv
  <2>3. PartOfPre(g)' <=> PartOfPre(g)
    BY <2>1 DEF PartOfPre, Unused, MadeAgain, Known, Status
  <2> QED
    BY <2>1, <2>2, <2>3 DEF WholeFile, Status, Whole
<1>2. \A g \in Files : g \notin cut' => WholeFile(g)'
  BY <1>1
<1>3. ~torn' => disk' = state'
  BY DEF Turn, SaveInv
<1> QED
  BY <1>2, <1>3 DEF WholeInv, WholeFile, Status, Whole

\* A turn that leaves the files alone, and leaves unused what was.
LEMMA WholeKept ==
  ASSUME TypeOK, SaveInv, WholeInv,
         NEW f \in Files, NEW l, NEW e, Turn(f, l, e), UNCHANGED <<pre, raw, text, final>>,
         l \notin {"write_raw", "raw_open", "edit", "final_open", "final_closed"},
         pc[f] \notin {"converting", "raw_open"},
         raw[f] = NoFile /\ MadeAgain(state[f].status, pc[f]) => MadeAgain(e.status, l),
         e.status = "completed" => state[f].status = "completed" \/ pc[f] = "final_closed",
         f \notin cut
  PROVE  WholeFile(f)'
<1>1. pc'[f] \in {l, "saving"} /\ ~HasText(f)' /\ state'[f] = e
  BY OthersKeep DEF Turn, TypeOK
<1>2. WholeFile(f)
  BY DEF WholeInv
<1>3. PartOfPre(f) => PartOfPre(f)'
  <2>1. /\ Place(f) = pc[f] /\ Place(f)' = l /\ stage' = stage
        /\ Known(f) = state[f].status /\ Known(f)' = e.status
    BY <1>1 DEF Turn, Known, Status
  <2> QED
    BY <2>1 DEF PartOfPre, Unused, MadeAgain
<1> QED
  BY <1>1, <1>2, <1>3 DEF WholeFile, Status, Whole

LEMMA WholePrepare ==
  ASSUME TypeOK, SaveInv, WholeInv, PlaceInv, [Next]_vars, NEW f \in Files, Prepare(f)
  PROVE  WholeInv'
<1>0. /\ \A s \in Statuses : SetStatus(f, s).status = s
      /\ [NewEntry EXCEPT !.hash = version[f]].status = "new"
      /\ Promoted(f).status \in {"transcribed", state[f].status}
      /\ cut \subseteq cut' /\ (f \notin cut' => WholeFile(f))
  BY EntryFields, CutOK DEF WholeInv
<1>1. ASSUME NEW l, NEW e, Turn(f, l, e), f \notin cut' => WholeFile(f)',
             \A g \in Files \ {f} : UNCHANGED <<pre[g], raw[g], text[g], final[g]>>
      PROVE  WholeInv'
  BY <1>0, <1>1, WholeTurn
<1>2. ASSUME NEW l \in {"hash", "dropped", "duration", "existing", "convert", "prepared"}, NEW e,
             Turn(f, l, e), UNCHANGED <<pre, raw, text, final>>,
             pc[f] \notin {"converting", "raw_open"},
             raw[f] = NoFile /\ MadeAgain(state[f].status, pc[f]) => MadeAgain(e.status, l),
             e.status = "completed" => state[f].status = "completed"
      PROVE  WholeInv'
  <2>1. f \notin cut' => WholeFile(f)'
    BY <1>0, <1>2, WholeKept
  <2> QED
    BY <1>1, <1>2, <2>1
<1>3. CASE NextFile(f)
  <2>1. Turn(f, "hash", state[f]) /\ pc[f] = "listed"
    BY <1>3, GotoTurns DEF NextFile, run
  <2> QED
    BY <1>2, <1>3, <2>1 DEF NextFile, files, run, MadeAgain, Early
<1>4. CASE Hash(f)
  <2>1. /\ \/ \E l \in {"dropped", "duration"} : Turn(f, l, state[f])
           \/ Turn(f, "duration", [NewEntry EXCEPT !.hash = version[f]])
        /\ UNCHANGED <<pre, raw, text, final>> /\ pc[f] = "hash"
    BY <1>4, GotoTurns, UpdateTurns DEF Hash, files, run
  <2> QED
    BY <1>0, <1>2, <2>1 DEF MadeAgain, Early
<1>5. CASE Duration(f)
  <2>1. /\ \E l \in {"existing", "prepared"} :
             Turn(f, l, state[f]) /\ (l = "prepared" => stage = "postprocess")
        /\ UNCHANGED <<pre, raw, text, final>> /\ pc[f] = "duration"
    BY <1>5, GotoTurns, UpdateTurns DEF Duration, files, run
  <2> QED
    BY <1>2, <2>1 DEF MadeAgain, Early
<1>6. CASE Existing(f)
  <2>1. /\ Turn(f, "convert", state[f]) \/ (Turn(f, "convert", Promoted(f)) /\ raw[f] # NoFile)
        /\ UNCHANGED <<pre, raw, text, final>> /\ pc[f] = "existing"
    BY <1>6, GotoTurns, UpdateTurns DEF Existing, files, run, Exists
  <2> QED
    BY <1>0, <1>2, <2>1 DEF MadeAgain, Early
<1>7. CASE Convert(f)
  <2>1. CASE Goto(f, "prepared") /\ UNCHANGED pre /\ Status(f) \notin {"new", "failed"}
    <3>1. /\ Turn(f, "prepared", state[f]) /\ UNCHANGED <<pre, raw, text, final>>
          /\ pc[f] = "convert"
      BY <1>7, <2>1, GotoTurns DEF Convert
    <3> QED
      BY <1>2, <2>1, <3>1 DEF MadeAgain, Status
  <2>2. ASSUME NEW chunks \in {NoFile, Unclosed(Audio(f))},
               pre' = [pre EXCEPT ![f] = chunks], Goto(f, "converting")
        PROVE  WholeInv'
    <3>1. /\ Turn(f, "converting", state[f]) /\ pc'[f] = "converting"
          /\ UNCHANGED <<raw, final, text>> /\ pc[f] = "convert"
      BY <1>7, <2>2, GotoTurns DEF Convert, Goto, TypeOK
    <3>2. pre'[f] = NoFile \/ pre'[f].sound
      BY <2>2 DEF Unclosed, Audio, TypeOK
    <3>3. state'[f] = state[f] /\ ~HasText(f)'
      BY <3>1, OthersKeep DEF Turn, TypeOK
    <3>4. f \notin cut' => WholeFile(f)'
      BY <1>0, <3>1, <3>2, <3>3 DEF WholeFile, PartOfPre, Status, Whole
    <3> QED
      BY <1>1, <2>2, <3>1, <3>4 DEF TypeOK
  <2> QED
    BY <1>7, <2>1, <2>2 DEF Convert
<1>8. CASE Converted(f)
  <2> DEFINE e == [state[f] EXCEPT !.preprocessed = TRUE,
                                   !.status = IF @ \in {"new", "failed"} THEN "preprocessed" ELSE @]
  <2>1. Turn(f, "prepared", e) /\ pc[f] = "converting" /\ UNCHANGED <<raw, text, final>>
    BY <1>8, UpdateTurns DEF Converted
  <2>2. e.status \in {"preprocessed", state[f].status}
    <3>1. state[f] \in Entries
      BY DEF TypeOK
    <3> QED
      BY <3>1 DEF Entries
  <2> HIDE DEF e
  <2>3. f \notin cut' => Whole(pre'[f])
    <3>1. ASSUME Exists(pre[f]), f \notin cut' PROVE Whole(pre'[f])
      <4>1. pre[f].sound /\ pre[f] \in Contents
        BY <1>0, <3>1 DEF WholeFile, PartOfPre, Exists, Whole, TypeOK
      <4>2. pre'[f] = [pre[f] EXCEPT !.closed = TRUE]
        BY <1>8, <3>1 DEF Converted, TypeOK
      <4> QED
        BY <4>1, <4>2 DEF Whole, Contents
    <3>2. CASE ~Exists(pre[f])
      BY <1>8, <3>2 DEF Converted, TypeOK, Audio, Whole
    <3> QED
      BY <3>1, <3>2
  <2>4. state'[f] = e /\ ~HasText(f)' /\ pc'[f] \in {"prepared", "saving"}
    BY <2>1, OthersKeep DEF Turn, TypeOK
  <2>5. f \notin cut' => WholeFile(f)'
    BY <1>0, <2>1, <2>2, <2>3, <2>4 DEF WholeFile, Status, Whole
  <2> QED
    BY <1>1, <1>8, <2>1, <2>5 DEF Converted, TypeOK
<1>9. CASE ConvertFails(f)
  <2>1. /\ UNCHANGED <<pre, raw, text, final>> /\ pc[f] = "converting"
        /\ cut' = cut \cup {g \in {f} : LeavesPart(g)}
    BY <1>9 DEF ConvertFails, Cut, files, run
  <2>2. CASE Status(f) \in {"new", "failed"}
    <3>1. Turn(f, "dropped", SetStatus(f, "failed"))
      BY <1>9, <2>2, UpdateTurns DEF ConvertFails, run
    <3>2. state'[f].status = "failed" /\ ~HasText(f)' /\ pc'[f] \in {"dropped", "saving"}
      <4>1. SetStatus(f, "failed").status = "failed"
        BY DEF SetStatus, TypeOK, Entries
      <4>2. state'[f] = SetStatus(f, "failed") /\ pc'[f] \in {"dropped", "saving"}
        BY <3>1 DEF Turn, TypeOK
      <4>3. ~HasText(f)'
        BY <3>1 DEF Turn, HasText
      <4> QED
        BY <4>1, <4>2, <4>3
    <3>3. raw'[f] = NoFile /\ Known(f)' = "failed" /\ Place(f)' = "dropped"
      BY <2>1, <2>2, <3>1, <3>2 DEF PlaceInv, PlaceOK, Turn, Known, Status, Exists
    <3>4. PartOfPre(f) => PartOfPre(f)'
      BY <2>1, <3>3 DEF PartOfPre, Unused, MadeAgain, Early
    <3>5. f \notin cut' => WholeFile(f)'
      BY <1>0, <2>1, <3>2, <3>3, <3>4 DEF WholeFile, Status, Whole
    <3> QED
      BY <1>1, <2>1, <3>1, <3>5
  <2>3. CASE Status(f) \notin {"new", "failed"}
    <3>1. Turn(f, "dropped", state[f])
      BY <1>9, <2>3, GotoTurns DEF ConvertFails, run
    <3>2. f \in cut'
      BY <2>1, <2>3 DEF LeavesPart
    <3> QED
      BY <1>1, <2>1, <3>1, <3>2
  <2> QED
    BY <2>2, <2>3
<1> QED
  BY <1>3, <1>4, <1>5, <1>6, <1>7, <1>8, <1>9 DEF Prepare

LEMMA WholeWork ==
  ASSUME TypeOK, SaveInv, WholeInv, [Next]_vars, NEW f \in Files, Work(f)
  PROVE  WholeInv'
<1>0. /\ SetStatus(f, "failed").status = "failed"
      /\ SetStatus(f, "transcribed").status = "transcribed"
      /\ Promoted(f).status \in {"transcribed", state[f].status}
      /\ AfterTranscription \in {"transcribed", "done"}
      /\ cut \subseteq cut' /\ (f \notin cut' => WholeFile(f))
  BY EntryFields, CutOK DEF WholeInv, AfterTranscription, Statuses
<1>1. ASSUME NEW l, NEW e, Turn(f, l, e), f \notin cut' => WholeFile(f)',
             \A g \in Files \ {f} : UNCHANGED <<pre[g], raw[g], text[g], final[g]>>
      PROVE  WholeInv'
  BY <1>0, <1>1, WholeTurn
<1>2. ASSUME NEW l \in {"transcribe", "post", "transcribed", "done"}, NEW e,
             Turn(f, l, e), UNCHANGED <<pre, raw, text, final>>,
             pc[f] \notin {"converting", "raw_open"},
             raw[f] = NoFile /\ MadeAgain(state[f].status, pc[f]) => MadeAgain(e.status, l),
             e.status = "completed" => state[f].status = "completed" \/ pc[f] = "final_closed"
      PROVE  WholeInv'
  <2>1. f \notin cut' => WholeFile(f)'
    BY <1>0, <1>2, WholeKept
  <2> QED
    BY <1>1, <1>2, <2>1
<1>a. pc[f] \in InTranscription \cup {"transcribed", "edit", "final_open", "final_closed"}
        => \A s : ~MadeAgain(s, pc[f])
  BY DEF MadeAgain, Early, InTranscription
<1>b. pc[f] \in InTranscription \cup {"edit", "final_open", "final_closed"}
        => (Place(f) = pc[f] => ~PartOfPre(f))
  BY <1>a DEF PartOfPre, Unused, InTranscription
<1>3. CASE TakeTranscription(f)
  <2>1. /\ Turn(f, "transcribe", state[f]) /\ UNCHANGED <<pre, raw, text, final>>
        /\ pc[f] = "prepared" /\ stage # "postprocess"
    BY <1>3, GotoTurns DEF TakeTranscription, files, run
  <2> QED
    BY <1>2, <2>1 DEF MadeAgain, Early
<1>4. CASE TakePostprocessing(f)
  <2>1. /\ \E l \in {"done", "post"} : Turn(f, l, state[f])
        /\ UNCHANGED <<pre, raw, text, final>>
        /\ pc[f] = "transcribed" \/ (pc[f] = "prepared" /\ stage = "postprocess")
    BY <1>4, GotoTurns DEF TakePostprocessing, files, run
  <2> QED
    BY <1>2, <1>a, <2>1 DEF MadeAgain, Early
<1>5. CASE TranscribeFails(f)
  <2>1. /\ Turn(f, AfterTranscription, SetStatus(f, "failed"))
        /\ UNCHANGED <<pre, raw, text, final>> /\ pc[f] = "transcribe"
    BY <1>5, UpdateTurns DEF TranscribeFails, files, run
  <2> QED
    BY <1>0, <1>2, <1>a, <2>1 DEF InTranscription
<1>6. CASE ReuseTranscript(f)
  <2>1. /\ Turn(f, AfterTranscription, Promoted(f))
        /\ UNCHANGED <<pre, raw, text, final>> /\ pc[f] = "transcribe"
    BY <1>6, UpdateTurns DEF ReuseTranscript, files, run
  <2> QED
    BY <1>0, <1>2, <1>a, <2>1 DEF InTranscription
<1>7. CASE RecordRaw(f)
  <2>1. /\ \/ Turn(f, AfterTranscription, SetStatus(f, "transcribed"))
           \/ Turn(f, AfterTranscription, state[f])
        /\ UNCHANGED <<pre, raw, text, final>> /\ pc[f] \in {"raw_first", "raw_repeated"}
    BY <1>7, UpdateTurns DEF RecordRaw, files, run
  <2> QED
    BY <1>0, <1>2, <1>a, <2>1 DEF InTranscription
<1>8. CASE PostprocessFails(f)
  <2>1. /\ Turn(f, "done", SetStatus(f, "failed"))
        /\ UNCHANGED <<pre, raw, text, final>> /\ pc[f] = "edit"
    BY <1>8, UpdateTurns DEF PostprocessFails, files, run
  <2> QED
    BY <1>0, <1>2, <1>a, <2>1
<1>9. CASE RecordFinal(f)
  <2>1. /\ Turn(f, "done", SetStatus(f, "completed"))
        /\ UNCHANGED <<pre, raw, text, final>> /\ pc[f] = "final_closed"
    BY <1>9, UpdateTurns DEF RecordFinal, files, run
  <2> QED
    BY <1>2, <1>a, <2>1
<1>c. CASE WriteFails(f)
  <2> DEFINE l == IF pc[f] = "raw_open" THEN AfterTranscription ELSE "done"
  <2>1. /\ Turn(f, l, SetStatus(f, "failed")) /\ UNCHANGED <<pre, raw, text, final>>
        /\ pc[f] \in {"raw_open", "final_open"}
        /\ cut' = cut \cup {g \in {f} : LeavesPart(g)}
    BY <1>c, UpdateTurns DEF WriteFails, Cut, files, run
  <2>2. CASE pc[f] = "raw_open"
    <3>1. f \in cut'
      BY <2>1, <2>2 DEF LeavesPart
    <3> HIDE DEF l
    <3> QED
      BY <1>1, <2>1, <3>1
  <2>3. CASE pc[f] = "final_open"
    BY <1>0, <1>2, <1>a, <2>1, <2>3
  <2> QED
    BY <2>1, <2>2, <2>3
<1>10. ASSUME NEW c, f \notin cut' => Whole(c), text' = [text EXCEPT ![f] = MadeFrom(c)],
              UNCHANGED <<pre, raw, final>>, pc[f] \in {"transcribe", "post"}, ~PartOfPre(f),
              \/ Turn(f, "write_raw", state[f])
              \/ Turn(f, "edit", Promoted(f))
       PROVE  WholeInv'
  <2>1. f \notin cut' => Whole(text'[f])
    BY <1>10, MadeWhole DEF TypeOK
  <2>2. pc'[f] \in {"write_raw", "edit", "saving"}
    BY <1>10, OthersKeep
  <2>3. Status(f)' = "completed" => Status(f) = "completed"
    BY <1>0, <1>10 DEF Status, Turn, TypeOK
  <2>4. f \notin cut' => WholeFile(f)'
    BY <1>0, <1>10, <2>1, <2>2, <2>3 DEF WholeFile, Whole
  <2> QED
    BY <1>1, <1>10, <2>4 DEF TypeOK
<1>11. CASE Transcribe(f)
  <2>1. /\ Turn(f, "write_raw", state[f]) /\ Exists(Source(f)) /\ pc[f] = "transcribe"
        /\ text' = [text EXCEPT ![f] = MadeFrom(Source(f))] /\ UNCHANGED <<pre, raw, final>>
    BY <1>11, GotoTurns DEF Transcribe, files
  <2>2. ~PartOfPre(f)
    BY <1>b, <2>1 DEF Turn, InTranscription
  <2>3. f \notin cut' => Whole(Source(f))
    BY <1>0, <2>1, <2>2 DEF WholeFile, Source, Audio, Whole, Exists
  <2> QED
    BY <1>10, <2>1, <2>2, <2>3
<1>12. CASE LoadRaw(f)
  <2>1. CASE Exists(raw[f])
    <3>1. /\ Turn(f, "edit", Promoted(f)) /\ pc[f] = "post"
          /\ text' = [text EXCEPT ![f] = MadeFrom(raw[f])] /\ UNCHANGED <<pre, raw, final>>
      BY <1>12, <2>1, UpdateTurns DEF LoadRaw, files
    <3>2. f \notin cut' => Whole(raw[f])
      BY <1>0, <2>1, <3>1 DEF WholeFile, Exists
    <3>3. ~PartOfPre(f)
      BY <2>1, <3>1 DEF PartOfPre, Unused, Exists
    <3> QED
      BY <1>10, <3>1, <3>2, <3>3
  <2>2. CASE ~Exists(raw[f])
    <3>1. /\ \/ Turn(f, "done", SetStatus(f, "failed"))
             \/ Turn(f, "done", state[f])
          /\ UNCHANGED <<pre, raw, text, final>> /\ pc[f] = "post"
      BY <1>12, <2>2, GotoTurns, UpdateTurns DEF LoadRaw, files
    <3> QED
      BY <1>0, <1>2, <3>1 DEF MadeAgain, Early
  <2> QED
    BY <2>1, <2>2
<1>13. CASE WriteRaw(f) \/ WroteRaw(f)
  <2>1. /\ \/ Turn(f, "raw_open", state[f]) /\ pc'[f] = "raw_open"
           \/ raw' = [raw EXCEPT ![f] = text[f]]
        /\ \E l \in {"raw_open", "raw_first", "raw_repeated"} : Turn(f, l, state[f])
        /\ UNCHANGED <<pre, text, final>> /\ HasText(f)
        /\ \A g \in Files \ {f} : raw'[g] = raw[g]
    <3>1. CASE WriteRaw(f)
      <4>1. Turn(f, "raw_open", state[f])
        BY <3>1, GotoTurns DEF WriteRaw, run
      <4> QED
        BY <3>1, <4>1 DEF WriteRaw, Goto, Turn, HasText, TypeOK, run
    <3>2. CASE WroteRaw(f)
      <4>1. \E l \in {"raw_first", "raw_repeated"} : Turn(f, l, state[f])
        BY <3>2, GotoTurns DEF WroteRaw, run
      <4> QED
        BY <3>2, <4>1 DEF WroteRaw, Turn, HasText, TypeOK, run
    <3> QED
      BY <1>13, <3>1, <3>2
  <2>2. f \notin cut' => Whole(text[f])
    BY <1>0, <2>1 DEF WholeFile
  <2>3. f \notin cut' => Whole(raw'[f]) \/ pc'[f] = "raw_open"
    BY <2>1, <2>2 DEF TypeOK
  <2>4. pc'[f] \in {"raw_open", "raw_first", "raw_repeated", "saving"} /\ state'[f] = state[f]
    BY <2>1, OthersKeep DEF Turn, TypeOK
  <2>5. pc[f] \in {"write_raw", "raw_open"} /\ ~PartOfPre(f)
    BY <1>13, <1>b, <2>1 DEF WriteRaw, WroteRaw, Turn, InTranscription
  <2>6. f \notin cut' => WholeFile(f)'
    BY <1>0, <2>1, <2>2, <2>3, <2>4, <2>5 DEF WholeFile, Status, Whole
  <2> QED
    BY <1>1, <2>1, <2>6
<1>14. CASE Postprocess(f)
  <2>1. /\ Turn(f, "final_open", state[f]) /\ UNCHANGED <<pre, raw, text>>
        /\ pc[f] = "edit" /\ Status(f) # "completed" /\ HasText(f) /\ ~PartOfPre(f)
    BY <1>14, <1>b, GotoTurns DEF Postprocess, run, Turn, HasText
  <2>2. pc'[f] \in {"final_open", "saving"} /\ state'[f] = state[f]
    BY <2>1, OthersKeep DEF Turn, TypeOK
  <2>3. f \notin cut' => WholeFile(f)'
    BY <1>0, <2>1, <2>2 DEF WholeFile, Status, Whole
  <2> QED
    BY <1>1, <1>14, <2>1, <2>3 DEF Postprocess, TypeOK
<1>15. CASE WroteFinal(f)
  <2>1. /\ Turn(f, "final_closed", state[f]) /\ UNCHANGED <<pre, raw, text>>
        /\ pc[f] = "final_open" /\ HasText(f) /\ ~PartOfPre(f)
    BY <1>15, <1>b, GotoTurns DEF WroteFinal, run, Turn, HasText
  <2>2. f \notin cut' => Whole(final'[f])
    BY <1>0, <1>15, <2>1 DEF WroteFinal, WholeFile, TypeOK
  <2>3. pc'[f] \in {"final_closed", "saving"}
    BY <2>1, OthersKeep
  <2>4. f \notin cut' => WholeFile(f)'
    BY <1>0, <2>1, <2>2, <2>3 DEF WholeFile, Whole
  <2> QED
    BY <1>1, <1>15, <2>1, <2>4 DEF WroteFinal, TypeOK
<1> QED
  BY <1>3, <1>4, <1>5, <1>6, <1>7, <1>8, <1>9, <1>c, <1>11, <1>12, <1>13, <1>14, <1>15 DEF Work

\* Where no thread is at work, the files are as whole as what is recorded of
\* them, and what was unused is.
LEMMA WholeAtRest ==
  ASSUME WholeInv, cut \subseteq cut',
         \A g \in Files : g \notin cut' => pc[g] # "raw_open" /\ (PartOfPre(g) => Unused(g)),
         \A g \in Files : Unused(g) => Unused(g)',
         \A g \in Files : ~HasText(g)' /\ pc'[g] # "final_closed",
         \A g \in Files : /\ pre'[g] \in {pre[g], NoFile} /\ raw'[g] \in {raw[g], NoFile}
                          /\ final'[g] = final[g],
         \/ state' = state
         \/ \A g \in Files : Status(g)' = "completed" => ~torn /\ disk[g].status = "completed",
         UNCHANGED <<disk, torn>>
  PROVE  WholeInv'
<1> SUFFICES ASSUME NEW g \in Files, g \notin cut'
             PROVE  WholeFile(g)' /\ (~torn' /\ disk'[g].status = "completed" => Whole(final'[g]))
  BY DEF WholeInv, Whole
<1>1. /\ WholeFile(g) /\ pc[g] # "raw_open" /\ (PartOfPre(g) => Unused(g))
      /\ ~torn /\ disk[g].status = "completed" => Whole(final[g])
  BY DEF WholeInv
<1>2. Status(g)' = "completed" => Whole(final[g])
  BY <1>1 DEF WholeFile, Status
<1>3. Whole(pre[g])' \/ pre'[g] = NoFile \/ PartOfPre(g)'
  BY <1>1 DEF WholeFile, Whole, PartOfPre
<1>4. Whole(raw[g])' \/ raw'[g] = NoFile
  BY <1>1 DEF WholeFile, Whole
<1> QED
  BY <1>1, <1>2, <1>3, <1>4 DEF WholeFile, Whole

LEMMA WholeStep ==
  ASSUME TypeOK, SaveInv, WholeInv, PlaceInv, [Next]_vars
  PROVE  WholeInv'
<1>0. cut \subseteq cut'
  BY CutOK
<1>1. ASSUME NEW f \in Files, Prepare(f) \/ Work(f) PROVE WholeInv'
  BY <1>1, WholePrepare, WholeWork
<1>2. CASE EndUpdate
  <2>1. writer \in Files /\ pc' = [pc EXCEPT ![writer] = after] /\ writer' = NoOne
        /\ state' = state /\ disk' = state /\ UNCHANGED <<pre, raw, final, text, stage>>
    BY <1>2 DEF EndUpdate, Goto, TypeOK, files, run
  <2>2. /\ pc[writer] = "saving" /\ after \notin {"converting", "raw_open", "final_closed"}
        /\ stage # "none"
    BY <2>1 DEF SaveInv
  <2>3. ASSUME NEW g \in Files, g \notin cut'
        PROVE  WholeFile(g)' /\ (disk'[g].status = "completed" => Whole(final'[g]))
    <3>1. Place(g)' = Place(g)
      BY <2>1, PodscribeAssumption DEF Place, TypeOK
    <3>2. /\ pc[g] \in {"converting", "raw_open", "final_closed"} => pc'[g] = pc[g]
          /\ pc'[g] = "final_closed" => pc[g] = "final_closed"
      BY <2>1, <2>2 DEF TypeOK
    <3>3. WholeFile(g)
      BY <1>0, <2>3 DEF WholeInv
    <3>4. PartOfPre(g) => PartOfPre(g)'
      BY <2>1, <2>2, <3>1, <3>2 DEF PartOfPre, Unused, MadeAgain, Known, Status
    <3> QED
      BY <2>1, <3>1, <3>2, <3>3, <3>4 DEF WholeFile, HasText, Status, Whole
  <2> QED
    BY <2>3 DEF WholeInv, Whole
<1>3. ASSUME NEW s \in Stages, StartRun(s) PROVE WholeInv'
  <2>1. writer' = NoOne /\ writer = NoOne
    BY <1>3, NobodySaves DEF StartRun, SaveInv
  <2>2. \A g \in Files : Place(g)' = "listed" /\ pc'[g] = "listed" /\ pc[g] = "idle"
    BY <1>3, <2>1, PodscribeAssumption DEF StartRun, Place, SaveInv
  <2>3. \A g \in Files : Status(g)' = "completed" => ~torn /\ disk[g].status = "completed"
    BY <1>3 DEF StartRun, Load, Status, NewEntry
  <2>4. stage = "none" /\ stage' # "none" /\ state' = Load /\ UNCHANGED <<pre, raw, final>>
    BY <1>3, PodscribeAssumption DEF StartRun, files
  <2>5. \A g \in Files : Known(g)' = Known(g)
    BY <2>4 DEF Known, Load, Status, NewEntry
  <2>6. \A g \in Files : Unused(g) => Unused(g)'
    BY <2>2, <2>4, <2>5 DEF Unused, MadeAgain, Early
  <2>7. \A g \in Files : ~HasText(g)' /\ (PartOfPre(g) => Unused(g))
    BY <2>2 DEF HasText, PartOfPre
  <2> QED
    BY <1>0, <1>3, <2>2, <2>3, <2>4, <2>6, <2>7, WholeAtRest DEF StartRun
<1>4. CASE EndRun
  <2>1. writer' = NoOne
    BY <1>4, NobodySaves DEF EndRun
  <2>2. \A g \in Files : Place(g)' = "idle" /\ pc'[g] = "idle" /\ pc[g] \in {"done", "dropped"}
    BY <1>4, <2>1, PodscribeAssumption DEF EndRun, Place
  <2>3. stage # "none" /\ stage' = "none" /\ UNCHANGED <<pre, raw, final, state, disk, torn>>
    BY <1>4 DEF EndRun, files
  <2>4. \A g \in Files : Known(g)' \in {"new", Known(g)}
    BY <2>3 DEF Known, SaveInv, Status
  <2>5. \A g \in Files : Unused(g) => Unused(g)'
    BY <2>2, <2>3, <2>4 DEF Unused, MadeAgain, Early
  <2>6. \A g \in Files : ~HasText(g)' /\ (PartOfPre(g) => Unused(g))
    BY <2>2 DEF HasText, PartOfPre
  <2> QED
    BY <1>0, <2>2, <2>3, <2>5, <2>6, WholeAtRest
<1>5. CASE Crash
  <2>1. \A g \in Files : Place(g)' = "idle" /\ pc'[g] = "idle"
    BY <1>5, PodscribeAssumption DEF Crash, Place
  <2>2. stage # "none" /\ stage' = "none" /\ UNCHANGED <<pre, raw, final, state, disk, torn>>
        /\ cut' = cut \cup {g \in Files : LeavesPart(g)}
    BY <1>5 DEF Crash, Cut, files
  <2>3. \A g \in Files : Known(g)' \in {"new", Known(g)}
    BY <2>2 DEF Known, SaveInv, Status
  <2>4. \A g \in Files : Unused(g) => Unused(g)'
    BY <2>1, <2>2, <2>3 DEF Unused, MadeAgain, Early
  <2>5. ASSUME NEW g \in Files, g \notin cut'
        PROVE  pc[g] # "raw_open" /\ (PartOfPre(g) => Unused(g)')
    <3>1. pc[g] # "raw_open" /\ (pc[g] = "converting" => Status(g) \in {"new", "failed"})
      BY <2>2, <2>5 DEF LeavesPart
    <3>2. pc[g] = "converting" => Place(g) = "converting" /\ raw[g] = NoFile
      BY <3>1 DEF PlaceInv, PlaceOK, Place, SaveInv, Exists
    <3>3. pc[g] = "converting" => Known(g)' \in {"new", "failed"} /\ raw'[g] = NoFile
      BY <2>2, <2>3, <3>1, <3>2 DEF Known
    <3>4. pc[g] = "converting" => Unused(g)'
      BY <2>1, <3>3 DEF Unused, MadeAgain, Early
    <3> QED
      BY <2>4, <3>1, <3>4 DEF PartOfPre
  <2>6. ASSUME NEW g \in Files, g \notin cut'
        PROVE  WholeFile(g)' /\ (~torn' /\ disk'[g].status = "completed" => Whole(final'[g]))
    <3>1. /\ WholeFile(g) /\ (PartOfPre(g) => PartOfPre(g)') /\ pc[g] # "raw_open"
          /\ ~torn /\ disk[g].status = "completed" => Whole(final[g])
      BY <1>0, <2>2, <2>5, <2>6 DEF WholeInv, PartOfPre
    <3>2. ~HasText(g)'
      BY <2>1 DEF HasText
    <3> QED
      BY <2>1, <2>2, <3>1, <3>2 DEF WholeFile, Status, Whole
  <2> QED
    BY <2>6 DEF WholeInv, Whole
<1>6. ASSUME NEW f \in Files, Lose(f) PROVE WholeInv'
  <2>1. \A g \in Files : pc[g] = "idle" /\ pc' = pc
    BY <1>6 DEF Lose, SaveInv
  <2>2. writer' = NoOne
    BY <1>6, <2>1, NobodySaves DEF Lose
  <2>3. \A g \in Files : ~HasText(g)' /\ pc'[g] # "final_closed" /\ (PartOfPre(g) => Unused(g))
    BY <2>1, <2>2, PodscribeAssumption DEF HasText, Place, PartOfPre
  <2>4. \A g \in Files : /\ pre'[g] \in {pre[g], NoFile} /\ raw'[g] \in {raw[g], NoFile}
                         /\ final'[g] = final[g]
    BY <1>6 DEF Lose, TypeOK
  <2>5. UNCHANGED <<disk, torn, stage, state, writer, after, pc>>
    BY <1>6 DEF Lose, run
  <2>6. \A g \in Files : Unused(g) => Unused(g)'
    BY <2>4, <2>5 DEF Unused, MadeAgain, Known, Status, Place
  <2> QED
    BY <1>0, <2>1, <2>3, <2>4, <2>5, <2>6, WholeAtRest
<1>7. ASSUME UNCHANGED <<disk, torn, pre, raw, final, text, stage, state, writer, after, pc>>
      PROVE  WholeInv'
  BY <1>0, <1>7 DEF WholeInv, WholeFile, PartOfPre, Unused, MadeAgain, Known, HasText, Place,
                    Status, Whole
<1>8. ASSUME NEW f \in Files, Change(f) PROVE WholeInv'
  BY <1>7, <1>8 DEF Change, files, run
<1>9. CASE UNCHANGED vars
  BY <1>7, <1>9 DEF vars, files, run
<1> QED
  BY <1>1, <1>2, <1>3, <1>4, <1>5, <1>6, <1>8, <1>9 DEF Next, Step

-----------------------------------------------------------------------------
(* Calls of the transcriber. *)

\* The counts of calls are numbers.
LEMMA CallsNat ==
  ASSUME TypeOK, [Next]_vars
  PROVE  \A f \in Files : calls[f] \in Nat /\ calls'[f] \in Nat
<1>1. calls' \in [Files -> 0..CallsCap] /\ calls \in [Files -> 0..CallsCap]
  BY CallsTyped DEF TypeOK
<1>2. CallsCap \in Nat
  BY PodscribeAssumption DEF CallsCap
<1> QED
  BY <1>1, <1>2

\* It is enough to look at the file whose thread took the turn: it has not come
\* to owe a call, or it has made the one it owed and owes none, or has failed.
LEMMA CallTurn ==
  ASSUME TypeOK, SaveInv, PlaceInv, CallInv, [Next]_vars,
         NEW f \in Files, NEW l, NEW e, Turn(f, l, e),
         \A g \in Files \ {f} : raw'[g] = raw[g] /\ calls'[g] = calls[g],
         PlaceOK(l, e.status, raw'[f]),
         \/ calls'[f] = calls[f] /\ (Owes(l, e.status, raw'[f]) => Owed(f))
         \/ /\ Owed(f) /\ calls'[f] <= calls[f] + 1
            /\ Owes(l, e.status, raw'[f]) => Troubles' = Troubles + 1
  PROVE  PlaceInv' /\ CallInv'
<1>1. /\ stage' # "none" /\ stage # "none" /\ Place(f)' = l /\ state'[f] = e
      /\ \A g \in Files \ {f} : Place(g)' = Place(g) /\ state'[g] = state[g]
  BY DEF Turn, TypeOK
<1>2. \A g \in Files \ {f} : PlaceOK(Place(g), Status(g), raw[g])' /\ (Owed(g)' <=> Owed(g))
  BY <1>1 DEF PlaceInv, PlaceOK, Owed, Owes, Known, Status, Exists
<1>3. PlaceOK(Place(f), Status(f), raw[f])' /\ (Owed(f)' <=> Owes(l, e.status, raw'[f]))
  BY <1>1 DEF PlaceOK, Owed, Owes, Known, Status, Exists
<1>4. PlaceInv'
  BY <1>2, <1>3 DEF PlaceInv
<1>5. /\ Troubles \in Nat /\ Troubles' \in Nat /\ Troubles' \in {Troubles, Troubles + 1}
      /\ \A g \in Files : calls[g] \in Nat /\ calls'[g] \in Nat
  BY TroublesGrow, CallsNat
<1>6. CallInv'
  <2>1. \A g \in Files \ {f} : calls'[g] <= 1 + Troubles' /\ (Owed(g)' => calls'[g] <= Troubles')
    BY <1>2, <1>5 DEF CallInv
  <2>2. calls'[f] <= 1 + Troubles' /\ (Owed(f)' => calls'[f] <= Troubles')
    <3>1. calls[f] <= 1 + Troubles /\ (Owed(f) => calls[f] <= Troubles)
      BY DEF CallInv
    <3> QED
      BY <1>3, <1>5, <3>1
  <2> QED
    BY <2>1, <2>2 DEF CallInv
<1> QED
  BY <1>4, <1>6

\* A turn without a call that leaves the raw transcript alone.
LEMMA CallKept ==
  ASSUME TypeOK, SaveInv, PlaceInv, CallInv, [Next]_vars,
         NEW f \in Files, NEW l, NEW e, Turn(f, l, e), UNCHANGED <<raw, calls>>,
         pc[f] \notin Unrecorded,
         e.status = "preprocessed" => Status(f) = "preprocessed" \/ ~Exists(raw[f]),
         PlaceOK(l, e.status, raw[f])
  PROVE  PlaceInv' /\ CallInv'
<1>1. Owes(l, e.status, raw[f]) => Owed(f)
  BY DEF Owed, Owes, Known, Turn
<1> QED
  BY <1>1, CallTurn

\* Preparing a file makes no call and allows none without a cause.
LEMMA CallPrepare ==
  ASSUME TypeOK, SaveInv, PlaceInv, CallInv, [Next]_vars, NEW f \in Files, Prepare(f)
  PROVE  PlaceInv' /\ CallInv'
<1>0. /\ SetStatus(f, "failed").status = "failed"
      /\ SetStatus(f, "transcribed").status = "transcribed"
      /\ [NewEntry EXCEPT !.hash = version[f]].status = "new"
  BY EntryFields DEF Statuses
<1>1. ASSUME NEW l \in {"hash", "dropped", "duration", "existing", "prepared"}, NEW e,
             Turn(f, l, e), UNCHANGED <<raw, calls>>, pc[f] \in InPreparation,
             e.status = "preprocessed" => Status(f) = "preprocessed" \/ ~Exists(raw[f])
      PROVE  PlaceInv' /\ CallInv'
  BY <1>1, CallKept DEF PlaceOK, Unrecorded, InPreparation
<1>a. PlaceOK(pc[f], Status(f), raw[f]) \/ pc[f] = "saving"
  BY DEF PlaceInv, Place, SaveInv
<1>2. CASE NextFile(f)
  BY <1>1, <1>2, GotoTurns DEF NextFile, files, run, Status, InPreparation
<1>3. CASE Hash(f)
  BY <1>0, <1>1, <1>3, GotoTurns, UpdateTurns DEF Hash, files, run, Status, InPreparation
<1>4. CASE Duration(f)
  BY <1>1, <1>4, GotoTurns, UpdateTurns DEF Duration, files, run, Status, InPreparation
<1>5. CASE Existing(f)
  <2>1. UNCHANGED <<raw, calls>> /\ pc[f] \notin Unrecorded
    BY <1>5 DEF Existing, files, Unrecorded
  <2>2. CASE Status(f) \in {"new", "failed"} /\ Exists(raw[f])
    <3>1. Turn(f, "convert", Promoted(f)) /\ Promoted(f).status = "transcribed"
      BY <1>0, <1>5, <2>2, UpdateTurns DEF Existing, run, Promoted
    <3> QED
      BY <2>1, <3>1, CallKept DEF PlaceOK
  <2>3. CASE ~(Status(f) \in {"new", "failed"} /\ Exists(raw[f]))
    <3>1. Turn(f, "convert", state[f])
      BY <1>5, <2>3, GotoTurns DEF Existing, run
    <3> QED
      BY <2>1, <2>3, <3>1, CallKept DEF PlaceOK, Status
  <2> QED
    BY <2>2, <2>3
<1>6. CASE Convert(f)
  <2>1. /\ \E l \in {"converting", "prepared"} : Turn(f, l, state[f])
        /\ UNCHANGED <<raw, calls>> /\ pc[f] = "convert"
    BY <1>6, GotoTurns DEF Convert
  <2> QED
    BY <1>a, <2>1, CallKept DEF PlaceOK, Status, Unrecorded
<1>7. CASE Converted(f)
  <2> DEFINE e == [state[f] EXCEPT !.preprocessed = TRUE,
                                   !.status = IF @ \in {"new", "failed"} THEN "preprocessed" ELSE @]
  <2>1. Turn(f, "prepared", e) /\ UNCHANGED <<raw, calls>> /\ pc[f] = "converting"
    BY <1>7, UpdateTurns DEF Converted
  <2>2. e.status = IF state[f].status \in {"new", "failed"} THEN "preprocessed" ELSE state[f].status
    <3>1. state[f] \in Entries
      BY DEF TypeOK
    <3> QED
      BY <3>1 DEF Entries
  <2> HIDE DEF e
  <2>3. e.status = "preprocessed" => Status(f) = "preprocessed" \/ ~Exists(raw[f])
    BY <1>a, <2>1, <2>2 DEF PlaceOK, Status
  <2> QED
    BY <1>1, <2>1, <2>3 DEF InPreparation
<1>8. CASE ConvertFails(f)
  BY <1>0, <1>1, <1>8, GotoTurns, UpdateTurns DEF ConvertFails, files, run, Status, InPreparation
<1> QED
  BY <1>2, <1>3, <1>4, <1>5, <1>6, <1>7, <1>8 DEF Prepare

\* The call that is made was in hand, and none is left but for a trouble.
LEMMA CallWork ==
  ASSUME TypeOK, SaveInv, FileInv, PlaceInv, CallInv, [Next]_vars, NEW f \in Files, Work(f)
  PROVE  PlaceInv' /\ CallInv'
<1>0. /\ SetStatus(f, "failed").status = "failed"
      /\ SetStatus(f, "transcribed").status = "transcribed"
      /\ SetStatus(f, "completed").status = "completed"
      /\ Promoted(f).status \in {"transcribed", state[f].status}
      /\ AfterTranscription \in {"transcribed", "done"}
  BY EntryFields DEF AfterTranscription, Statuses
<1>1. ASSUME NEW l \in {"transcribe", "post", "transcribed", "done", "edit", "final_open",
                        "final_closed"}, NEW e,
             Turn(f, l, e), UNCHANGED <<raw, calls>>, pc[f] \notin Unrecorded,
             e.status = "preprocessed" => Status(f) = "preprocessed"
      PROVE  PlaceInv' /\ CallInv'
  BY <1>1, CallKept DEF PlaceOK
<1>2. CASE TakeTranscription(f)
  BY <1>1, <1>2, GotoTurns DEF TakeTranscription, files, run, Status, Unrecorded
<1>3. CASE TakePostprocessing(f)
  BY <1>1, <1>3, GotoTurns DEF TakePostprocessing, files, run, Status, Unrecorded
<1>4. CASE ReuseTranscript(f)
  BY <1>0, <1>1, <1>4, UpdateTurns DEF ReuseTranscript, files, run, Status, Unrecorded
<1>5. CASE LoadRaw(f)
  BY <1>0, <1>1, <1>5, GotoTurns, UpdateTurns DEF LoadRaw, files, Status, Unrecorded
<1>6. CASE Postprocess(f)
  BY <1>1, <1>6, GotoTurns DEF Postprocess, run, Status, Unrecorded
<1>7. CASE PostprocessFails(f)
  BY <1>0, <1>1, <1>7, UpdateTurns DEF PostprocessFails, files, run, Status, Unrecorded
<1>8. CASE WroteFinal(f)
  BY <1>1, <1>8, GotoTurns DEF WroteFinal, run, Status, Unrecorded
<1>a. CASE WriteFails(f)
  <2> DEFINE e == SetStatus(f, "failed")
             l == IF pc[f] = "raw_open" THEN AfterTranscription ELSE "done"
  <2>1. Turn(f, l, e) /\ UNCHANGED <<raw, calls>> /\ pc[f] \in {"raw_open", "final_open"}
    BY <1>a, UpdateTurns DEF WriteFails, files, run
  <2>2. Exists(raw[f])
    BY <2>1 DEF FileInv, HasRaw, Turn
  <2>3. PlaceOK(l, e.status, raw'[f]) /\ ~Owes(l, e.status, raw'[f])
    BY <1>0, <2>1, <2>2 DEF PlaceOK, Owes
  <2> HIDE DEF e, l
  <2> QED
    BY <2>1, <2>3, CallTurn
<1>9. CASE RecordFinal(f)
  BY <1>0, <1>1, <1>9, UpdateTurns DEF RecordFinal, files, run, Status, Unrecorded
<1>10. ASSUME calls' = Called(f)
       PROVE  calls'[f] <= calls[f] + 1 /\ \A g \in Files \ {f} : calls'[g] = calls[g]
  BY <1>10, CallsNat DEF Called, TypeOK
<1>11. pc[f] = "transcribe" /\ NeedsTranscriber(f) /\ stage # "none" /\ Place(f) = pc[f] => Owed(f)
  BY DEF NeedsTranscriber, Owed, Owes, Known, Unrecorded
<1>12. CASE Transcribe(f)
  <2>1. /\ Turn(f, "write_raw", state[f]) /\ UNCHANGED raw /\ calls' = Called(f)
        /\ pc[f] = "transcribe" /\ NeedsTranscriber(f)
    BY <1>12, GotoTurns DEF Transcribe, files
  <2>2. Owed(f) /\ PlaceOK("write_raw", state[f].status, raw'[f])
        /\ ~Owes("write_raw", state[f].status, raw'[f])
    BY <1>11, <2>1 DEF Turn, PlaceOK, Owes, Unrecorded
  <2> QED
    BY <1>10, <2>1, <2>2, CallTurn
<1>13. CASE TranscribeFails(f)
  <2> DEFINE e == SetStatus(f, "failed")
  <2>1. /\ Turn(f, AfterTranscription, e) /\ UNCHANGED raw
        /\ pc[f] = "transcribe" /\ NeedsTranscriber(f)
    BY <1>13, UpdateTurns DEF TranscribeFails, files, run
  <2>2. Owed(f) /\ PlaceOK(AfterTranscription, e.status, raw'[f])
    BY <1>0, <1>11, <2>1 DEF Turn, PlaceOK
  <2>3. CASE Exists(Source(f))
    <3>1. Troubles' = Troubles + 1
      <4>1. changes \in Nat /\ crashes \in Nat /\ losses \in Nat /\ failures \in Nat
        BY PodscribeAssumption DEF TypeOK
      <4> QED
        BY <1>13, <2>3, <4>1 DEF TranscribeFails, Fail, Troubles
    <3>2. calls' = Called(f)
      BY <1>13, <2>3 DEF TranscribeFails
    <3> HIDE DEF e
    <3> QED
      BY <1>10, <2>1, <2>2, <3>1, <3>2, CallTurn
  <2>4. CASE ~Exists(Source(f))
    <3>1. UNCHANGED calls
      BY <1>13, <2>4 DEF TranscribeFails
    <3> HIDE DEF e
    <3> QED
      BY <2>1, <2>2, <3>1, CallTurn
  <2> QED
    BY <2>3, <2>4
<1>14. ASSUME NEW l \in Unrecorded, Turn(f, l, state[f]), UNCHANGED calls,
              \A g \in Files \ {f} : raw'[g] = raw[g],
              l = "raw_repeated" => Status(f) # "preprocessed"
       PROVE  PlaceInv' /\ CallInv'
  <2>1. PlaceOK(l, state[f].status, raw'[f]) /\ ~Owes(l, state[f].status, raw'[f])
    BY <1>14 DEF PlaceOK, Owes, Status, Unrecorded
  <2> QED
    BY <1>14, <2>1, CallTurn
<1>15. CASE WriteRaw(f)
  <2>1. Turn(f, "raw_open", state[f])
    BY <1>15, GotoTurns DEF WriteRaw, run
  <2>2. UNCHANGED calls /\ \A g \in Files \ {f} : raw'[g] = raw[g]
    BY <1>15 DEF WriteRaw, TypeOK
  <2> QED
    BY <1>14, <2>1, <2>2 DEF Unrecorded
<1>16. CASE WroteRaw(f)
  <2>1. \/ Turn(f, "raw_first", state[f])
        \/ Turn(f, "raw_repeated", state[f]) /\ Status(f) # "preprocessed"
    BY <1>16, GotoTurns DEF WroteRaw, run
  <2>2. UNCHANGED calls /\ \A g \in Files \ {f} : raw'[g] = raw[g]
    BY <1>16 DEF WroteRaw, TypeOK
  <2> QED
    BY <1>14, <2>1, <2>2 DEF Unrecorded
<1>17. CASE RecordRaw(f)
  <2>1. /\ UNCHANGED <<raw, calls>>
        /\ \/ Turn(f, AfterTranscription, SetStatus(f, "transcribed"))
           \/ Turn(f, AfterTranscription, state[f]) /\ pc[f] = "raw_repeated"
    BY <1>17, UpdateTurns DEF RecordRaw, files, run
  <2>2. PICK e : Turn(f, AfterTranscription, e) /\ e.status # "preprocessed"
    <3>1. pc[f] = "raw_repeated" /\ Place(f) = pc[f] => Status(f) # "preprocessed"
      BY DEF PlaceInv, PlaceOK
    <3> QED
      BY <1>0, <2>1, <3>1 DEF Turn, Status
  <2>3. Exists(raw[f])
    BY <1>17, <2>2 DEF RecordRaw, FileInv, HasRaw, Turn
  <2>4. PlaceOK(AfterTranscription, e.status, raw'[f])
        /\ ~Owes(AfterTranscription, e.status, raw'[f])
    BY <1>0, <2>1, <2>2, <2>3 DEF PlaceOK, Owes
  <2> QED
    BY <2>1, <2>2, <2>4, CallTurn
<1> QED
  BY <1>2, <1>3, <1>4, <1>5, <1>6, <1>7, <1>8, <1>a, <1>9, <1>12, <1>13, <1>15, <1>16, <1>17 DEF Work

\* Every step keeps the calls within their causes.
LEMMA CallStep ==
  ASSUME TypeOK, SaveInv, FileInv, PlaceInv, CallInv, [Next]_vars
  PROVE  PlaceInv' /\ CallInv'
<1>0. /\ Troubles \in Nat /\ Troubles' \in Nat /\ Troubles' \in {Troubles, Troubles + 1}
      /\ \A g \in Files : calls[g] \in Nat
  BY TroublesGrow, CallsNat
<1>1. ASSUME UNCHANGED calls, \A g \in Files : Owed(g)' => Owed(g) PROVE CallInv'
  BY <1>0, <1>1 DEF CallInv
<1>2. ASSUME UNCHANGED calls, Troubles' = Troubles + 1 PROVE CallInv'
  BY <1>0, <1>2 DEF CallInv
<1>3. changes \in Nat /\ crashes \in Nat /\ losses \in Nat /\ failures \in Nat
  BY PodscribeAssumption DEF TypeOK
<1>4. ASSUME \A g \in Files : Place(g)' \in {"idle", "listed"} PROVE PlaceInv'
  BY <1>4 DEF PlaceInv, PlaceOK
<1>5. ASSUME NEW f \in Files, Prepare(f) \/ Work(f) PROVE PlaceInv' /\ CallInv'
  BY <1>5, CallPrepare, CallWork
<1>6. CASE EndUpdate
  <2>1. writer \in Files /\ pc' = [pc EXCEPT ![writer] = after] /\ writer' = NoOne
        /\ UNCHANGED <<state, stage, raw, calls>> /\ stage # "none"
    BY <1>6 DEF EndUpdate, Goto, TypeOK, files, run, SaveInv
  <2>2. \A g \in Files : Place(g)' = Place(g)
    BY <2>1, PodscribeAssumption DEF Place, TypeOK
  <2>3. PlaceInv'
    BY <2>1, <2>2 DEF PlaceInv, PlaceOK, Status, Exists
  <2>4. \A g \in Files : Owed(g)' => Owed(g)
    BY <2>1, <2>2 DEF Owed, Owes, Known, Status, Exists
  <2> QED
    BY <1>1, <2>1, <2>3, <2>4
<1>7. ASSUME NEW s \in Stages, StartRun(s) PROVE PlaceInv' /\ CallInv'
  <2>1. writer' = NoOne /\ writer = NoOne
    BY <1>7, NobodySaves DEF StartRun, SaveInv
  <2>2. \A g \in Files : Place(g)' = "listed" /\ Place(g) = "idle"
    BY <1>7, <2>1, PodscribeAssumption DEF StartRun, Place, SaveInv
  <2>3. stage = "none" /\ stage' # "none" /\ state' = Load /\ UNCHANGED <<raw, calls>>
    BY <1>7, PodscribeAssumption DEF StartRun, files
  <2>4. \A g \in Files : Known(g)' = Known(g)
    BY <2>3 DEF Known, Load, Status, NewEntry
  <2>5. \A g \in Files : Owed(g)' => Owed(g)
    BY <2>2, <2>3, <2>4 DEF Owed, Owes, Unrecorded, Exists
  <2> QED
    BY <1>1, <1>4, <2>2, <2>3, <2>5
<1>8. CASE EndRun
  <2>1. writer' = NoOne /\ writer = NoOne
    BY <1>8, NobodySaves DEF EndRun
  <2>2. \A g \in Files : Place(g)' = "idle" /\ Place(g) \in {"done", "dropped"}
    BY <1>8, <2>1, PodscribeAssumption DEF EndRun, Place
  <2>3. stage # "none" /\ stage' = "none" /\ UNCHANGED <<raw, calls, state, disk, torn>>
    BY <1>8 DEF EndRun, files
  <2>4. \A g \in Files : Known(g)' \in {"new", Known(g)}
    BY <2>3 DEF Known, SaveInv, Status
  <2>5. \A g \in Files : Owed(g)' => Owed(g)
    BY <2>2, <2>3, <2>4 DEF Owed, Owes, Unrecorded, Exists
  <2> QED
    BY <1>1, <1>4, <2>2, <2>3, <2>5
<1>9. CASE Crash
  <2>1. \A g \in Files : Place(g)' = "idle"
    BY <1>9, PodscribeAssumption DEF Crash, Place
  <2>2. UNCHANGED calls /\ Troubles' = Troubles + 1
    BY <1>3, <1>9 DEF Crash, Troubles
  <2> QED
    BY <1>2, <1>4, <2>1, <2>2
<1>10. ASSUME NEW f \in Files, Change(f) PROVE PlaceInv' /\ CallInv'
  <2>1. UNCHANGED calls /\ Troubles' = Troubles + 1
    BY <1>3, <1>10 DEF Change, Troubles
  <2>2. PlaceInv'
    BY <1>10 DEF Change, PlaceInv, PlaceOK, Place, Status, Exists, files
  <2> QED
    BY <1>2, <2>1, <2>2
<1>11. ASSUME NEW f \in Files, Lose(f) PROVE PlaceInv' /\ CallInv'
  <2>1. writer' = NoOne /\ \A g \in Files : pc'[g] = "idle"
    BY <1>11, NobodySaves DEF Lose, SaveInv
  <2>2. \A g \in Files : Place(g)' = "idle"
    BY <2>1, PodscribeAssumption DEF Place
  <2>3. UNCHANGED calls /\ Troubles' = Troubles + 1
    BY <1>3, <1>11 DEF Lose, Troubles
  <2> QED
    BY <1>2, <1>4, <2>2, <2>3
<1>12. CASE UNCHANGED vars
  <2>1. UNCHANGED <<raw, calls, state, disk, torn, stage, pc, writer, after>>
    BY <1>12 DEF vars, files, run
  <2>2. PlaceInv'
    BY <2>1 DEF PlaceInv, PlaceOK, Place, Status, Exists
  <2>3. \A g \in Files : Owed(g)' => Owed(g)
    BY <2>1 DEF Owed, Owes, Known, Status, Place, Exists
  <2> QED
    BY <1>1, <2>1, <2>2, <2>3
<1> QED
  BY <1>5, <1>6, <1>7, <1>8, <1>9, <1>10, <1>11, <1>12 DEF Next, Step

-----------------------------------------------------------------------------
(* The invariant. *)

LEMMA InitOK == Init => IInv
<1> SUFFICES ASSUME Init PROVE IInv
  OBVIOUS
<1>1. NewEntry \in Entries /\ NewEntry.status = "new"
  BY PodscribeAssumption DEF NewEntry, Entries, Statuses, Versions
<1>2. \A f \in Files : Place(f) = "idle" /\ Status(f) = "new"
  BY <1>1, PodscribeAssumption DEF Init, Place, Status
<1>3. TypeOK
  <2>1. version \in [Files -> Versions] /\ calls \in [Files -> 0..CallsCap]
    BY PodscribeAssumption DEF Init, Versions, CallsCap
  <2>2. /\ disk \in [Files -> Entries] /\ torn \in BOOLEAN /\ state \in [Files -> Entries]
        /\ writer \in Files \cup {NoOne} /\ after \in Places /\ pc \in [Files -> Places]
        /\ stage \in {"none", "all", "transcribe", "postprocess"}
    BY <1>1 DEF Init, Places
  <2>3. /\ pre \in [Files -> Contents] /\ raw \in [Files -> Contents]
        /\ final \in [Files -> Contents] /\ text \in [Files -> Contents]
        /\ work \in [Files -> BOOLEAN]
    BY ContentsOK DEF Init
  <2>4. {changes, crashes, losses, failures} \subseteq 0..MaxTroubles /\ cut \subseteq Files
    BY PodscribeAssumption DEF Init
  <2> QED
    BY <2>1, <2>2, <2>3, <2>4 DEF TypeOK
<1>4. SaveInv /\ BoundInv
  <2>1. SaveInv
    BY PodscribeAssumption DEF Init, SaveInv
  <2>2. BoundInv
    BY PodscribeAssumption DEF Init, BoundInv, Troubles
  <2> QED
    BY <2>1, <2>2
<1>5. FileInv
  BY <1>2 DEF Init, FileInv, Dated, HasText, HasRaw
<1>6. ClaimInv /\ OpenInv
  BY <1>1, <1>2 DEF Init, ClaimInv, True, OpenInv
<1>7. WholeInv
  BY <1>1, <1>2 DEF Init, WholeInv, WholeFile, HasText
<1>8. PlaceInv
  BY <1>2 DEF PlaceInv, PlaceOK
<1>9. CallInv
  BY PodscribeAssumption DEF Init, CallInv, Troubles
<1> QED
  BY <1>3, <1>4, <1>5, <1>6, <1>7, <1>8, <1>9 DEF IInv

LEMMA StepOK == IInv /\ [Next]_vars => IInv'
BY TypesOK, FileStep, ClaimStep, WholeStep, CallStep DEF IInv

LEMMA Invariance == Spec => []IInv
<1>1. IInv /\ [Next]_vars => IInv'
  BY StepOK
<1> QED
  BY InitOK, <1>1, PTL DEF Spec

-----------------------------------------------------------------------------
\* Every variable keeps to its values.
THEOREM Types == Spec => []TypeOK
<1>1. IInv => TypeOK
  BY DEF IInv
<1> QED
  BY Invariance, <1>1, PTL

\* Wherever a run is killed, what can be read of state.json is true of the files:
\* a recorded transcript is on disk, and a completed one was written to the end.
THEOREM StateNeverAhead == Spec => []StateBehindFiles
<1>1. IInv => StateBehindFiles
  BY DEF IInv, ClaimInv, True, StateBehindFiles
<1> QED
  BY Invariance, <1>1, PTL

\* However the threads of the two pools interleave and wherever runs are killed,
\* a completed file is whole unless its own transcript, or a repair of its own
\* audio, was cut short: no thread takes a file another is still writing, and what
\* a first preprocessing that was killed or failed has left is made again.
THEOREM WholeWhenCompleted == Spec => []CompletedIsWhole
<1>1. IInv => CompletedIsWhole
  BY DEF IInv, WholeInv, WholeFile, CompletedIsWhole
<1> QED
  BY Invariance, <1>1, PTL

\* The transcriber, which is paid for, is called once for each file and at most
\* once more for each thing that goes wrong: wherever a run is killed between the
\* answer and the entry that records it, the next one pays with that kill.
THEOREM EveryCallHasACause == Spec => []CallsHaveACause
<1>1. IInv => CallsHaveACause
  BY DEF IInv, CallInv, CallsHaveACause
<1> QED
  BY Invariance, <1>1, PTL

\* No step of a run takes a completed file back, but the one that finds its audio
\* replaced.
THEOREM CompletedForGood == Spec => CompletedStays
<1>1. IInv /\ [Next]_vars =>
        [\A f \in Files :
           (stage # "none" /\ Status(f) = "completed" /\ state'[f].status # "completed")
             => state'[f].hash # state[f].hash]_vars
  <2> SUFFICES ASSUME IInv, Next, NEW f \in Files, stage # "none",
                      Status(f) = "completed", state'[f].status # "completed"
               PROVE  state'[f].hash # state[f].hash
    OBVIOUS
  <2>1. ASSUME NEW g \in Files, Prepare(g) \/ Work(g) PROVE state'[f].hash # state[f].hash
    BY <2>1, EntryPrepare, EntryWork, EntryTurn DEF EntryStep, IInv
  <2>2. state' # state
    BY DEF Status
  <2>3. \E g \in Files : Prepare(g) \/ Work(g)
    BY <2>2 DEF Next, Step, StartRun, EndUpdate, EndRun, Crash, Change, Lose
  <2> QED
    BY <2>1, <2>3
<1> QED
  BY Invariance, <1>1, PTL DEF Spec, CompletedStays
=============================================================================
