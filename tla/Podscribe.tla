------------------------------ MODULE Podscribe ------------------------------
(***************************************************************************)
(* The podscribe pipeline: Orchestrator.run takes every audio file through *)
(* preprocessing, transcription and post-processing, keeps the status of   *)
(* each file in state.json (StateManager) and can be killed at any moment  *)
(* and run again, for all stages or one.                                   *)
(*                                                                         *)
(* A file is abstracted to the version of the audio it was made from,      *)
(* whether it was written to the end (closed) and whether everything it    *)
(* was made from was (sound).  Opening a file for writing truncates it, so *)
(* every write is two steps and a crash between them leaves it open.       *)
(* Preprocessing is enabled, with chunking.  Files with the same stem,     *)
(* which share their outputs, are left out.                                *)
(***************************************************************************)
EXTENDS Naturals, FiniteSets

CONSTANTS
  Files,         \* audio files in the input directory
  Stages,        \* the stages the user may run
  TWorkers,      \* transcription_workers
  PWorkers,      \* postprocessing_workers
  MaxTroubles    \* bound on what goes wrong: audio files replaced, runs killed,
                 \* intermediate files deleted by the user, and failures of
                 \* FFmpeg, the transcriber and the LLM

\* No thread.
NoOne == "nobody"

ASSUME PodscribeAssumption ==
  /\ IsFiniteSet(Files) /\ NoOne \notin Files
  /\ Stages \subseteq {"all", "transcribe", "postprocess"}
  /\ TWorkers \in Nat \ {0} /\ PWorkers \in Nat \ {0}
  /\ MaxTroubles \in Nat

VARIABLES
  \* the disk
  version,   \* the version of each audio file, which is also its hash
  disk,      \* state.json as last saved, an entry per file
  torn,      \* state.json has been truncated since
  pre, raw, final,   \* preprocessed audio, raw and final transcript of each file
  \* a run
  stage,     \* the stage being run, "none" between runs
  state,     \* StateManager.state
  writer,    \* the thread, named by its file, inside StateManager.save
  after,     \* where it goes when it has saved
  pc,        \* where each file is in the pipeline
  work,      \* whether working_file is the preprocessed audio
  text,      \* the transcript in the hands of the file's thread
  \* what goes wrong, and what it costs
  changes, crashes, losses, failures,
  cut,       \* history: files left partly written where a later run takes them for whole
  calls      \* history: calls of the transcriber per file

files == <<pre, raw, final>>
troubles == <<changes, crashes, losses, failures, cut>>
run == <<stage, work, text>>
vars == <<version, disk, torn, files, run, state, writer, after, pc, troubles, calls>>

NoFile == [version |-> 0, closed |-> FALSE, sound |-> FALSE]
Versions == 0..(MaxTroubles + 1)
Contents == [version : Versions, closed : BOOLEAN, sound : BOOLEAN]
Statuses == {"new", "preprocessed", "transcribed", "completed", "failed"}
Entries == [hash : Versions, status : Statuses, preprocessed : BOOLEAN]

\* get_entry's default.
NewEntry == [hash |-> 0, status |-> "new", preprocessed |-> FALSE]

Exists(file) == file # NoFile
Whole(file) == file.closed /\ file.sound

\* What a program makes of a file: sound only if the file is whole.
MadeFrom(file) == [version |-> file.version, closed |-> TRUE, sound |-> Whole(file)]
Audio(f) == [version |-> version[f], closed |-> TRUE, sound |-> TRUE]
Unclosed(file) == [file EXCEPT !.closed = FALSE]
Status(f) == state[f].status

Init ==
  /\ version = [f \in Files |-> 1]
  /\ disk = [f \in Files |-> NewEntry] /\ torn = FALSE
  /\ pre = [f \in Files |-> NoFile] /\ raw = pre /\ final = pre
  /\ stage = "none" /\ state = disk
  /\ writer = NoOne /\ after = "idle"
  /\ pc = [f \in Files |-> "idle"]
  /\ work = [f \in Files |-> FALSE] /\ text = pre
  /\ changes = 0 /\ crashes = 0 /\ losses = 0 /\ failures = 0 /\ cut = {}
  /\ calls = [f \in Files |-> 0]

Goto(f, l) == pc' = [pc EXCEPT ![f] = l]

\* update_entry: change the entry in memory and open state.json for writing,
\* with the lock held until EndUpdate.
Update(f, entry, next) ==
  /\ writer = NoOne
  /\ state' = [state EXCEPT ![f] = entry]
  /\ torn' = TRUE
  /\ UNCHANGED disk
  /\ writer' = f /\ after' = next
  /\ Goto(f, "saving")

EndUpdate ==
  /\ writer # NoOne
  /\ disk' = state /\ torn' = FALSE
  /\ Goto(writer, after)
  /\ writer' = NoOne /\ after' = "idle"
  /\ UNCHANGED <<version, files, run, state, troubles, calls>>

NoUpdate == UNCHANGED <<disk, torn, state, writer, after>>

\* What goes wrong is counted, and bounded.
Troubles == changes + crashes + losses + failures
MoreTrouble == Troubles < MaxTroubles
Fail == MoreTrouble /\ failures' = failures + 1
NoFail == UNCHANGED failures

SetStatus(f, s) == [state[f] EXCEPT !.status = s]

\* Whoever stops f now leaves a part of a file that later runs take for the
\* whole: of a raw transcript, or of the chunks of a repair.  The chunks of a
\* first preprocessing are made again, and so is a final transcript.
LeavesPart(f) ==
  \/ pc[f] = "raw_open"
  \/ pc[f] = "converting" /\ Status(f) \notin {"new", "failed"}
Cut(stopped) == cut' = cut \cup {f \in stopped : LeavesPart(f)}

-----------------------------------------------------------------------------
(* Phase 1, _prepare_and_preprocess_file, one file after the other.          *)

\* load: a torn state.json counts as none.
Load == IF torn THEN [f \in Files |-> NewEntry] ELSE disk

StartRun(s) ==
  /\ stage = "none" /\ s \in Stages
  /\ stage' = s
  /\ state' = Load
  /\ pc' = [f \in Files |-> "listed"]
  /\ work' = [f \in Files |-> FALSE] /\ text' = [f \in Files |-> NoFile]
  /\ UNCHANGED <<version, disk, torn, files, writer, after, troubles, calls>>

NextFile(f) ==
  /\ pc[f] = "listed"
  /\ \A g \in Files : pc[g] \in {"listed", "prepared", "dropped"}
  /\ Goto(f, "hash")
  /\ UNCHANGED <<version, files, run, troubles, calls>> /\ NoUpdate

\* The stage has nothing to do for a file with this status.
Skips_NotCompleted(status) == stage = "transcribe" /\ status = "transcribed"
Skips(status) ==
  \/ status = "completed"
  \/ stage = "transcribe" /\ status = "transcribed"

\* Skip what is done and unmodified; start fresh if the file has changed.
Hash(f) ==
  /\ pc[f] = "hash"
  /\ \/ /\ state[f].hash = version[f]
        /\ Goto(f, IF Skips(Status(f)) THEN "dropped" ELSE "duration")
        /\ NoUpdate
     \/ /\ state[f].hash # version[f]
        /\ Update(f, [NewEntry EXCEPT !.hash = version[f]], "duration")
  /\ UNCHANGED <<version, files, run, troubles, calls>>

\* The audio duration is saved in the entry.
Duration(f) ==
  /\ pc[f] = "duration"
  /\ IF Status(f) \notin {"transcribed", "completed"} /\ stage # "postprocess"
       THEN Update(f, state[f], "existing")
       ELSE Goto(f, IF stage = "postprocess" THEN "prepared" ELSE "existing") /\ NoUpdate
  /\ UNCHANGED <<version, files, run, troubles, calls>>

\* _load_existing_transcript: the status a transcript on disk promotes to.
Promoted(f) ==
  IF Status(f) \in {"new", "preprocessed", "failed"} THEN SetStatus(f, "transcribed")
                                                      ELSE state[f]

\* A transcript on disk is taken over, whatever audio it was made from.
Existing(f) ==
  /\ pc[f] = "existing"
  /\ IF Status(f) \in {"new", "failed"} /\ Exists(raw[f])
       THEN Update(f, Promoted(f), "convert")
       ELSE Goto(f, "convert") /\ NoUpdate
  /\ UNCHANGED <<version, files, run, troubles, calls>>

\* FFmpeg is needed for a new or failed file, and for one whose preprocessed
\* audio has gone; otherwise the previous result or the file itself is used.
\* The directory of chunks is emptied, and holds some or none until FFmpeg ends.
Convert(f) ==
  /\ pc[f] = "convert"
  /\ IF Status(f) \in {"new", "failed"} \/ (state[f].preprocessed /\ ~Exists(pre[f]))
       THEN /\ \E chunks \in {NoFile, Unclosed(Audio(f))} : pre' = [pre EXCEPT ![f] = chunks]
            /\ Goto(f, "converting")
            /\ UNCHANGED work
       ELSE /\ work' = [work EXCEPT ![f] = state[f].preprocessed]
            /\ Goto(f, "prepared")
            /\ UNCHANGED pre
  /\ UNCHANGED <<version, raw, final, stage, text, troubles, calls>> /\ NoUpdate

\* A file preprocessed for the first time becomes "preprocessed"; a repair
\* leaves the status alone.
Converted(f) ==
  /\ pc[f] = "converting"
  /\ pre' = [pre EXCEPT ![f] = IF Exists(@) THEN [@ EXCEPT !.closed = TRUE] ELSE Audio(f)]
  /\ work' = [work EXCEPT ![f] = TRUE]
  /\ Update(f, [state[f] EXCEPT !.preprocessed = TRUE,
                                !.status = IF @ \in {"new", "failed"} THEN "preprocessed" ELSE @],
            "prepared")
  /\ UNCHANGED <<version, raw, final, stage, text, troubles, calls>>

\* FFmpeg fails; only a first preprocessing records it.
ConvertFails(f) ==
  /\ pc[f] = "converting"
  /\ Fail /\ Cut({f})
  /\ IF Status(f) \in {"new", "failed"}
       THEN Update(f, SetStatus(f, "failed"), "dropped")
       ELSE Goto(f, "dropped") /\ NoUpdate
  /\ UNCHANGED <<version, files, run, changes, crashes, losses, calls>>

Prepare(f) ==
  \/ NextFile(f) \/ Hash(f) \/ Duration(f) \/ Existing(f) \/ Convert(f)
  \/ Converted(f) \/ ConvertFails(f)

-----------------------------------------------------------------------------
(* Phases 2 and 3.  The threads of the two pools, at most TWorkers and       *)
(* PWorkers of them at work; pc[f] = "saving" is counted by where it leads.  *)

Place(f) == IF writer = f THEN after ELSE pc[f]
InTranscription == {"transcribe", "write_raw", "raw_open", "raw_first", "raw_repeated"}
InPostprocessing == {"post", "edit", "final_open", "final_closed"}
Busy(places) == Cardinality({f \in Files : Place(f) \in places})

InPreparation == {"listed", "hash", "duration", "existing", "convert", "converting"}
AllPrepared ==
  /\ \A f \in Files : pc[f] \notin InPreparation
  /\ writer # NoOne => after \notin InPreparation \cup {"prepared", "dropped"}

TakeTranscription(f) ==
  /\ pc[f] = "prepared" /\ AllPrepared /\ stage # "postprocess"
  /\ Busy(InTranscription) < TWorkers
  /\ Goto(f, "transcribe")
  /\ UNCHANGED <<version, files, run, troubles, calls>> /\ NoUpdate

TakePostprocessing(f) ==
  /\ \/ pc[f] = "transcribed" /\ stage = "all"
     \/ pc[f] = "prepared" /\ AllPrepared /\ stage = "postprocess"
  /\ Busy(InPostprocessing) < PWorkers
  /\ Goto(f, IF stage = "all" /\ Status(f) # "transcribed" THEN "done" ELSE "post")
  /\ UNCHANGED <<version, files, run, troubles, calls>> /\ NoUpdate

\* Where a file's transcription task leads.
AfterTranscription == IF stage = "all" THEN "transcribed" ELSE "done"

\* _run_transcription_for_file: a preprocessed file is transcribed, and so is
\* any other without a transcript on disk.
NeedsTranscriber_Always(f) == stage # "postprocess"
NeedsTranscriber(f) == Status(f) = "preprocessed" \/ ~Exists(raw[f])

\* What the transcriber is given.
Source(f) == IF work[f] THEN pre[f] ELSE Audio(f)

\* The history counts no further than one call over what can go wrong.
CallsCap == 2 + MaxTroubles
Called(f) == [calls EXCEPT ![f] = IF @ < CallsCap THEN @ + 1 ELSE @]

Transcribe(f) ==
  /\ pc[f] = "transcribe" /\ NeedsTranscriber(f) /\ Exists(Source(f))
  /\ calls' = Called(f)
  /\ text' = [text EXCEPT ![f] = MadeFrom(Source(f))]
  /\ Goto(f, "write_raw")
  /\ UNCHANGED <<version, files, stage, work, troubles>> /\ NoUpdate

\* The transcriber fails, or finds no working file.
TranscribeFails(f) ==
  /\ pc[f] = "transcribe" /\ NeedsTranscriber(f)
  /\ IF Exists(Source(f)) THEN Fail /\ calls' = Called(f)
                          ELSE NoFail /\ UNCHANGED calls
  /\ Update(f, SetStatus(f, "failed"), AfterTranscription)
  /\ UNCHANGED <<version, files, run, changes, crashes, losses, cut>>

ReuseTranscript(f) ==
  /\ pc[f] = "transcribe" /\ ~NeedsTranscriber(f)
  /\ Update(f, Promoted(f), AfterTranscription)
  /\ UNCHANGED <<version, files, run, troubles, calls>>

\* Faulty variant: the transcript is handed on before the file is closed.
WriteRaw_NotClosed(f) ==
  /\ pc[f] = "write_raw"
  /\ raw' = [raw EXCEPT ![f] = Unclosed(text[f])]
  /\ Goto(f, IF Status(f) = "preprocessed" THEN "raw_first" ELSE "raw_repeated")
  /\ UNCHANGED <<version, pre, final, run, troubles, calls>> /\ NoUpdate

\* _save_and_update_transcript_state: write the transcript, then the entry,
\* promoted unless this was a transcript that had gone missing.
WriteRaw(f) ==
  /\ pc[f] = "write_raw"
  /\ raw' = [raw EXCEPT ![f] = Unclosed(text[f])]
  /\ Goto(f, "raw_open")
  /\ UNCHANGED <<version, pre, final, run, troubles, calls>> /\ NoUpdate

WroteRaw(f) ==
  /\ pc[f] = "raw_open"
  /\ raw' = [raw EXCEPT ![f] = text[f]]
  /\ Goto(f, IF Status(f) = "preprocessed" THEN "raw_first" ELSE "raw_repeated")
  /\ UNCHANGED <<version, pre, final, run, troubles, calls>> /\ NoUpdate

RecordRaw_NotPromoted(f) ==
  /\ pc[f] \in {"raw_first", "raw_repeated"}
  /\ Update(f, state[f], AfterTranscription)
  /\ UNCHANGED <<version, files, run, troubles, calls>>

RecordRaw(f) ==
  /\ pc[f] \in {"raw_first", "raw_repeated"}
  /\ Update(f, IF pc[f] = "raw_first" THEN SetStatus(f, "transcribed") ELSE state[f],
            AfterTranscription)
  /\ UNCHANGED <<version, files, run, troubles, calls>>

\* _run_postprocessing_for_file: take the transcript from disk, whole or not.
LoadRaw(f) ==
  /\ pc[f] = "post"
  /\ IF Exists(raw[f])
       THEN /\ text' = [text EXCEPT ![f] = MadeFrom(raw[f])]
            /\ Update(f, Promoted(f), "edit")
       ELSE /\ UNCHANGED text
            /\ IF stage = "postprocess" THEN Update(f, SetStatus(f, "failed"), "done")
                                        ELSE Goto(f, "done") /\ NoUpdate
  /\ UNCHANGED <<version, files, stage, work, troubles, calls>>

\* The LLM answers, and the final transcript is opened for writing.
Postprocess_RecordsFirst(f) ==
  /\ pc[f] = "edit" /\ Status(f) \in {"transcribed", "failed"}
  /\ final' = [final EXCEPT ![f] = Unclosed(text[f])]
  /\ Update(f, SetStatus(f, "completed"), "final_open")
  /\ UNCHANGED <<version, pre, raw, run, troubles, calls>>

Postprocess(f) ==
  /\ pc[f] = "edit" /\ Status(f) \in {"transcribed", "failed"}
  /\ final' = [final EXCEPT ![f] = Unclosed(text[f])]
  /\ Goto(f, "final_open")
  /\ UNCHANGED <<version, pre, raw, run, troubles, calls>> /\ NoUpdate

PostprocessFails(f) ==
  /\ pc[f] = "edit" /\ Status(f) \in {"transcribed", "failed"}
  /\ Fail
  /\ Update(f, SetStatus(f, "failed"), "done")
  /\ UNCHANGED <<version, files, run, changes, crashes, losses, cut, calls>>

WroteFinal(f) ==
  /\ pc[f] = "final_open"
  /\ final' = [final EXCEPT ![f] = text[f]]
  /\ Goto(f, "final_closed")
  /\ UNCHANGED <<version, pre, raw, run, troubles, calls>> /\ NoUpdate

\* Writing a transcript fails and leaves a part of it, as a full disk does.
WriteFails(f) ==
  /\ pc[f] \in {"raw_open", "final_open"}
  /\ Fail /\ Cut({f})
  /\ Update(f, SetStatus(f, "failed"), IF pc[f] = "raw_open" THEN AfterTranscription ELSE "done")
  /\ UNCHANGED <<version, files, run, changes, crashes, losses, calls>>

RecordFinal(f) ==
  /\ pc[f] = "final_closed"
  /\ Update(f, SetStatus(f, "completed"), "done")
  /\ UNCHANGED <<version, files, run, troubles, calls>>

Work(f) ==
  \/ TakeTranscription(f) \/ Transcribe(f) \/ TranscribeFails(f) \/ ReuseTranscript(f)
  \/ WriteRaw(f) \/ WroteRaw(f) \/ RecordRaw(f)
  \/ TakePostprocessing(f) \/ LoadRaw(f) \/ Postprocess(f) \/ PostprocessFails(f)
  \/ WroteFinal(f) \/ WriteFails(f) \/ RecordFinal(f)

\* The pools are drained and the run ends.
EndRun ==
  /\ stage # "none" /\ \A f \in Files : pc[f] \in {"done", "dropped"}
  /\ stage' = "none"
  /\ pc' = [f \in Files |-> "idle"]
  /\ UNCHANGED <<version, disk, torn, files, work, text, state, writer, after, troubles, calls>>

-----------------------------------------------------------------------------
(* The user and the machine. *)

\* The process is killed: what is on disk stays as it is, torn or not.
Crash ==
  /\ stage # "none" /\ MoreTrouble
  /\ crashes' = crashes + 1 /\ Cut(Files)
  /\ stage' = "none" /\ writer' = NoOne /\ after' = "idle"
  /\ pc' = [f \in Files |-> "idle"]
  /\ UNCHANGED <<version, disk, torn, files, work, text, state, changes, losses, failures, calls>>

\* The user replaces an audio file.
Change(f) ==
  /\ MoreTrouble
  /\ changes' = changes + 1
  /\ version' = [version EXCEPT ![f] = @ + 1]
  /\ UNCHANGED <<disk, torn, files, run, state, writer, after, pc, crashes, losses, failures, cut, calls>>

\* The user deletes an intermediate file between runs.
Lose(f) ==
  /\ stage = "none" /\ MoreTrouble
  /\ losses' = losses + 1
  /\ \/ Exists(pre[f]) /\ pre' = [pre EXCEPT ![f] = NoFile] /\ UNCHANGED raw
     \/ Exists(raw[f]) /\ raw' = [raw EXCEPT ![f] = NoFile] /\ UNCHANGED pre
  /\ UNCHANGED <<version, disk, torn, final, run, state, writer, after, pc, changes, crashes,
                 failures, cut, calls>>

Step == EndUpdate \/ EndRun \/ \E f \in Files : Prepare(f) \/ Work(f)

Next ==
  \/ \E s \in Stages : StartRun(s)
  \/ Step \/ Crash
  \/ \E f \in Files : Change(f) \/ Lose(f)

\* A run goes on, and the user runs all stages again and again.
Fairness == WF_vars(Step) /\ SF_vars(StartRun("all"))

Spec == Init /\ [][Next]_vars /\ Fairness

-----------------------------------------------------------------------------
(* Properties. *)

Places == {"idle", "prepared", "dropped", "transcribed", "done", "saving"}
            \cup InPreparation \cup InTranscription \cup InPostprocessing

TypeOK ==
  /\ version \in [Files -> Versions]
  /\ disk \in [Files -> Entries] /\ torn \in BOOLEAN
  /\ pre \in [Files -> Contents] /\ raw \in [Files -> Contents] /\ final \in [Files -> Contents]
  /\ stage \in {"none", "all", "transcribe", "postprocess"}
  /\ state \in [Files -> Entries]
  /\ writer \in Files \cup {NoOne} /\ after \in Places
  /\ pc \in [Files -> Places]
  /\ work \in [Files -> BOOLEAN] /\ text \in [Files -> Contents]
  /\ {changes, crashes, losses, failures} \subseteq 0..MaxTroubles /\ cut \subseteq Files
  /\ calls \in [Files -> 0..CallsCap]

\* state.json never runs ahead of the files: whenever it can be read, a file
\* recorded as transcribed or completed has a raw transcript on disk, unless one
\* was deleted, and one recorded as completed has a final transcript written to
\* the end.  A run killed at any moment loses work, never the truth of this.
StateBehindFiles ==
  ~torn =>
    \A f \in Files :
      /\ disk[f].status \in {"transcribed", "completed"} => Exists(raw[f]) \/ losses > 0
      /\ disk[f].status = "completed" => final[f].closed

\* A file that is completed stays so until its audio changes: no stage, no
\* failure and no other file takes it back.
CompletedStays ==
  [][\A f \in Files :
       (stage # "none" /\ Status(f) = "completed" /\ state'[f].status # "completed")
         => state'[f].hash # state[f].hash]_vars

\* Every call of the transcriber after the first is paid for by something that
\* happened: a crash, a failure, a file deleted or a change of the audio.
CallsHaveACause ==
  \A f \in Files : calls[f] <= 1 + Troubles

\* "Runs can be interrupted and safely resumed without repeating expensive
\* transcription calls": the transcriber is not called for audio whose whole
\* transcript is on disk.
NoRepeatedTranscription ==
  [][\A f \in Files : Transcribe(f) => ~(Whole(raw[f]) /\ raw[f].version = version[f])]_vars

\* A completed file was made from whole audio and a whole transcript, unless its
\* own raw transcript, or a repair of its own preprocessed audio, was cut short:
\* by a kill at that moment, or because the write or FFmpeg failed.  No thread
\* takes what another is still writing, no other failure and no other file's
\* trouble leads to a part that passes for the whole, and what a killed or failed
\* first preprocessing has left is never used.
CompletedIsWhole ==
  \A f \in Files : Status(f) = "completed" => Whole(final[f]) \/ f \in cut

\* Run again and again, the pipeline completes every file in the end.
AllCompleted == <>[](~torn /\ \A f \in Files : disk[f].status = "completed")
=============================================================================
