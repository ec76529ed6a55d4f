----------------------------- MODULE OutputPaths -----------------------------
(***************************************************************************)
(* The path of the output of one job, from the request of the renderer     *)
(* (AppShell.tsx) over the main process (daemonClient.ts) and the daemon's *)
(* reports back to the card and the button that opens it (main.tsx).       *)
(*                                                                         *)
(* A path is [dir, stem, ext]; the stem is the sequence of the parts of    *)
(* the name between its dots.  On its way through another code page a part *)
(* or a directory comes back damaged, with the replacement character in    *)
(* it: "bad".  Three places repair it, each from what it knows.            *)
(***************************************************************************)
EXTENDS Naturals, Sequences, SequencesExt

VARIABLES
  phase,   \* "asked", "made", "conflict", "ended", "done" or "shown"
  order,   \* the request: [type, input, subtitle, dir, save, format]
  place,   \* [location, selected]: the setting, and the directory chosen
  asked,   \* history: the path that the daemon was asked for
  spoken,  \* history: the path of the transcription before a burn-in
  card,    \* the job on the card: [type, input, dir, result]
  hurt,    \* history: what was damaged in the last report
  opened   \* the path that the user is shown, and opens

pathVars == <<phase, order, place, asked, spoken, card, hurt, opened>>

NoPath == [dir |-> "", stem |-> <<>>, ext |-> ""]
Bad(p) == "bad" \in Range(p.stem)
SubtitleExtensions == {"srt", "ass", "vtt"}
PlainTexts == {"txt", "text", "md", "markdown"}

Suffix == [transcribe |-> <<>>, translate_srt |-> <<"translated">>, burn_in |-> <<"burned">>]
Named(dir, stem, type, ext) == [dir |-> dir, stem |-> stem \o Suffix[type], ext |-> ext]

PathsTypeOK ==
  /\ phase \in {"asked", "made", "conflict", "ended", "done", "shown"}
  /\ order.type \in DOMAIN Suffix /\ card.type \in DOMAIN Suffix
  /\ hurt \subseteq {"name", "dir", "input"}
  /\ \A p \in {order.input, order.save, asked, spoken, card.result, opened} : DOMAIN p = DOMAIN NoPath

-------------------------------------------------------------------------------
(* The request *)

(* What nobody chose is the directory of the mock: it is not taken, unless    *)
(* the source is in the root, which counts as no directory.                   *)
SourceDirectory(p) == IF p.dir = "root" THEN "" ELSE p.dir
EffectiveOutputDirectory(input) ==
  IF place.location = "custom" /\ place.selected # "mock" THEN place.selected
  ELSE IF SourceDirectory(input) # "" THEN SourceDirectory(input) ELSE place.selected

OutputExtension(r) ==
  CASE r.type = "burn_in" -> "mp4"
    [] r.type = "translate_srt" /\ r.input.ext \in PlainTexts -> "txt"
    [] OTHER -> r.format

OutputPathFor(r) ==
  IF r.save # NoPath THEN r.save ELSE Named(r.dir, r.input.stem, r.type, OutputExtension(r))

(* The renderer has a function of its own for the same.                       *)
OutputPathFromRequest(r) ==
  IF r.save # NoPath THEN r.save
  ELSE Named(IF r.dir # "" THEN r.dir ELSE SourceDirectory(r.input),
             r.input.stem, r.type, OutputExtension(r))

(* The burn-in of a transcription that has ended, from its card.              *)
BurnInRequest ==
  [type |-> "burn_in", input |-> card.input, subtitle |-> card.result, save |-> NoPath,
   dir |-> IF card.dir # "" THEN card.dir ELSE EffectiveOutputDirectory(card.input),
   format |-> order.format]

-------------------------------------------------------------------------------
(* The repairs *)

Rebuilt(dir, input, type, path) ==
  IF dir = "" THEN path
  ELSE Named(dir, input.stem, type,
             IF path.ext # "" THEN path.ext ELSE IF type = "burn_in" THEN "mp4" ELSE "srt")

(* Faulty: the output is named as its input is.                               *)
RepairUnsuffixed(path, input, type) ==
  IF path = NoPath \/ ~Bad(path) \/ Bad(input) THEN path
  ELSE Rebuilt(IF path.dir # "" THEN path.dir ELSE SourceDirectory(input), input, "transcribe", path)

(* The main process: from the input of the same report.                       *)
RepairCorruptOutputPath(path, input, type) ==
  IF path = NoPath \/ ~Bad(path) \/ Bad(input) THEN path
  ELSE Rebuilt(IF path.dir # "" THEN path.dir ELSE SourceDirectory(input), input, type, path)

(* mapJob and mapResult; an output without a result stands for one.           *)
MapJob(record, type) ==
  [type |-> type, input |-> record.input, dir |-> record.output.dir,
   result |-> RepairCorruptOutputPath(
                IF record.result # NoPath THEN record.result ELSE record.output, record.input, type)]

(* The renderer: from the request, while it has it.                           *)
RepairJobPathFromRequest(job, r) ==
  IF Bad(r.input) THEN job
  ELSE [job EXCEPT
          !.input = IF Bad(@) THEN r.input ELSE @,
          !.dir = IF @ \notin {"", "bad"} THEN @ ELSE r.dir,
          !.result = IF Bad(@) THEN OutputPathFromRequest(r) ELSE @]

(* The card: from its own job.                                                *)
RepairCorruptSubtitlePath(path, job) ==
  IF ~Bad(path) \/ Bad(job.input) THEN path
  ELSE Rebuilt(IF job.dir # "" THEN job.dir
               ELSE IF path.dir # "" THEN path.dir ELSE SourceDirectory(job.input),
               job.input, job.type, path)

(* What is no subtitle is taken for the input's subtitle.                     *)
SubtitleOutputPath(job) ==
  LET repaired == RepairCorruptSubtitlePath(job.result, job)
  IN IF repaired # job.result THEN repaired
     ELSE IF job.result.ext \in SubtitleExtensions \/ job.type = "burn_in" THEN job.result
     ELSE [dir |-> IF job.dir # "" THEN job.dir ELSE job.result.dir, stem |-> job.input.stem, ext |-> "srt"]

(* The path of the dialog of a conflict: the error's, the result's, or none.  *)
ConflictOutputPath(job, errorPath) ==
  IF errorPath # NoPath THEN errorPath
  ELSE IF job.result # NoPath THEN job.result
  ELSE IF job.dir # "" THEN [dir |-> job.dir, stem |-> job.input.stem, ext |-> "srt"] ELSE NoPath

-------------------------------------------------------------------------------
(* The job *)

PathsInit(orders, places) ==
  /\ place \in places
  /\ \E r \in orders :
       order = [type |-> r.type, input |-> r.input, subtitle |-> NoPath, save |-> NoPath,
                dir |-> EffectiveOutputDirectory(r.input), format |-> r.format]
  /\ phase = "asked" /\ asked = NoPath /\ spoken = NoPath /\ hurt = {} /\ opened = NoPath
  /\ card = [type |-> order.type, input |-> NoPath, dir |-> "", result |-> NoPath]

(* A path of a report, damaged in what `how` says.                            *)
Through(p, how) ==
  [p EXCEPT !.stem = IF "name" \in how THEN <<"bad">> \o Tail(@) ELSE @,
            !.dir = IF "dir" \in how THEN "bad" ELSE @]
Reported(path, result, how) ==
  [input |-> Through(order.input, IF "input" \in how THEN {"name"} ELSE {}),
   output |-> Through(path, how),
   result |-> IF result THEN Through(path, how) ELSE NoPath]

Damages == SUBSET {"name", "dir", "input"}

(* createJob has answered.                                                    *)
Create ==
  /\ phase = "asked"
  /\ \E how \in Damages, result \in BOOLEAN :
       /\ card' = RepairJobPathFromRequest(
                    MapJob(Reported(OutputPathFor(order), result, how), order.type), order)
       /\ hurt' = how
  /\ asked' = OutputPathFor(order) /\ phase' = "made"
  /\ UNCHANGED <<order, place, spoken, opened>>

(* The event of the end brings a path, as it is.                              *)
Ends ==
  /\ phase = "made"
  /\ \E how \in SUBSET {"name", "dir"} :
       card' = [card EXCEPT !.result = Through(asked, how)] /\ hurt' = how
  /\ phase' = "ended"
  /\ UNCHANGED <<order, place, asked, spoken, opened>>

(* The details of a batch are asked for again, without the request.           *)
Reload ==
  /\ phase \in {"made", "ended", "done"}
  /\ \E how \in Damages : card' = MapJob(Reported(asked, TRUE, how), order.type) /\ hurt' = how
  /\ phase' = "done"
  /\ UNCHANGED <<order, place, asked, spoken, opened>>

(* A transcription that an event has ended is burned in, if so configured.    *)
BurnIn ==
  /\ phase = "ended" /\ order.type = "transcribe"
  /\ order' = BurnInRequest /\ spoken' = asked /\ phase' = "asked"
  /\ UNCHANGED <<place, asked, card, hurt, opened>>

(* The output is there already: the path is shown, and another may be chosen. *)
Conflict ==
  /\ phase = "made" /\ order.type = "transcribe" /\ order.save = NoPath
  /\ \E errorPath \in {asked, NoPath} : opened' = ConflictOutputPath(card, errorPath)
  /\ phase' = "conflict"
  /\ UNCHANGED <<order, place, asked, spoken, card, hurt>>

SaveAs ==
  /\ phase = "conflict"
  /\ order' = [order EXCEPT !.save = [dir |-> "elsewhere", stem |-> <<"mine">>, ext |-> "srt"]]
  /\ phase' = "asked" /\ opened' = NoPath
  /\ UNCHANGED <<place, asked, spoken, card, hurt>>

(* MainDone, and the button that opens the result.                            *)
Open ==
  /\ phase \in {"ended", "done"} /\ phase' = "shown" /\ opened' = SubtitleOutputPath(card)
  /\ UNCHANGED <<order, place, asked, spoken, card, hurt>>

PathsNext == Create \/ Ends \/ Reload \/ BurnIn \/ Conflict \/ SaveAs \/ Open

PathsSpec(orders, places) == PathsInit(orders, places) /\ [][PathsNext]_pathVars

-------------------------------------------------------------------------------
(* Property *)

(* The result that is opened is the file the daemon was asked for, in the     *)
(* directory of the settings, although names come back damaged: for subtitles *)
(* and videos that the user has not named, while the directory, and with a    *)
(* damaged name the input, came back sound (main.tsx:581).  A conflict shows  *)
(* that path too, and a burn-in takes it and its directory, unless it came    *)
(* back damaged, or the input's own name looks damaged.                       *)
OpenedIsAsked ==
  /\ (phase = "shown" /\ order.save = NoPath /\ asked.ext \in SubtitleExtensions \cup {"mp4"}) =>
       opened = asked \/ "dir" \in hurt \/ {"name", "input"} \subseteq hurt
  /\ phase = "conflict" => opened = asked \/ "dir" \in hurt
  /\ (spoken # NoPath /\ phase = "asked" /\ hurt = {} /\ ~Bad(order.input)) =>
       order.subtitle = spoken /\ (order.dir = spoken.dir \/ spoken.stem = <<"mine">>)
  /\ (phase = "made" /\ order.save = NoPath /\ spoken = NoPath /\ order.input.dir # "root") =>
       asked.dir = (IF place.location = "custom" /\ place.selected # "mock"
                    THEN place.selected ELSE order.input.dir)
==============================================================================
