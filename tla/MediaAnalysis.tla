--------------------------- MODULE MediaAnalysis ---------------------------
(***************************************************************************)
(* What is judged of a shared recording.  The worker looks for a text in   *)
(* three places, one after the other: the transcripts of the organizer's   *)
(* Teams meetings, the captions of SharePoint Stream, and the speech that  *)
(* the transcriber container hears in the downloaded file.  A text found   *)
(* in one of the first two is completed with key frames of the video.      *)
(* Without a usable text only the file's name is judged.                   *)
(*                                                                         *)
(* Jobs run concurrently.  A semaphore bounds those that download a        *)
(* recording, and the transcriber works for one client at a time: its      *)
(* handlers are coroutines that never yield while ffmpeg or Whisper run.   *)
(***************************************************************************)
EXTENDS Integers, SequencesExt, FiniteSetsExt

CONSTANTS
    Jobs,                 \* recordings under analysis
    RecordedAt,           \* time in the name of a Teams recording, 0 for other files
    Speech,               \* what Whisper hears in the recording of each job
    Listings,             \* what the organizer's transcripts may be
    PageSize,             \* transcripts on a page of getAllTranscripts
    CaptionFiles,         \* the WebVTT files that Stream may hold, as sequences of lines
    Near,                 \* four hours
    MinText,              \* MIN_MEANINGFUL_TEXT
    MaxText,              \* MAX_TEXT_SIZE
    Permits,              \* config.max_concurrent_av_jobs
    TranscriptionEnabled, \* config.transcription_enabled
    WhisperEnabled,       \* config.whisper_enabled
    FrameExtraction,      \* config.video_frame_extraction_enabled
    MaxFaults,            \* bound: failing calls, crashes and slow downloads
    Nobody, Orphan        \* the transcriber is idle; it works for a client that left

\* What the lines of a WebVTT file are: the header and its notes, blank lines, the
\* times of a cue, an identifier before them, the words of a cue after them.
WebVtt(l) == /\ Len(l) \in Nat /\ DOMAIN l = 1 .. Len(l)
             /\ \A i \in DOMAIN l : l[i].is \in {"head", "blank", "times", "id", "word"}

Listing(l) == /\ Len(l) \in Nat /\ DOMAIN l = 1 .. Len(l)
              /\ \A i \in DOMAIN l : l[i].at \in Nat /\ WebVtt(l[i].lines)

ASSUME MediaAssumption ==
    /\ RecordedAt \in [Jobs -> Nat] /\ DOMAIN Speech = Jobs
    /\ {Nobody, Orphan} \cap Jobs = {} /\ Nobody # Orphan
    /\ {Near, MinText, MaxText, MaxFaults} \subseteq Nat /\ {Permits, PageSize} \subseteq Nat \ {0}
    /\ MinText \in 1 .. MaxText
    /\ \A l \in Listings : Listing(l)
    /\ \A c \in CaptionFiles : WebVtt(c)
    /\ {TranscriptionEnabled, WhisperEnabled, FrameExtraction} \subseteq BOOLEAN

VARIABLES
    meetings, captions, \* what the tenant holds
    pc,                 \* step of each job
    text,               \* transcript_text, <<>> for None
    source,             \* transcript_source
    purpose,            \* what the downloaded file is for
    frames,             \* the job has key frames
    recording,          \* the file on the tmpfs mount
    permits,            \* free permits of av_semaphore
    serving,            \* whom the transcriber works for
    mode,               \* the mode of the analysis
    failed,             \* a call made for the job failed (history)
    faults

tenant    == <<meetings, captions>>
found     == <<text, source, frames>>
mediaVars == <<tenant, pc, found, purpose, recording, permits, serving, mode, failed, faults>>

JobSteps == {"graph", "stream", "acquire", "open", "download", "send", "served", "build",
             "analyse", "cleanup", "done"}
Heavy(j) == pc[j] \in {"open", "download", "send", "served"}

-----------------------------------------------------------------------------
(* Transcripts *)

\* is_teams_recording
Teams == {j \in Jobs : RecordedAt[j] # 0}

Gap(t, j) == IF t.at > RecordedAt[j] THEN t.at - RecordedAt[j] ELSE RecordedAt[j] - t.at
FirstOf(S, l) == l[Min(S)]

\* The dated transcript that is nearest to the recording, the first of several
Nearest(l, j) ==
    LET dated == {i \in DOMAIN l : l[i].at # 0}
    IN  FirstOf({i \in dated : \A k \in dated : Gap(l[i], j) <= Gap(l[k], j)}, l)

\* createdDateTime sorts as a string: a missing one is the oldest
MostRecent(l) == FirstOf({i \in DOMAIN l : \A k \in DOMAIN l : l[k].at <= l[i].at}, l)
LatestMeeting(l, j) == MostRecent(l)

\* _select_transcript, of a listing that is not empty.  A single transcript is
\* taken whatever its time.
Selected(l, j) ==
    IF Len(l) > 1 /\ (\E i \in DOMAIN l : l[i].at # 0 /\ Gap(l[i], j) < Near)
    THEN Nearest(l, j) ELSE MostRecent(l)

\* The line taken for the identifier of the cue whose times are line i: the last
\* line before it that is not blank; mutation: the times themselves
TakenWithTimes(l, i) == {k \in 1 .. i : l[k].is # "blank" /\ \A m \in k + 1 .. i : l[m].is = "blank"}
TakenForId(l, i) == {k \in 1 .. i - 1 : l[k].is # "blank" /\ \A m \in k + 1 .. i - 1 : l[m].is = "blank"}
CueIds(l) == UNION {TakenForId(l, i) : i \in {k \in DOMAIN l : l[k].is = "times"}}

\* in_header, until the first line that is something else
Header(l) == {i \in DOMAIN l : \A k \in 1 .. i : l[k].is \in {"head", "blank"}}

Deduplicated(s) ==
    FoldLeft(LAMBDA acc, w : IF acc # <<>> /\ Last(acc) = w THEN acc ELSE Append(acc, w),
             <<>>, s)

\* The lines S of a file, one after the other, without those that repeat the one before
TextOf(l, S) == Deduplicated([n \in 1 .. Cardinality(S) |-> l[SetToSortSeq(S, <)[n]].says])

\* parse_vtt_to_text, which does not tell an identifier from a word by its looks
VttText(l) ==
    TextOf(l, {i \in DOMAIN l : l[i].is \notin {"blank", "times"}} \ (Header(l) \cup CueIds(l)))

\* TranscriptExtractor.from_text
Usable(t) == Len(t) >= MinText
Kept(t)   == SubSeq(t, 1, Min({Len(t), MaxText}))

-----------------------------------------------------------------------------
(* The handler *)

Fault == faults < MaxFaults /\ faults' = faults + 1

Goto(j, step) == pc' = [pc EXCEPT ![j] = step]

MediaInit ==
    /\ meetings \in Listings /\ captions \in CaptionFiles
    /\ pc = [j \in Jobs |-> IF ~TranscriptionEnabled THEN "build"
                            ELSE IF j \in Teams THEN "graph" ELSE "stream"]
    /\ text = [j \in Jobs |-> <<>>]
    /\ source = [j \in Jobs |-> "none"]
    /\ purpose = [j \in Jobs |-> "speech"]
    /\ frames = [j \in Jobs |-> FALSE]
    /\ recording = [j \in Jobs |-> "none"]
    /\ permits = Permits /\ serving = Nobody
    /\ mode = [j \in Jobs |-> "none"]
    /\ failed = [j \in Jobs |-> FALSE] /\ faults = 0

\* After a text was found only the frames are missing, unless they are not wanted
Take(j, w, s) ==
    /\ text' = [text EXCEPT ![j] = w] /\ source' = [source EXCEPT ![j] = s]
    /\ purpose' = [purpose EXCEPT ![j] = "frames"]
    /\ Goto(j, IF FrameExtraction THEN "acquire" ELSE "build")
    /\ UNCHANGED frames

AfterStream == IF WhisperEnabled THEN "acquire" ELSE "build"

\* get_meeting_transcript reads one page of the listing, and follows no link to the
\* next; an item without an organizer has no listing
Pages == [l \in Listings |-> SubSeq(l, 1, Min({Len(l), PageSize}))]
FirstPage(l) == Pages[l]
MeetingTexts == [l \in Listings |-> [j \in Jobs |->
                    IF l = <<>> THEN <<>> ELSE VttText(Selected(FirstPage(l), j).lines)]]
MeetingText(j) == MeetingTexts[meetings][j]

\* get_stream_captions
CaptionTexts == [c \in CaptionFiles |-> VttText(c)]
CaptionText  == CaptionTexts[captions]

Graph(j) ==
    /\ pc[j] = "graph"
    /\ IF MeetingText(j) # <<>> THEN Take(j, MeetingText(j), "graph_api")
                                ELSE Goto(j, "stream") /\ UNCHANGED <<found, purpose>>
    /\ UNCHANGED <<tenant, recording, permits, serving, mode, failed, faults>>

\* A site without a host or a path has no captions either
Stream(j) ==
    /\ pc[j] = "stream"
    /\ IF CaptionText # <<>> THEN Take(j, CaptionText, "stream_captions")
                             ELSE Goto(j, AfterStream) /\ UNCHANGED <<found, purpose>>
    /\ UNCHANGED <<tenant, recording, permits, serving, mode, failed, faults>>

Failing(j) == failed' = [failed EXCEPT ![j] = TRUE]

\* Any failing call, but for the Graph token, counts as "no transcript"
GraphFails(j) ==
    /\ pc[j] = "graph" /\ Fault /\ Failing(j) /\ Goto(j, "stream")
    /\ UNCHANGED <<tenant, found, purpose, recording, permits, serving, mode>>
StreamFails(j) ==
    /\ pc[j] = "stream" /\ Fault /\ Failing(j) /\ Goto(j, AfterStream)
    /\ UNCHANGED <<tenant, found, purpose, recording, permits, serving, mode>>

\* async with av_semaphore
Acquire(j) ==
    /\ pc[j] = "acquire" /\ permits > 0
    /\ permits' = permits - 1 /\ Goto(j, "open")
    /\ UNCHANGED <<tenant, found, purpose, recording, serving, mode, failed, faults>>

\* downloader.download: the file appears with the first bytes
Open(j) ==
    /\ pc[j] = "open"
    /\ recording' = [recording EXCEPT ![j] = "partial"] /\ Goto(j, "download")
    /\ UNCHANGED <<tenant, found, purpose, permits, serving, mode, failed, faults>>

Downloaded(j) ==
    /\ pc[j] = "download" /\ recording[j] = "partial"
    /\ recording' = [recording EXCEPT ![j] = "whole"] /\ Goto(j, "send")
    /\ UNCHANGED <<tenant, found, purpose, permits, serving, mode, failed, faults>>

\* The half hour of cleanup_stale_files ends before a slow download does
StaleSweep(j) ==
    /\ pc[j] = "download" /\ recording[j] = "partial" /\ Fault
    /\ recording' = [recording EXCEPT ![j] = "none"]
    /\ UNCHANGED <<tenant, pc, found, purpose, permits, serving, mode, failed>>

\* A DownloadError, also after a try that left a part of the file: the handler
\* goes on without the recording, and the part stays on the mount
DownloadRefused(j) ==
    /\ pc[j] \in {"open", "download"} /\ Fault /\ Failing(j)
    /\ permits' = permits + 1 /\ Goto(j, "build")
    /\ UNCHANGED <<tenant, found, purpose, recording, serving, mode>>

\* The transcriber reads the upload once it has nothing else to do
Send(j) ==
    /\ pc[j] = "send" /\ serving = Nobody
    /\ serving' = j /\ Goto(j, "served")
    /\ UNCHANGED <<tenant, found, purpose, recording, permits, mode, failed, faults>>

LeaveHolding(j) == Goto(j, "build") /\ recording' = [recording EXCEPT ![j] = "none"] /\ UNCHANGED permits

\* The finally of the upload: the file goes, then the permit
Leave(j) ==
    /\ Goto(j, "build") /\ permits' = permits + 1
    /\ recording' = [recording EXCEPT ![j] = "none"]

\* ffmpeg may fail at each position of _extract_keyframes, and for all of them
KeyFrames == BOOLEAN
Framed(j) == \E seen \in KeyFrames : frames' = [frames EXCEPT ![j] = seen]

\* The client takes only a text that is long enough
Heard(j) ==
    /\ purpose[j] = "speech" /\ Usable(Speech[j])
    /\ text' = [text EXCEPT ![j] = Speech[j]]
    /\ source' = [source EXCEPT ![j] = "whisper"]
    /\ Framed(j)
NothingHeard(j) == purpose[j] = "speech" /\ ~Usable(Speech[j]) /\ UNCHANGED found

\* The client of extract_frames
Seen(j) == purpose[j] = "frames" /\ Framed(j) /\ UNCHANGED <<text, source>>

Served(j) == pc[j] = "served" /\ serving = j /\ serving' = Nobody /\ Leave(j)

\* POST /transcribe
AnswerSpeech(j) ==
    /\ Heard(j) \/ NothingHeard(j)
    /\ Served(j)
    /\ UNCHANGED <<tenant, purpose, mode, failed, faults>>

\* POST /extract_frames
AnswerFrames(j) ==
    /\ Seen(j) /\ Served(j)
    /\ UNCHANGED <<tenant, purpose, mode, failed, faults>>

\* ffmpeg or Whisper fails, or the connection does
AnswerFails(j) ==
    /\ Served(j) /\ Fault /\ Failing(j)
    /\ UNCHANGED <<tenant, found, purpose, mode>>

\* The client's write and read timeouts, while the transcriber works for another
GiveUp(j) ==
    /\ pc[j] = "send" /\ serving # Nobody /\ Failing(j) /\ Leave(j)
    /\ UNCHANGED <<tenant, found, purpose, serving, mode, faults>>

\* The client's read timeout ends first; the transcriber works on for nobody
Abandon(j) ==
    /\ pc[j] = "served" /\ serving = j /\ Fault /\ Failing(j)
    /\ serving' = Orphan /\ Leave(j)
    /\ UNCHANGED <<tenant, found, purpose, mode>>
OrphanEnds ==
    /\ serving = Orphan /\ serving' = Nobody
    /\ UNCHANGED <<tenant, pc, found, purpose, recording, permits, mode, failed, faults>>

\* The AnalysisRequest
Built(j) == IF ~Usable(text[j]) THEN "filename_only"
            ELSE IF frames[j] /\ FrameExtraction THEN "transcript_multimodal"
            ELSE "transcript"

Build(j) ==
    /\ pc[j] = "build"
    /\ mode' = [mode EXCEPT ![j] = Built(j)] /\ text' = [text EXCEPT ![j] = Kept(@)]
    /\ Goto(j, "analyse")
    /\ UNCHANGED <<tenant, source, frames, purpose, recording, permits, serving, failed, faults>>

\* The model answers and the verdict is recorded (VerdictDecision)
AnalyseText(j) ==
    /\ pc[j] = "analyse" /\ Goto(j, "cleanup")
    /\ UNCHANGED <<tenant, found, purpose, recording, permits, serving, mode, failed, faults>>

\* An exception leaves the handler, and the permit is released.  What becomes of
\* the event is up to the job handler (EventPipeline).
Leaves(j) ==
    /\ Failing(j) /\ mode' = [mode EXCEPT ![j] = "raised"] /\ Goto(j, "cleanup")
    /\ permits' = IF Heavy(j) THEN permits + 1 ELSE permits
    /\ UNCHANGED <<tenant, found, purpose, recording, serving>>

\* No Graph token, an error of the database or the model, a download that broke
\* in every try
Raises(j) ==
    /\ pc[j] \in {"graph", "stream", "open", "download", "build", "analyse"}
    /\ Fault /\ Leaves(j)

\* A file that was swept away has no size
SweptAway(j) ==
    /\ pc[j] = "download" /\ recording[j] = "none" /\ Leaves(j)
    /\ UNCHANGED faults

\* The finally of process_job
Cleanup(j) ==
    /\ pc[j] = "cleanup" /\ Goto(j, "done")
    /\ recording' = [recording EXCEPT ![j] = "none"]
    /\ UNCHANGED <<tenant, found, purpose, permits, serving, mode, failed, faults>>

JobStep(j) ==
    \/ Graph(j) \/ Stream(j) \/ Acquire(j) \/ Open(j) \/ Downloaded(j) \/ Send(j)
    \/ SweptAway(j) \/ AnswerSpeech(j) \/ AnswerFrames(j)
    \/ Build(j) \/ AnalyseText(j) \/ Cleanup(j)

MediaNext ==
    \/ \E j \in Jobs :
         \/ JobStep(j) \/ GraphFails(j) \/ StreamFails(j) \/ StaleSweep(j)
         \/ DownloadRefused(j) \/ AnswerFails(j) \/ GiveUp(j) \/ Abandon(j) \/ Raises(j)
    \/ OrphanEnds

\* The event loop runs every job that can go on, downloads and models answer or
\* fail, and the transcriber finishes what it works on
Fairness ==
    /\ \A j \in Jobs : WF_mediaVars(JobStep(j))
    /\ WF_mediaVars(OrphanEnds)

MediaSpec == MediaInit /\ [][MediaNext]_mediaVars /\ Fairness

-----------------------------------------------------------------------------
(* Properties *)

Judged(j)   == pc[j] \in {"analyse", "cleanup", "done"}
ByText(j)   == Judged(j) /\ mode[j] \in {"transcript", "transcript_multimodal"}

\* What was said, without the lines that only repeat the one before
Said(l) == TextOf(l, {i \in DOMAIN l : l[i].is = "word"})

\* An identifier stands directly before the times of each cue and nowhere else, and
\* notes only at the beginning.
AllIds(l) == \A i \in DOMAIN l :
    /\ l[i].is = "times" => i > 1 /\ l[i - 1].is = "id"
    /\ l[i].is = "id" => i + 1 \in DOMAIN l /\ l[i + 1].is = "times"
    /\ l[i].is = "head" => i \in Header(l)

\* The files that may be met, what is said in each, and those whose cues all have
\* an identifier
Files    == CaptionFiles \cup UNION {{l[i].lines : i \in DOMAIN l} : l \in Listings}
Spoken   == [f \in Files |-> Said(f)]
Numbered == {f \in Files : AllIds(f)}

\* Captions whose cues all carry an identifier are judged as they were spoken,
\* up to the size limit: no line of speech is taken for an identifier, and no
\* identifier for speech; and so are the transcripts of the page that was read.
AllSaid ==
    LET page == FirstPage(meetings)
    IN  \A j \in Jobs : ByText(j) =>
            /\ source[j] = "stream_captions" /\ captions \in Numbered
                 => text[j] = Kept(Spoken[captions])
            /\ source[j] = "graph_api" /\ (\A i \in DOMAIN page : page[i].lines \in Numbered)
                 => \E i \in DOMAIN page : text[j] = Kept(Spoken[page[i].lines])

\* A recording with transcripts within four hours of it on the page that is read is
\* judged by the nearest of these, or by one that is no further away.  What the later
\* pages of the organizer's transcripts hold is never looked at, nearer or not.
RightMeeting ==
    LET page == FirstPage(meetings)
    IN  \A j \in Jobs : ByText(j) /\ source[j] = "graph_api" =>
            LET near == {i \in DOMAIN page : page[i].at # 0 /\ Gap(page[i], j) < Near}
            IN  near # {} => \E i \in near :
                    /\ \A k \in near : Gap(page[i], j) <= Gap(page[k], j)
                    /\ text[j] = Kept(VttText(page[i].lines))

\* The resources of a job on each of its many ways out: the permits add up, the
\* transcriber's client is the job that waits for it, and a job that has ended left
\* nothing on the mount.
Holding == {j \in Jobs : Heavy(j)}
Tidy ==
    /\ permits + Cardinality(Holding) = Permits
    /\ \A j \in Jobs : pc[j] = "served" <=> serving = j
    /\ \A j \in Jobs : pc[j] = "done" => recording[j] = "none"

\* Every job ends, whoever holds the permits and the transcriber.
EveryJobEnds == <>(\A j \in Jobs : pc[j] = "done")

=============================================================================
