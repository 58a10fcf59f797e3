----------------------------- MODULE EngineVoice -----------------------------
(***************************************************************************)
(* The voice of an engine, and the voice directory on disk.                *)
(*                                                                         *)
(* A voice is five tensors.  The constructor takes each from the voice     *)
(* directory or computes it from the reference recording                   *)
(* (bake_voice_conditioning); save_voice writes them back, file by file,   *)
(* in any state the directory is in; synthesize hands the S3Gen ones to    *)
(* s3gen_synthesize_to_wav.  One engine at a time uses the directory: the  *)
(* next life begins when the last one was dropped, or has crashed.         *)
(***************************************************************************)
EXTENDS Naturals, Sequences

CONSTANTS
    Recordings,   \* reference recordings
    Old,          \* the voice the directory holds files of at first
    None

ASSUME VoiceAssumption ==
    /\ Old \notin Recordings
    /\ None \notin Recordings \cup {Old}
    /\ {Old, None} \cap {"builtin", "zeroed", "torn"} = {}
    /\ Recordings \cap {"builtin", "zeroed", "torn"} = {}

VARIABLES
    files,    \* the directory: whose tensor each .npy file holds
    gguf,     \* the extractors whose weights the GGUF files include
    opts,     \* EngineOptions: voice_dir given or not, reference_audio; and
              \* whether every extractor made something of it
    est,      \* absent, ready, saving
    voice,    \* whose tensor the engine has; "builtin": the override is
              \* empty, or the T3 tensor is the one of the GGUF
    over,     \* voice_overridden
    pos,      \* the next file of save_voice
    saved     \* history: the last save_voice that did not throw: the voice,
              \* the S3Gen files of tensors it does not have, the tensors
              \* that were cut

voiceVars == <<files, gguf, opts, est, voice, over, pos, saved>>

(* speaker_emb, cond_prompt_speech_tokens; embedding, prompt_token,        *)
(* prompt_feat.                                                            *)
T3Tensors == {"se", "ct"}
S3Tensors == {"emb", "pt", "pf"}
Tensors   == T3Tensors \cup S3Tensors

Voices     == Recordings \cup {Old, "builtin", "zeroed"}
Extractors == {"ve", "s3tok", "campplus"}
Computable == {"ct", "pt", "emb"}   \* what an extractor may fail to give

Snapshots == [voice : [Tensors -> Voices], left : SUBSET S3Tensors, cut : SUBSET Tensors]

VoiceTypeOK ==
    /\ files \in [Tensors -> Voices \cup {None, "torn"}]
    /\ gguf \subseteq Extractors
    /\ opts \in [dir : BOOLEAN, ref : Recordings \cup {None}, full : BOOLEAN]
    /\ est \in {"absent", "ready", "saving"}
    /\ voice \in [Tensors -> Voices]
    /\ over \in BOOLEAN
    /\ pos \in 1..6
    /\ saved \in {None} \cup Snapshots

BuiltIn == [t \in Tensors |-> "builtin"]
NoOpts  == [dir |-> FALSE, ref |-> None, full |-> FALSE]

VoiceInit ==
    /\ files \in [Tensors -> {Old, None}]
    /\ gguf \in SUBSET Extractors
    /\ opts = NoOpts
    /\ est = "absent"
    /\ voice = BuiltIn
    /\ over = FALSE
    /\ pos = 1
    /\ saved = None

-----------------------------------------------------------------------------
(* bake_voice_conditioning *)

(* Fault: npy_load leaves what it could not read uninitialised.            *)
Load_Uninitialised(file) == IF file = None THEN "builtin" ELSE file

(* npy_load: the data that a torn file lacks stays zero; a torn header     *)
(* throws, which is one of the ways Bake has to throw.                     *)
Load(file) == IF file = None THEN "builtin" ELSE IF file = "torn" THEN "zeroed" ELSE file

FromDir(d) == [t \in Tensors |-> IF d THEN Load(files[t]) ELSE "builtin"]

InDir(d, t) == d /\ files[t] # None

(* What compute_speech_tokens_native and compute_embedding_native may give *)
(* of a recording: nothing without their weights; the former makes the     *)
(* prompt tokens first, and can return false with them made.               *)
Extracted(ref) ==
    {got \in SUBSET Computable :
        /\ {"ct", "pt"} \cap got # {} => "s3tok" \in gguf
        /\ "emb" \in got => "campplus" \in gguf
        /\ "ct" \in got => "pt" \in got
        /\ got # {} => ref # None}

(* Fault: a recording is only used when there is no directory.             *)
FromRef_OnlyWithoutDir(d, got, t) ==
    /\ ~d
    /\ t = "se" => "ve" \in gguf
    /\ t \in Computable => t \in got

(* The recording stands in for a tensor the directory lacks, if it is got. *)
(* Only the failures of "se" and "pf" throw.  The prompt tokens come with  *)
(* the conditioning tokens, and only when these are asked for.             *)
FromRef(d, got, t) ==
    /\ ~InDir(d, t)
    /\ t = "se" => "ve" \in gguf
    /\ t = "pt" => ~InDir(d, "ct")
    /\ t \in Computable => t \in got

(* The voice is baked; T3 counts as overridden when one of its tensors is. *)
Bake(d, ref, got) ==
    /\ est = "absent"
    /\ est' = "ready"
    /\ opts' = [dir |-> d, ref |-> ref, full |-> "ve" \in gguf /\ got = Computable]
    /\ voice' = [t \in Tensors |-> IF ref # None /\ FromRef(d, got, t) THEN ref ELSE FromDir(d)[t]]
    /\ over' = \E t \in T3Tensors : InDir(d, t) \/ (ref # None /\ FromRef(d, got, t))
    /\ UNCHANGED <<files, gguf, pos, saved>>

(* A recording that cannot be read or is too short, a tensor of the wrong  *)
(* size, a torn header: the constructor throws and no engine is left.      *)
BakeThrows(d, ref) ==
    /\ est = "absent"
    /\ d \/ ref # None
    /\ UNCHANGED voiceVars

-----------------------------------------------------------------------------
(* synthesize changes none of this.  fill_common_s3gen_opts passes the     *)
(* overrides that are not empty.  With none, S3Gen takes the voice of its  *)
(* GGUF; with some, it loads the others from a ref_dir that the engine     *)
(* never sets, and npy_load throws.                                        *)
Overrides(v) == {t \in S3Tensors : v[t] # "builtin"}

-----------------------------------------------------------------------------
(* save_voice *)

SaveOrder == <<"se", "ct", "emb", "pt", "pf">>

Quiet == UNCHANGED <<gguf, opts, voice, over>>

(* Without an overridden T3 tensor it refuses.                             *)
SaveRefused ==
    /\ est = "ready" /\ ~over
    /\ UNCHANGED voiceVars

SaveVoice ==
    /\ est = "ready" /\ over
    /\ est' = "saving"
    /\ pos' = 1
    /\ saved' = [voice |-> voice,
                  left |-> {t \in S3Tensors : voice[t] = "builtin" /\ files[t] # None},
                  cut |-> {}]
    /\ Quiet /\ UNCHANGED files

Saving  == est = "saving" /\ pos <= Len(SaveOrder)
Current == SaveOrder[pos]

(* Fault: the T3 tensors are written only when they are overridden.        *)
Written_OnlyOverridden(t) == voice[t] # "builtin"

(* The T3 tensors are read back from the model and always written; an S3   *)
(* one only if there is one, and the file of an earlier voice stays.       *)
Written(t) == t \in T3Tensors \/ voice[t] # "builtin"

SaveSkips ==
    /\ Saving /\ ~Written(Current)
    /\ pos' = pos + 1
    /\ Quiet /\ UNCHANGED <<files, est, saved>>

(* npy_save truncates the file, writes it, and does not look at the        *)
(* result: a full disk tears the file and save_voice goes on, to return.   *)
SaveWrites ==
    /\ Saving /\ Written(Current)
    /\ pos' = pos + 1
    /\ \/ files' = [files EXCEPT ![Current] = voice[Current]] /\ UNCHANGED saved
       \/ /\ files' = [files EXCEPT ![Current] = "torn"]
          /\ saved' = [saved EXCEPT !.cut = @ \cup {Current}]
    /\ Quiet /\ UNCHANGED est

(* The directory or the next file cannot be opened: the engine stays, with *)
(* the files written so far.                                               *)
SaveThrows ==
    /\ Saving /\ Written(Current)
    /\ est' = "ready"
    /\ saved' = None
    /\ Quiet /\ UNCHANGED <<files, pos>>

SaveReturns ==
    /\ est = "saving" /\ pos > Len(SaveOrder)
    /\ est' = "ready"
    /\ Quiet /\ UNCHANGED <<files, pos, saved>>

-----------------------------------------------------------------------------
(* The engine is dropped, or the process dies, and with it the engine; a   *)
(* file that was being written is torn.                                    *)
Gone ==
    /\ est' = "absent"
    /\ voice' = BuiltIn
    /\ over' = FALSE
    /\ pos' = 1
    /\ opts' = NoOpts
    /\ UNCHANGED gguf

Drop == est = "ready" /\ Gone /\ UNCHANGED <<files, saved>>

Crash ==
    /\ est = "saving"
    /\ \/ UNCHANGED files
       \/ Saving /\ Written(Current) /\ files' = [files EXCEPT ![Current] = "torn"]
    /\ saved' = None
    /\ Gone

VoiceNext ==
    \/ \E d \in BOOLEAN, ref \in Recordings \cup {None} :
          BakeThrows(d, ref) \/ \E got \in Extracted(ref) : Bake(d, ref, got)
    \/ SaveRefused \/ SaveVoice \/ SaveSkips \/ SaveWrites \/ SaveThrows \/ SaveReturns
    \/ Drop \/ Crash

VoiceSpec == VoiceInit /\ [][VoiceNext]_voiceVars

-----------------------------------------------------------------------------
(* Properties *)

Returned == saved # None /\ est # "saving"

(* "Save the computed/loaded voice tensors to the specified directory.     *)
(* Throws std::runtime_error on failure." (engine.h:206-207): once         *)
(* save_voice has returned, an engine that is given the directory alone    *)
(* has the voice that was saved.                                           *)
SavedVoiceComesBack == Returned => FromDir(TRUE) = saved.voice

(* There are only two ways for that to fail: a write that was cut short,   *)
(* which npy_save does not notice, and the file of a S3Gen tensor that the *)
(* directory had and the saved voice does not have.  Every other tensor    *)
(* comes back, whichever was cut and whatever was there.                   *)
SavedVoiceReloads ==
    Returned => {t \in Tensors : FromDir(TRUE)[t] # saved.voice[t]} \subseteq saved.cut \cup saved.left

(* What a recording gives an engine when every extractor succeeds: the     *)
(* whole voice if there is no directory, and with one, whatever it holds,  *)
(* all that S3Gen needs but for the prompt tokens, which are lost if the   *)
(* directory has the conditioning tokens alone.                            *)
RecordingGives ==
    est # "absent" /\ opts.ref # None /\ opts.full =>
        /\ ~opts.dir => \A t \in Tensors : voice[t] = opts.ref
        /\ \A t \in S3Tensors \ Overrides(voice) : t = "pt" /\ InDir(opts.dir, "ct")

(* The inductive invariant: while it saves, the engine has replaced the    *)
(* files before pos that it writes, and of the others it tells which are   *)
(* there.                                                                  *)
Replaced(t) ==
    IF t \in S3Tensors /\ saved.voice[t] = "builtin"
    THEN t \notin saved.left => files[t] = None
    ELSE files[t] = IF t \in saved.cut THEN "torn" ELSE saved.voice[t]

SaveInv ==
    /\ est = "saving" => /\ saved \in Snapshots
                         /\ saved.voice = voice
                         /\ \A i \in 1..Len(SaveOrder) :
                               i < pos \/ ~Written(SaveOrder[i]) => Replaced(SaveOrder[i])
                         /\ \A i \in pos..Len(SaveOrder) : SaveOrder[i] \notin saved.cut
    /\ Returned => \A t \in Tensors : Replaced(t)

(* A file of an S3Gen tensor is never one of the built-in voice.           *)
NoBuiltInFile == \A t \in S3Tensors : files[t] # "builtin"

VoiceInv == VoiceTypeOK /\ SaveInv /\ NoBuiltInFile /\ RecordingGives
=============================================================================
