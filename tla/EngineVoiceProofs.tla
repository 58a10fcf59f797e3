-------------------------- MODULE EngineVoiceProofs --------------------------
(***************************************************************************)
(* VoiceInv is an inductive invariant of VoiceSpec, for any recordings.    *)
(***************************************************************************)
EXTENDS EngineVoice, TLAPS

LEMMA SaveOrderFacts ==
    /\ Len(SaveOrder) = 5
    /\ SaveOrder[1] = "se" /\ SaveOrder[2] = "ct" /\ SaveOrder[3] = "emb"
    /\ SaveOrder[4] = "pt" /\ SaveOrder[5] = "pf"
BY DEF SaveOrder

(* A tensor that is read is somebody's. *)
LEMMA LoadTyped ==
    ASSUME NEW file \in Voices \cup {None, "torn"}
    PROVE  Load(file) \in Voices
BY DEF Load, Voices

LEMMA BuiltInTyped == BuiltIn \in [Tensors -> Voices]
BY DEF BuiltIn, Voices

LEMMA TornTyped ==
    ASSUME NEW t, files \in [Tensors -> Voices \cup {None, "torn"}],
           files' = files \/ files' = [files EXCEPT ![t] = "torn"]
    PROVE  files' \in [Tensors -> Voices \cup {None, "torn"}]
OBVIOUS

LEMMA OptsTyped == NoOpts \in [dir : BOOLEAN, ref : Recordings \cup {None}, full : BOOLEAN]
BY DEF NoOpts

LEMMA TypeStep ==
    ASSUME VoiceTypeOK, SaveInv, [VoiceNext]_voiceVars
    PROVE  VoiceTypeOK'
<1> USE SaveOrderFacts DEF VoiceTypeOK, Quiet
<1>1. ASSUME NEW d \in BOOLEAN, NEW ref \in Recordings \cup {None}, NEW got, Bake(d, ref, got)
      PROVE  VoiceTypeOK'
  <2>1. \A t \in Tensors : FromDir(d)[t] \in Voices
    BY LoadTyped DEF FromDir, Voices
  <2>2. voice' \in [Tensors -> Voices]
    BY <1>1, <2>1 DEF Bake, Voices
  <2>3. over' \in BOOLEAN
    BY <1>1 DEF Bake
  <2>4. opts' \in [dir : BOOLEAN, ref : Recordings \cup {None}, full : BOOLEAN]
    BY <1>1 DEF Bake
  <2> QED BY <1>1, <2>2, <2>3, <2>4 DEF Bake
<1>2. ASSUME NEW d \in BOOLEAN, NEW ref \in Recordings \cup {None}, BakeThrows(d, ref)
      PROVE  VoiceTypeOK'
  BY <1>2 DEF BakeThrows, voiceVars
<1>3. CASE SaveRefused
  BY <1>3 DEF SaveRefused, voiceVars
<1>4. CASE SaveVoice
  <2>1. saved' \in Snapshots
    BY <1>4 DEF SaveVoice, Snapshots
  <2> QED BY <1>4, <2>1 DEF SaveVoice
<1>5. CASE SaveSkips
  BY <1>5 DEF SaveSkips, Saving
<1>6. CASE SaveWrites
  <2>1. Current \in Tensors /\ pos + 1 \in 1..6
    BY <1>6 DEF SaveWrites, Saving, Current, Tensors, T3Tensors, S3Tensors
  <2>2. saved \in Snapshots
    BY <1>6 DEF SaveWrites, Saving, SaveInv
  <2>3. files' \in [Tensors -> Voices \cup {None, "torn"}]
    BY <1>6, <2>1 DEF SaveWrites
  <2>4. saved' = saved \/ saved' = [saved EXCEPT !.cut = @ \cup {Current}]
    BY <1>6 DEF SaveWrites
  <2>5. [saved EXCEPT !.cut = @ \cup {Current}] \in Snapshots
    BY <2>1, <2>2 DEF Snapshots
  <2> QED BY <1>6, <2>1, <2>3, <2>4, <2>5 DEF SaveWrites
<1>7. CASE SaveThrows
  BY <1>7 DEF SaveThrows
<1>8. CASE SaveReturns
  BY <1>8 DEF SaveReturns
<1>9. CASE Drop
  <2>1. over' \in BOOLEAN /\ pos' \in 1..6 /\ voice' \in [Tensors -> Voices]
    <3>1. over' \in BOOLEAN
      BY <1>9 DEF Drop, Gone
    <3>2. pos' \in 1..6
      BY <1>9 DEF Drop, Gone
    <3>3. voice' \in [Tensors -> Voices]
      BY <1>9, BuiltInTyped DEF Drop, Gone
    <3> QED BY <3>1, <3>2, <3>3
  <2>2. opts' \in [dir : BOOLEAN, ref : Recordings \cup {None}, full : BOOLEAN]
    BY <1>9, OptsTyped DEF Drop, Gone
  <2> QED BY <1>9, <2>1, <2>2 DEF Drop, Gone
<1>10. CASE Crash
  <2>1. files' \in [Tensors -> Voices \cup {None, "torn"}]
    BY <1>10, TornTyped DEF Crash
  <2>2. over' \in BOOLEAN /\ pos' \in 1..6 /\ voice' \in [Tensors -> Voices]
    <3>1. over' \in BOOLEAN
      BY <1>10 DEF Crash, Gone
    <3>2. pos' \in 1..6
      BY <1>10 DEF Crash, Gone
    <3>3. voice' \in [Tensors -> Voices]
      BY <1>10, BuiltInTyped DEF Crash, Gone
    <3> QED BY <3>1, <3>2, <3>3
  <2>3. opts' \in [dir : BOOLEAN, ref : Recordings \cup {None}, full : BOOLEAN]
    BY <1>10, OptsTyped DEF Crash, Gone
  <2> QED BY <1>10, <2>1, <2>2, <2>3 DEF Crash, Gone
<1>11. CASE UNCHANGED voiceVars
  BY <1>11 DEF voiceVars
<1> HIDE DEF VoiceTypeOK
<1> QED
  BY <1>1, <1>2, <1>3, <1>4, <1>5, <1>6, <1>7, <1>8, <1>9, <1>10, <1>11 DEF VoiceNext

(* The files before pos are those of the voice that is saved. *)
LEMMA SaveStep ==
    ASSUME VoiceTypeOK, SaveInv, [VoiceNext]_voiceVars
    PROVE  SaveInv'
<1> USE DEF VoiceTypeOK, Quiet
<1>1. ASSUME NEW d \in BOOLEAN, NEW ref \in Recordings \cup {None}, NEW got, Bake(d, ref, got)
      PROVE  SaveInv'
  BY <1>1 DEF Bake, SaveInv, Returned, Replaced
<1>2. ASSUME NEW d \in BOOLEAN, NEW ref \in Recordings \cup {None}, BakeThrows(d, ref)
      PROVE  SaveInv'
  BY <1>2 DEF BakeThrows, voiceVars, SaveInv, Returned, Replaced, Written
<1>3. CASE SaveRefused \/ UNCHANGED voiceVars
  BY <1>3 DEF SaveRefused, voiceVars, SaveInv, Returned, Replaced, Written
<1>4. CASE SaveVoice
  <2>1. /\ saved' = [voice |-> voice,
                     left |-> {t \in S3Tensors : voice[t] = "builtin" /\ files[t] # None},
                     cut |-> {}]
        /\ est' = "saving" /\ pos' = 1 /\ voice' = voice /\ files' = files
    BY <1>4 DEF SaveVoice
  <2>2. saved' \in Snapshots
    BY <2>1 DEF Snapshots
  <2>3. \A t \in S3Tensors \ saved'.left : voice[t] = "builtin" => files[t] = None
    BY <2>1
  <2>4. ASSUME NEW i \in 1..Len(SaveOrder), i < pos' \/ ~Written(SaveOrder[i])'
        PROVE  Replaced(SaveOrder[i])'
    <3>1. SaveOrder[i] \notin T3Tensors /\ voice[SaveOrder[i]] = "builtin"
      BY <2>1, <2>4 DEF Written
    <3>2. SaveOrder[i] \in S3Tensors
      BY <3>1, SaveOrderFacts DEF T3Tensors, S3Tensors
    <3> QED BY <2>1, <2>3, <3>1, <3>2 DEF Replaced
  <2> QED BY <2>1, <2>2, <2>4 DEF SaveInv, Returned
<1>5. CASE SaveSkips
  <2>1. /\ est' = "saving" /\ saved' = saved /\ voice' = voice /\ files' = files
        /\ pos' = pos + 1 /\ pos \in 1..5 /\ ~Written(SaveOrder[pos])
    BY <1>5, SaveOrderFacts DEF SaveSkips, Saving, Current
  <2>2. /\ saved \in Snapshots /\ saved.voice = voice
        /\ \A i \in 1..Len(SaveOrder) :
              i < pos \/ ~Written(SaveOrder[i]) => Replaced(SaveOrder[i])
        /\ \A i \in pos..Len(SaveOrder) : SaveOrder[i] \notin saved.cut
    BY <1>5 DEF SaveSkips, Saving, SaveInv
  <2>3. ASSUME NEW i \in 1..Len(SaveOrder), i < pos' \/ ~Written(SaveOrder[i])'
        PROVE  Replaced(SaveOrder[i])'
    <3>1. i < pos \/ ~Written(SaveOrder[i])
      BY <2>1, <2>3, SaveOrderFacts DEF Written
    <3> QED BY <2>1, <2>2, <3>1 DEF Replaced
  <2>4. \A i \in pos'..Len(SaveOrder) : SaveOrder[i] \notin saved'.cut
    BY <2>1, <2>2, SaveOrderFacts
  <2> QED BY <2>1, <2>2, <2>3, <2>4 DEF SaveInv, Returned
<1>6. CASE SaveWrites
  <2>1. /\ est' = "saving" /\ voice' = voice
        /\ pos' = pos + 1 /\ pos \in 1..5 /\ Written(Current) /\ Current = SaveOrder[pos]
    BY <1>6, SaveOrderFacts DEF SaveWrites, Saving, Current
  <2>2. /\ saved \in Snapshots /\ saved.voice = voice
        /\ \A i \in 1..Len(SaveOrder) :
              i < pos \/ ~Written(SaveOrder[i]) => Replaced(SaveOrder[i])
        /\ \A i \in pos..Len(SaveOrder) : SaveOrder[i] \notin saved.cut
    BY <1>6 DEF SaveWrites, Saving, SaveInv
  <2>3. \/ files' = [files EXCEPT ![Current] = voice[Current]] /\ saved' = saved
        \/ /\ files' = [files EXCEPT ![Current] = "torn"]
           /\ saved' = [saved EXCEPT !.cut = @ \cup {Current}]
    BY <1>6 DEF SaveWrites
  <2>4. Current \in Tensors /\ Current \notin saved.cut /\ (Current \in S3Tensors => voice[Current] # "builtin")
    BY <2>1, <2>2, SaveOrderFacts DEF Tensors, T3Tensors, S3Tensors, Written
  <2>6. /\ saved'.voice = saved.voice /\ saved'.left = saved.left /\ saved' \in Snapshots
        /\ \A t \in Tensors : t # Current =>
              files'[t] = files[t] /\ (t \in saved'.cut <=> t \in saved.cut)
    <3>1. CASE saved' = saved /\ files' = [files EXCEPT ![Current] = voice[Current]]
      BY <2>2, <3>1
    <3>2. CASE /\ saved' = [saved EXCEPT !.cut = @ \cup {Current}]
               /\ files' = [files EXCEPT ![Current] = "torn"]
      BY <2>2, <2>4, <3>2 DEF Snapshots
    <3> QED BY <2>3, <3>1, <3>2
  <2>7. ASSUME NEW t \in Tensors, t = Current PROVE Replaced(t)'
    <3>1. ~(t \in S3Tensors /\ saved'.voice[t] = "builtin")
      BY <2>2, <2>4, <2>6, <2>7
    <3>2. files'[t] = IF t \in saved'.cut THEN "torn" ELSE saved'.voice[t]
      <4>1. CASE saved' = saved /\ files' = [files EXCEPT ![Current] = voice[Current]]
        BY <2>2, <2>4, <2>7, <4>1
      <4>2. CASE /\ saved' = [saved EXCEPT !.cut = @ \cup {Current}]
                 /\ files' = [files EXCEPT ![Current] = "torn"]
        BY <2>2, <2>4, <2>7, <4>2 DEF Snapshots
      <4> QED BY <2>3, <4>1, <4>2
    <3> QED BY <3>1, <3>2 DEF Replaced
  <2>8. ASSUME NEW i \in 1..Len(SaveOrder), i < pos' \/ ~Written(SaveOrder[i])'
        PROVE  Replaced(SaveOrder[i])'
    <3>1. CASE SaveOrder[i] = Current
      BY <2>4, <2>7, <3>1
    <3>2. CASE SaveOrder[i] # Current
      <4>1. i < pos \/ ~Written(SaveOrder[i])
        BY <2>1, <2>8, <3>2, SaveOrderFacts DEF Written
      <4>2. Replaced(SaveOrder[i]) /\ SaveOrder[i] \in Tensors
        BY <2>2, <4>1, SaveOrderFacts DEF Tensors, T3Tensors, S3Tensors
      <4> QED BY <2>6, <3>2, <4>2 DEF Replaced
    <3> QED BY <3>1, <3>2
  <2>9. ASSUME NEW i \in pos'..Len(SaveOrder)
        PROVE  SaveOrder[i] \notin saved'.cut
    <3>1. i \in pos..Len(SaveOrder) /\ SaveOrder[i] # Current /\ SaveOrder[i] \in Tensors
      BY <2>1, <2>9, SaveOrderFacts DEF Tensors, T3Tensors, S3Tensors
    <3> QED BY <2>2, <2>6, <3>1
  <2> QED BY <2>1, <2>2, <2>6, <2>8, <2>9 DEF SaveInv, Returned
<1>7. CASE SaveThrows
  BY <1>7 DEF SaveThrows, SaveInv, Returned
<1>8. CASE SaveReturns
  <2>1. /\ est' = "ready" /\ saved' = saved /\ files' = files
        /\ \A i \in 1..Len(SaveOrder) : Replaced(SaveOrder[i])
    BY <1>8, SaveOrderFacts DEF SaveReturns, SaveInv
  <2>2. ASSUME NEW t \in Tensors PROVE Replaced(t)'
    <3>1. PICK i \in 1..Len(SaveOrder) : t = SaveOrder[i]
      BY SaveOrderFacts DEF Tensors, T3Tensors, S3Tensors
    <3> QED BY <2>1, <3>1 DEF Replaced
  <2> QED BY <2>1, <2>2 DEF SaveInv
<1>9. CASE Drop
  BY <1>9 DEF Drop, Gone, SaveInv, Returned, Replaced
<1>10. CASE Crash
  BY <1>10 DEF Crash, Gone, SaveInv, Returned
<1> HIDE DEF VoiceTypeOK
<1> QED
  BY <1>1, <1>2, <1>3, <1>4, <1>5, <1>6, <1>7, <1>8, <1>9, <1>10 DEF VoiceNext

(* A file is written for a tensor of the engine, and no file goes away. *)
LEMMA FilesStep ==
    ASSUME VoiceTypeOK, NoBuiltInFile, [VoiceNext]_voiceVars
    PROVE  /\ NoBuiltInFile'
           /\ \A t \in Tensors : files[t] # None => files'[t] # None
<1>1. ASSUME UNCHANGED files
      PROVE  /\ NoBuiltInFile'
             /\ \A t \in Tensors : files[t] # None => files'[t] # None
  BY <1>1 DEF NoBuiltInFile
<1>2. ASSUME NEW x, files' = [files EXCEPT ![Current] = x], x # None,
             Current \in S3Tensors => x # "builtin"
      PROVE  /\ NoBuiltInFile'
             /\ \A t \in Tensors : files[t] # None => files'[t] # None
  BY <1>2 DEF NoBuiltInFile, VoiceTypeOK, Tensors
<1>3. CASE SaveWrites
  <2>1. \/ files' = [files EXCEPT ![Current] = voice[Current]]
        \/ files' = [files EXCEPT ![Current] = "torn"]
    BY <1>3 DEF SaveWrites
  <2>2. Current \in S3Tensors => voice[Current] # "builtin"
    BY <1>3 DEF SaveWrites, Written, T3Tensors, S3Tensors
  <2>3. voice[Current] # None /\ "torn" # None
    <3>1. Current \in Tensors
      BY <1>3, SaveOrderFacts
         DEF SaveWrites, Saving, Current, Tensors, T3Tensors, S3Tensors, VoiceTypeOK
    <3>2. voice[Current] \in Voices
      BY <3>1 DEF VoiceTypeOK
    <3> QED BY <3>2, VoiceAssumption DEF VoiceAssumption, Voices
  <2> QED BY <1>2, <2>1, <2>2, <2>3
<1>4. CASE Crash
  <2>1. files' = files \/ files' = [files EXCEPT ![Current] = "torn"]
    BY <1>4 DEF Crash
  <2>2. "torn" # None /\ "torn" # "builtin"
    BY VoiceAssumption DEF VoiceAssumption
  <2> QED BY <1>1, <1>2, <2>1, <2>2
<1>5. CASE \/ \E d \in BOOLEAN, ref \in Recordings \cup {None} :
                BakeThrows(d, ref) \/ \E got \in Extracted(ref) : Bake(d, ref, got)
           \/ SaveRefused \/ SaveVoice \/ SaveSkips \/ SaveThrows \/ SaveReturns \/ Drop
           \/ UNCHANGED voiceVars
  BY <1>1, <1>5
     DEF Bake, BakeThrows, SaveRefused, SaveVoice, SaveSkips, SaveThrows, SaveReturns, Drop, voiceVars
<1> QED
  BY <1>3, <1>4, <1>5 DEF VoiceNext

(* What an engine has of a recording it has from its constructor. *)
LEMMA GivesStep ==
    ASSUME VoiceTypeOK, NoBuiltInFile, RecordingGives, [VoiceNext]_voiceVars
    PROVE  RecordingGives'
<1>1. ASSUME NEW d \in BOOLEAN, NEW ref \in Recordings \cup {None}, NEW got, Bake(d, ref, got)
      PROVE  RecordingGives'
  <2> SUFFICES ASSUME ref # None, "ve" \in gguf, got = Computable
               PROVE  /\ ~d => \A t \in Tensors : voice'[t] = ref
                      /\ \A t \in S3Tensors :
                            voice'[t] = "builtin" => t = "pt" /\ InDir(d, "ct")
    BY <1>1 DEF Bake, RecordingGives, Overrides, InDir
  <2>1. voice' = [t \in Tensors |-> IF FromRef(d, got, t) THEN ref ELSE FromDir(d)[t]]
    BY <1>1 DEF Bake
  <2>2. \A t \in Tensors : InDir(d, t) \/ FromRef(d, got, t) \/ (t = "pt" /\ InDir(d, "ct"))
    BY DEF FromRef, Tensors, T3Tensors, S3Tensors
  <2>3. ASSUME ~d, NEW t \in Tensors PROVE voice'[t] = ref
    <3>1. FromRef(d, got, t)
      BY <2>2, <2>3 DEF InDir
    <3> QED BY <2>1, <3>1
  <2>4. ASSUME NEW t \in S3Tensors, ~(t = "pt" /\ InDir(d, "ct")) PROVE voice'[t] # "builtin"
    <3>1. t \in Tensors
      BY DEF Tensors
    <3>2. CASE FromRef(d, got, t)
      <4>1. ref # "builtin"
        BY VoiceAssumption DEF VoiceAssumption
      <4> QED BY <2>1, <3>1, <3>2, <4>1
    <3>3. CASE ~FromRef(d, got, t)
      <4>1. d /\ files[t] # None
        BY <2>2, <2>4, <3>1, <3>3 DEF InDir
      <4>2. voice'[t] = Load(files[t])
        BY <2>1, <3>1, <3>3, <4>1 DEF FromDir
      <4>3. files[t] # "builtin"
        BY DEF NoBuiltInFile
      <4> QED BY <4>1, <4>2, <4>3 DEF Load
    <3> QED BY <3>2, <3>3
  <2> QED BY <2>3, <2>4
<1>2. CASE Drop \/ Crash
  BY <1>2 DEF Drop, Crash, Gone, RecordingGives
<1>3. ASSUME UNCHANGED <<opts, voice>>, est # "absent" \/ est' = est
      PROVE  RecordingGives'
  <2>1. files["ct"] # None => files'["ct"] # None
    BY FilesStep DEF Tensors, T3Tensors
  <2> QED BY <1>3, <2>1 DEF RecordingGives, Overrides, InDir
<1>4. CASE \E d \in BOOLEAN, ref \in Recordings \cup {None} : BakeThrows(d, ref)
  BY <1>3, <1>4 DEF BakeThrows, voiceVars
<1>5. CASE \/ SaveRefused \/ SaveVoice \/ SaveSkips \/ SaveWrites \/ SaveThrows \/ SaveReturns
           \/ UNCHANGED voiceVars
  BY <1>3, <1>5
     DEF SaveRefused, SaveVoice, SaveSkips, SaveWrites, SaveThrows, SaveReturns, Saving, Quiet,
         voiceVars
<1> QED BY <1>1, <1>2, <1>4, <1>5 DEF VoiceNext

LEMMA VoiceInvInit == VoiceInit => VoiceInv
<1> SUFFICES ASSUME VoiceInit PROVE VoiceInv
  OBVIOUS
<1>1. VoiceTypeOK
  <2>1. files \in [Tensors -> Voices \cup {None, "torn"}]
    <3>1. files \in [Tensors -> {Old, None}] /\ Old \in Voices
      BY DEF VoiceInit, Voices
    <3> QED BY <3>1
  <2>2. over \in BOOLEAN /\ pos \in 1..6 /\ voice \in [Tensors -> Voices]
    <3>1. over \in BOOLEAN
      BY DEF VoiceInit
    <3>2. pos \in 1..6
      BY DEF VoiceInit
    <3>3. voice \in [Tensors -> Voices]
      BY BuiltInTyped DEF VoiceInit
    <3> QED BY <3>1, <3>2, <3>3
  <2>3. opts \in [dir : BOOLEAN, ref : Recordings \cup {None}, full : BOOLEAN]
    BY OptsTyped DEF VoiceInit
  <2> QED BY <2>1, <2>2, <2>3 DEF VoiceInit, VoiceTypeOK
<1>2. SaveInv
  BY DEF VoiceInit, SaveInv, Returned
<1>3. NoBuiltInFile
  <2>1. Old # "builtin" /\ None # "builtin"
    BY VoiceAssumption DEF VoiceAssumption
  <2> QED BY <2>1 DEF VoiceInit, NoBuiltInFile, Tensors
<1>4. RecordingGives
  BY DEF VoiceInit, RecordingGives
<1> QED BY <1>1, <1>2, <1>3, <1>4 DEF VoiceInv

-----------------------------------------------------------------------------
(* Types, what the files are while an engine saves its voice, and what an  *)
(* engine has of its recording.                                            *)
THEOREM VoiceInvHolds == VoiceSpec => []VoiceInv
<1>1. VoiceInv /\ [VoiceNext]_voiceVars => VoiceInv'
  BY TypeStep, SaveStep, FilesStep, GivesStep DEF VoiceInv
<1> QED BY VoiceInvInit, <1>1, PTL DEF VoiceSpec

(* Every file and every tensor is somebody's: none is made up of what was  *)
(* not read.                                                               *)
THEOREM VoiceTypeCorrect == VoiceSpec => []VoiceTypeOK
BY VoiceInvHolds, PTL DEF VoiceInv

(* A recording whose extraction succeeds makes a whole voice where there   *)
(* is no directory; with one, at most the prompt tokens are lacking, and   *)
(* only if the directory has the conditioning tokens.                      *)
THEOREM RecordingGivesAll == VoiceSpec => []RecordingGives
BY VoiceInvHolds, PTL DEF VoiceInv

(* A tensor that was neither cut nor left over reads as it was saved. *)
LEMMA Reloads ==
    ASSUME VoiceInv PROVE SavedVoiceReloads
<1> SUFFICES ASSUME Returned, NEW t \in Tensors, t \notin saved.cut, t \notin saved.left
             PROVE  FromDir(TRUE)[t] = saved.voice[t]
  BY DEF SavedVoiceReloads
<1>1. Replaced(t)
  BY DEF VoiceInv, SaveInv
<1>2. saved.voice[t] \in Voices
  BY DEF VoiceInv, VoiceTypeOK, Returned, Snapshots
<1>3. saved.voice[t] \notin {None, "torn"}
  BY <1>2, VoiceAssumption DEF VoiceAssumption, Voices
<1>4. FromDir(TRUE)[t] = Load(files[t])
  BY DEF FromDir
<1> QED BY <1>1, <1>3, <1>4 DEF Replaced, Load

(* After a save_voice that returned, a saved tensor can only fail to come  *)
(* back because its write was cut short without notice, or because the     *)
(* voice does not have it and the directory did.                           *)
THEOREM SavedVoicesReload == VoiceSpec => []SavedVoiceReloads
BY VoiceInvHolds, Reloads, PTL
=============================================================================
