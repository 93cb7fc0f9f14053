---------------------------- MODULE StateFileProofs ----------------------------
(***************************************************************************)
(* Proofs about StateFile, for any number of writers, any sizes and bounds *)
(* and any number of edits, lost keys, kills and power losses.             *)
(*                                                                         *)
(* The file alone says too little to be inductive.  The invariant follows  *)
(* a state from its capture to the disk: what a save carries is complete   *)
(* and no newer than the core, it is synced before its rename, so what is  *)
(* renamed and what survives a power loss is synced as well; and no save   *)
(* is under way while a start decides what to do with the file.            *)
(***************************************************************************)
EXTENDS StateFile, NumberLemmas

\* A save carries a complete file, which is synced when the save says so.
SavesAreWhole ==
  \A w \in Writers :
    IF save[w].pc = "idle" THEN save[w].file = NoFile
    ELSE /\ save[w].file \in File
         /\ Readable(save[w].file)
         /\ save[w].file.synced <=> save[w].pc \in {"synced", "renamed"}

\* A start has no save of an earlier process beside it and has recorded none.
StartsAlone == app = "starts" => ~track.saved /\ \A w \in Writers : save[w].pc = "idle"

FilesAreSynced == /\ path = NoFile \/ path.synced
                  /\ durable = NoFile \/ durable.synced

\* Nothing on its way to the disk, and nothing there, is newer than the core.
NothingIsNewer ==
  app # "starts" =>
    /\ Readable(path) => path.state.edits <= core.edits \/ path = refused
    /\ \A w \in Writers : save[w].pc # "idle" => save[w].file.state.edits <= core.edits

SavedIsThere == track.saved \/ (\E w \in Writers : save[w].pc = "renamed") => path # NoFile

IInv == /\ TypeOK
        /\ SavesAreWhole
        /\ StartsAlone
        /\ FilesAreSynced
        /\ NothingIsNewer
        /\ SavedIsThere
        /\ ReportDescribesFile

-----------------------------------------------------------------------------

USE StateFileAssumption DEF CURRENT_SCHEMA_VERSION, Versions, State, NoFile, File, Bytes, Readable

\* The core of a new process is a state.
LEMMA EmptyCoreTyped == EmptyCore \in State /\ EmptyCore.edits = 0
<1>1. \E s \in Sizes : \A t \in Sizes : s <= t
  BY LeastNatural
<1> QED
  BY <1>1 DEF EmptyCore

LEMMA BytesTyped == ASSUME NEW f \in File PROVE Bytes(f) \in Nat
<1>1. f.state.size \in Nat
  <2>1. f.state \in State
    OBVIOUS
  <2> QED
    BY <2>1
<1>2. Overhead \in Nat
  OBVIOUS
<1> QED
  BY <1>1, <1>2

\* The track after a load keeps its type and says nothing of saves.
LEMMA RecordLoadTyped ==
  ASSUME TypeOK, NEW outcome, RecordLoad(outcome), outcome # "Missing" => path \in File
  PROVE  /\ track' \in [size : Nat, version : {0} \cup Versions, quarantined : BOOLEAN,
                        saved : BOOLEAN, loaded : BOOLEAN]
         /\ track'.saved = track.saved
<1>1. outcome # "Missing" => Bytes(path) \in Nat /\ path.version \in Versions
  BY BytesTyped
<1> QED
  BY ZenonT(60), <1>1 DEF TypeOK, RecordLoad

LEMMA InitIInv == Init => IInv
<1> SUFFICES ASSUME Init PROVE IInv
  OBVIOUS
<1> USE EmptyCoreTyped DEF Init
<1>1. path \in File \cup {NoFile} /\ (path = NoFile \/ path.synced)
  <2> DEFINE saved == [form : {"plain", "sealed"},
                       state : [edits : {1}, size : {s \in Sizes : s <= MaxBytes}],
                       key : {0}, version : Versions, synced : {TRUE}]
  <2>1. \A f \in saved : f \in File /\ f.synced
    <3> SUFFICES ASSUME NEW f \in saved PROVE f \in File /\ f.synced
      OBVIOUS
    <3>1. f.state \in [edits : {1}, size : {s \in Sizes : s <= MaxBytes}]
      OBVIOUS
    <3>2. f.state \in State
      BY <3>1
    <3>3. f \in [form : {"plain", "sealed"}, state : State, key : {0}, version : Versions, synced : {TRUE}]
      BY <3>2
    <3> QED
      BY <3>3
  <2>2. path = NoFile \/ path \in saved
        \/ \E f \in saved : path = [f EXCEPT !.form = "garbage", !.version = CURRENT_SCHEMA_VERSION]
    BY DEF Found
  <2> HIDE DEF saved
  <2>3. ASSUME NEW f \in saved, path = [f EXCEPT !.form = "garbage", !.version = CURRENT_SCHEMA_VERSION]
        PROVE  path \in File /\ path.synced
    <3>1. f \in File /\ f.synced
      BY <2>1
    <3>2. path \in File
      BY <2>3, <3>1
    <3>3. path.synced = f.synced
      BY <2>3, <3>1
    <3> QED
      BY <3>1, <3>2, <3>3
  <2> QED
    BY <2>1, <2>2, <2>3
<1>2. TypeOK
  BY <1>1 DEF TypeOK, SaveRecord, NoSave, NoTrack
<1>3. SavesAreWhole /\ StartsAlone /\ FilesAreSynced /\ NothingIsNewer
  BY <1>1 DEF SavesAreWhole, StartsAlone, FilesAreSynced, NothingIsNewer, NoSave, NoTrack
<1>4. SavedIsThere /\ ReportDescribesFile
  BY DEF SavedIsThere, ReportDescribesFile, NoSave, NoTrack
<1> QED
  BY <1>2, <1>3, <1>4 DEF IInv

-----------------------------------------------------------------------------
(* Starts. *)

\* What a load says of a file that it restores.
LEMMA LoadedIsReadable ==
  ASSUME NEW f \in File \cup {NoFile}
  PROVE  /\ LoadStateEncrypted(f) = "Missing" <=> f = NoFile
         /\ LoadStateEncrypted(f) \in {"Encrypted", "PlaintextLegacy"} => f \in File /\ Readable(f)
  BY DEF LoadStateEncrypted, ParseStateBytes

LEMMA RestoreSucceedsInv ==
  ASSUME IInv, RestoreSucceeds
  PROVE  IInv'
<1> DEFINE outcome == LoadStateEncrypted(path)
<1>1. /\ app = "starts" /\ app' \in {"migrates", "runs"}
      /\ outcome \in {"Missing", "Encrypted", "PlaintextLegacy"}
      /\ core' = IF outcome = "Missing" THEN core ELSE path.state
      /\ RecordLoad(outcome)
      /\ UNCHANGED <<path, durable, refused, save, key, notice, edits, stops>>
  BY DEF RestoreSucceeds, disk, bounds
<1>2. path \in File \cup {NoFile}
  BY DEF IInv, TypeOK
<1>3. /\ outcome = "Missing" <=> path = NoFile
      /\ outcome # "Missing" => path \in File
  BY <1>1, <1>2, LoadedIsReadable
<1> HIDE DEF outcome
<1>4. /\ track' \in [size : Nat, version : {0} \cup Versions, quarantined : BOOLEAN,
                     saved : BOOLEAN, loaded : BOOLEAN]
      /\ track'.saved = track.saved
  BY <1>1, <1>3, RecordLoadTyped DEF IInv
<1>5. core' \in State
  BY <1>1, <1>3 DEF IInv, TypeOK
<1>6. TypeOK'
  BY <1>1, <1>4, <1>5 DEF IInv, TypeOK
<1>7. SavesAreWhole' /\ StartsAlone' /\ FilesAreSynced' /\ SavedIsThere'
  BY <1>1, <1>4 DEF IInv, SavesAreWhole, StartsAlone, FilesAreSynced, SavedIsThere
<1>8. NothingIsNewer'
  BY <1>1, <1>3, <1>5 DEF IInv, StartsAlone, NothingIsNewer
<1>9. ReportDescribesFile'
  BY <1>1, <1>4 DEF IInv, StartsAlone, ReportDescribesFile
<1> QED
  BY <1>6, <1>7, <1>8, <1>9 DEF IInv

LEMMA RestoreFailsInv ==
  ASSUME IInv, RestoreFails
  PROVE  IInv'
<1>1. /\ app = "starts" /\ app' = "runs" /\ path # NoFile
      /\ refused' = path /\ path' \in {NoFile, path}
      /\ UNCHANGED <<core, durable, save, key, notice, edits, stops>>
  BY DEF RestoreFails, bounds
<1>2. path \in File
  BY <1>1 DEF IInv, TypeOK
<1>3. /\ track' \in [size : Nat, version : {0} \cup Versions, quarantined : BOOLEAN,
                     saved : BOOLEAN, loaded : BOOLEAN]
      /\ track'.saved = track.saved
  <2>1. CASE \E outcome \in {LoadStateEncrypted(path), "Io"} : RecordLoad(outcome)
    BY <1>2, <2>1, RecordLoadTyped DEF IInv
  <2>2. CASE UNCHANGED track
    BY <2>2 DEF IInv, TypeOK
  <2> QED
    BY <2>1, <2>2 DEF RestoreFails
<1>4. TypeOK'
  BY <1>1, <1>2, <1>3 DEF IInv, TypeOK
<1>5. SavesAreWhole' /\ StartsAlone' /\ FilesAreSynced' /\ NothingIsNewer'
  BY <1>1, <1>3 DEF IInv, SavesAreWhole, StartsAlone, FilesAreSynced, NothingIsNewer
<1>6. SavedIsThere' /\ ReportDescribesFile'
  BY <1>1, <1>3 DEF IInv, StartsAlone, SavedIsThere, ReportDescribesFile
<1> QED
  BY <1>4, <1>5, <1>6 DEF IInv

-----------------------------------------------------------------------------
(* Saves. *)

\* A save begins with the core as it is.
LEMMA BeginSaveInv ==
  ASSUME IInv, NEW w \in Writers, NEW form \in {"plain", "sealed"}, BeginSave(w, form),
         app # "starts", UNCHANGED app
  PROVE  IInv'
<1> DEFINE f == [form |-> form, state |-> core, key |-> key,
                 version |-> CURRENT_SCHEMA_VERSION, synced |-> FALSE]
<1>1. /\ save[w].pc = "idle"
      /\ save' = [save EXCEPT ![w] = [pc |-> "captured", file |-> f]]
      /\ UNCHANGED <<core, path, durable, refused, key, app, track, notice, edits, stops>>
  BY DEF BeginSave, disk, bounds
<1>2. f \in File /\ Readable(f) /\ f.synced = FALSE /\ f.state = core
  BY DEF IInv, TypeOK
<1> HIDE DEF f
<1>3. /\ save'[w] = [pc |-> "captured", file |-> f]
      /\ \A v \in Writers : v # w => save'[v] = save[v]
  BY <1>1 DEF IInv, TypeOK
<1>4. TypeOK'
  BY <1>1, <1>2 DEF IInv, TypeOK, SaveRecord
<1>5. SavesAreWhole' /\ StartsAlone' /\ FilesAreSynced'
  BY <1>1, <1>2, <1>3 DEF IInv, SavesAreWhole, StartsAlone, FilesAreSynced
<1>6. NothingIsNewer'
  BY <1>1, <1>2, <1>3 DEF IInv, TypeOK, NothingIsNewer
<1>7. SavedIsThere' /\ ReportDescribesFile'
  BY <1>1, <1>3 DEF IInv, SavedIsThere, ReportDescribesFile
<1> QED
  BY <1>4, <1>5, <1>6, <1>7 DEF IInv

\* An update of both fields of a save is the save with these fields.
LEMMA SaveUpdated ==
  ASSUME NEW r \in SaveRecord, NEW a, NEW g
  PROVE  [r EXCEPT !.pc = a, !.file = g] = [pc |-> a, file |-> g]
<1> DEFINE x == [r EXCEPT !.pc = a, !.file = g]
           y == [pc |-> a, file |-> g]
<1>1. x \in [pc : {a}, file : {g}]
  BY DEF SaveRecord
<1>2. y \in [pc : {a}, file : {g}]
  OBVIOUS
<1> QED
  BY <1>1, <1>2

\* Syncing a file changes nothing else of it.
LEMMA SyncedFile ==
  ASSUME NEW f \in File, NEW b \in BOOLEAN
  PROVE  LET g == [f EXCEPT !.synced = b]
         IN g \in File /\ g.state = f.state /\ g.form = f.form /\ (g.synced <=> b)
  OBVIOUS

\* What a system call of write_atomic does to the save that makes it.
LEMMA AdvanceSave ==
  ASSUME IInv, NEW w \in Writers, NEW from \in {"captured", "written", "synced"},
         NEW to \in {"written", "synced", "renamed"}, Advance(w, from, to)
  PROVE  /\ save[w].pc = from /\ save'[w].pc = to /\ app # "starts"
         /\ save'[w].file = [save[w].file EXCEPT !.synced = to \in {"synced", "renamed"}]
         /\ save'[w].file \in File /\ Readable(save'[w].file)
         /\ save'[w].file.synced <=> to \in {"synced", "renamed"}
         /\ save'[w].file.state = save[w].file.state
         /\ \A v \in Writers : v # w => save'[v] = save[v]
         /\ save' \in [Writers -> SaveRecord]
<1>1. /\ save[w].pc = from /\ save[w].file \in File /\ Readable(save[w].file)
      /\ save \in [Writers -> SaveRecord]
  BY DEF Advance, IInv, TypeOK, SavesAreWhole
<1> DEFINE b == to \in {"synced", "renamed"}
           g == [save[w].file EXCEPT !.synced = b]
<1>2. b \in BOOLEAN
  OBVIOUS
<1>3. g \in File /\ g.state = save[w].file.state /\ g.form = save[w].file.form /\ (g.synced <=> b)
  <2> HIDE DEF b
  <2> QED
    BY <1>1, <1>2, SyncedFile, Zenon
<1>4. save' = [save EXCEPT ![w] = [pc |-> to, file |-> g]]
  <2>1. save' = [save EXCEPT ![w].pc = to, ![w].file.synced = b]
    BY DEF Advance
  <2> HIDE DEF b
  <2>2. save[w] \in SaveRecord
    BY <1>1
  <2>3. save' = [save EXCEPT ![w] = [save[w] EXCEPT !.pc = to, !.file = g]]
    BY ZenonT(60), <1>1, <2>1 DEF SaveRecord
  <2>4. [save[w] EXCEPT !.pc = to, !.file = g] = [pc |-> to, file |-> g]
    <3> HIDE DEF g
    <3> QED
      BY <2>2, SaveUpdated, Zenon
  <2> QED
    BY <2>3, <2>4
<1> HIDE DEF g
<1>6. /\ save'[w].pc = to /\ save'[w].file = g
      /\ \A v \in Writers : v # w => save'[v] = save[v]
      /\ save' \in [Writers -> SaveRecord]
  <2>1. [pc |-> to, file |-> g] \in SaveRecord
    BY <1>3 DEF SaveRecord
  <2> QED
    BY <1>1, <1>4, <2>1
<1>5. app # "starts"
  BY <1>1 DEF IInv, StartsAlone
<1> QED
  BY <1>1, <1>3, <1>5, <1>6 DEF g

\* A system call that leaves the file alone.
LEMMA StagingInv ==
  ASSUME IInv, NEW w \in Writers, UNCHANGED path,
         \/ Advance(w, "captured", "written")
         \/ Advance(w, "written", "synced")
  PROVE  IInv'
<1>1. PICK from \in {"captured", "written"}, to \in {"written", "synced"} : Advance(w, from, to)
  OBVIOUS
<1>2. UNCHANGED <<core, path, durable, refused, key, app, track, notice, edits, stops>>
  BY <1>1 DEF Advance, bounds
<1>3. /\ save[w].pc = from /\ save'[w].pc = to /\ app # "starts"
      /\ save'[w].file \in File /\ Readable(save'[w].file)
      /\ save'[w].file.synced <=> to \in {"synced", "renamed"}
      /\ save'[w].file.state = save[w].file.state
      /\ \A v \in Writers : v # w => save'[v] = save[v]
      /\ save' \in [Writers -> SaveRecord]
  <2> HIDE DEF File, NoFile, Readable
  <2>1. from \in {"captured", "written", "synced"} /\ to \in {"written", "synced", "renamed"}
    OBVIOUS
  <2> QED
    BY <1>1, <2>1, AdvanceSave
<1>4. TypeOK'
  BY <1>2, <1>3 DEF IInv, TypeOK
<1>5. SavesAreWhole' /\ StartsAlone' /\ FilesAreSynced'
  BY <1>2, <1>3 DEF IInv, SavesAreWhole, StartsAlone, FilesAreSynced
<1>6. NothingIsNewer' /\ SavedIsThere' /\ ReportDescribesFile'
  BY <1>2, <1>3 DEF IInv, NothingIsNewer, SavedIsThere, ReportDescribesFile
<1> QED
  BY <1>4, <1>5, <1>6 DEF IInv

\* The rename installs what was synced.
LEMMA RenameInv ==
  ASSUME IInv, NEW w \in Writers, Rename(w)
  PROVE  IInv'
<1>1. /\ Advance(w, "synced", "renamed") /\ path' = save[w].file
      /\ UNCHANGED <<core, durable, refused, key, app, track, notice, edits, stops>>
  BY DEF Rename, Advance, bounds
<1>2. /\ save[w].pc = "synced" /\ save'[w].pc = "renamed" /\ app # "starts"
      /\ save'[w].file \in File /\ Readable(save'[w].file) /\ save'[w].file.synced
      /\ save'[w].file.state = save[w].file.state
      /\ \A v \in Writers : v # w => save'[v] = save[v]
      /\ save' \in [Writers -> SaveRecord]
  BY <1>1, AdvanceSave
<1>3. path' \in File /\ path'.synced /\ Readable(path')
  BY <1>1, <1>2 DEF IInv, SavesAreWhole
<1>4. TypeOK'
  BY <1>1, <1>2, <1>3 DEF IInv, TypeOK
<1>5. SavesAreWhole' /\ StartsAlone' /\ FilesAreSynced'
  BY <1>1, <1>2, <1>3 DEF IInv, SavesAreWhole, StartsAlone, FilesAreSynced
<1>6. NothingIsNewer' /\ SavedIsThere' /\ ReportDescribesFile'
  BY <1>1, <1>2, <1>3 DEF IInv, NothingIsNewer, SavedIsThere, ReportDescribesFile
<1> QED
  BY <1>4, <1>5, <1>6 DEF IInv

\* A save that is over has left nothing behind that a later one could meet.
LEMMA SaveEnds ==
  ASSUME IInv, NEW w \in Writers, SaveReturns(w), save[w].pc # "idle"
  PROVE  /\ save'[w] = [pc |-> "idle", file |-> NoFile]
         /\ \A v \in Writers : v # w => save'[v] = save[v]
         /\ save' \in [Writers -> SaveRecord]
         /\ app # "starts" /\ app' = "runs"
         /\ SavesAreWhole'
  BY DEF SaveReturns, NoSave, IInv, TypeOK, SaveRecord, SavesAreWhole, StartsAlone

LEMMA WriteFailsInv ==
  ASSUME IInv, NEW w \in Writers, WriteFails(w)
  PROVE  IInv'
<1>1. /\ save[w].pc \in {"captured", "written", "synced"} /\ SaveReturns(w)
      /\ UNCHANGED <<core, path, durable, refused, key, track, notice, edits, stops>>
  BY DEF WriteFails, disk, bounds
<1>2. /\ save'[w] = [pc |-> "idle", file |-> NoFile]
      /\ \A v \in Writers : v # w => save'[v] = save[v]
      /\ save' \in [Writers -> SaveRecord]
      /\ app # "starts" /\ app' = "runs"
      /\ SavesAreWhole'
  BY <1>1, SaveEnds
<1>3. TypeOK'
  BY <1>1, <1>2 DEF IInv, TypeOK
<1>4. StartsAlone' /\ FilesAreSynced' /\ NothingIsNewer'
  BY <1>1, <1>2 DEF IInv, StartsAlone, FilesAreSynced, NothingIsNewer
<1>5. SavedIsThere' /\ ReportDescribesFile'
  BY <1>1, <1>2 DEF IInv, SavedIsThere, ReportDescribesFile
<1> QED
  BY <1>2, <1>3, <1>4, <1>5 DEF IInv

\* The record looks at the file that is there.
LEMMA RecordSaveInv ==
  ASSUME IInv, NEW w \in Writers, RecordSave(w)
  PROVE  IInv'
<1>1. /\ save[w].pc = "renamed" /\ SaveReturns(w)
      /\ track' = [track EXCEPT !.size = Bytes(path), !.version = CURRENT_SCHEMA_VERSION,
                                !.saved = TRUE]
      /\ UNCHANGED <<core, path, durable, refused, key, notice, edits, stops>>
  BY DEF RecordSave, disk, bounds
<1>2. /\ save'[w] = [pc |-> "idle", file |-> NoFile]
      /\ \A v \in Writers : v # w => save'[v] = save[v]
      /\ save' \in [Writers -> SaveRecord]
      /\ app # "starts" /\ app' = "runs"
      /\ SavesAreWhole'
  BY <1>1, SaveEnds
<1>3. path \in File
  BY <1>1 DEF IInv, TypeOK, SavedIsThere
<1>4. Bytes(path) \in Nat
  BY <1>3, BytesTyped
<1>5. /\ track' \in [size : Nat, version : {0} \cup Versions, quarantined : BOOLEAN,
                     saved : BOOLEAN, loaded : BOOLEAN]
      /\ track'.size = Bytes(path)
  BY <1>1, <1>4 DEF IInv, TypeOK
<1>6. TypeOK'
  BY <1>1, <1>2, <1>5 DEF IInv, TypeOK
<1>7. StartsAlone' /\ FilesAreSynced' /\ NothingIsNewer'
  BY <1>1, <1>2 DEF IInv, StartsAlone, FilesAreSynced, NothingIsNewer
<1>8. SavedIsThere' /\ ReportDescribesFile'
  BY <1>1, <1>3, <1>5 DEF SavedIsThere, ReportDescribesFile
<1> QED
  BY <1>2, <1>6, <1>7, <1>8 DEF IInv

-----------------------------------------------------------------------------
(* The rest of the system. *)

LEMMA EditInv ==
  ASSUME IInv, Edit
  PROVE  IInv'
<1>1. /\ core' \in State /\ core'.edits = core.edits + 1
      /\ edits' \in 0..MaxEdits
      /\ UNCHANGED <<path, durable, refused, save, key, app, track, notice, stops>>
  BY DEF IInv, TypeOK, Edit, disk
<1>2. TypeOK'
  BY <1>1 DEF IInv, TypeOK
<1>3. SavesAreWhole' /\ StartsAlone' /\ FilesAreSynced' /\ SavedIsThere' /\ ReportDescribesFile'
  BY <1>1 DEF IInv, SavesAreWhole, StartsAlone, FilesAreSynced, SavedIsThere, ReportDescribesFile
<1>4. NothingIsNewer'
  <2> SUFFICES ASSUME app # "starts" PROVE NothingIsNewer'
    BY <1>1 DEF NothingIsNewer
  <2>1. core.edits \in Nat /\ core.edits <= core'.edits
    BY <1>1 DEF IInv, TypeOK
  <2>2. Readable(path) => path.state.edits \in Nat
    BY DEF IInv, TypeOK
  <2>3. \A w \in Writers : save[w].pc # "idle" => save[w].file.state.edits \in Nat
    BY DEF IInv, SavesAreWhole
  <2> QED
    BY <1>1, <2>1, <2>2, <2>3 DEF IInv, NothingIsNewer
<1> QED
  BY <1>2, <1>3, <1>4 DEF IInv

\* Steps that no part of the invariant but the types can notice.
LEMMA AsideInv ==
  ASSUME IInv, Settle \/ LoseKey \/ Dismiss
  PROVE  IInv'
<1>1. /\ UNCHANGED <<core, path, refused, save, app, track, edits, stops>>
      /\ durable' \in {path, durable} /\ key' \in 0..MaxKeys
      /\ notice' \in {"undismissed", "dismissed"}
  BY DEF IInv, TypeOK, Settle, LoseKey, Dismiss, disk, bounds
<1>2. TypeOK'
  BY <1>1 DEF IInv, TypeOK
<1>3. SavesAreWhole' /\ StartsAlone' /\ FilesAreSynced'
  BY <1>1 DEF IInv, SavesAreWhole, StartsAlone, FilesAreSynced
<1>4. NothingIsNewer' /\ SavedIsThere' /\ ReportDescribesFile'
  BY <1>1 DEF IInv, NothingIsNewer, SavedIsThere, ReportDescribesFile
<1> QED
  BY <1>2, <1>3, <1>4 DEF IInv

\* A power loss brings back the file that was written out, whole.
LEMMA PowerLossKeeps ==
  ASSUME IInv, PowerLoss
  PROVE  path' = durable /\ durable' = durable
  BY DEF IInv, FilesAreSynced, PowerLoss, Restart

LEMMA RestartInv ==
  ASSUME IInv, Killed \/ PowerLoss
  PROVE  IInv'
<1>1. /\ path' \in {path, durable} /\ durable' = durable /\ refused' = NoFile
      /\ core' = EmptyCore /\ app' = "starts" /\ track' = NoTrack
      /\ save' = [w \in Writers |-> NoSave]
      /\ stops' \in 0..MaxStops
      /\ UNCHANGED <<key, notice, edits>>
  <2>1. \E f : Restart(f)
    BY DEF Killed, PowerLoss
  <2>2. path' \in {path, durable} /\ durable' = durable
    BY PowerLossKeeps DEF Killed, Restart
  <2>3. stops' \in 0..MaxStops
    BY <2>1 DEF Restart, IInv, TypeOK
  <2> QED
    BY <2>1, <2>2, <2>3 DEF Restart
<1>2. TypeOK'
  BY <1>1, EmptyCoreTyped DEF IInv, TypeOK, SaveRecord, NoSave, NoTrack
<1>3. SavesAreWhole' /\ StartsAlone' /\ FilesAreSynced'
  BY <1>1 DEF IInv, SavesAreWhole, StartsAlone, FilesAreSynced, NoSave, NoTrack
<1>4. NothingIsNewer' /\ SavedIsThere' /\ ReportDescribesFile'
  BY <1>1 DEF NothingIsNewer, SavedIsThere, ReportDescribesFile, NoSave, NoTrack
<1> QED
  BY <1>2, <1>3, <1>4 DEF IInv

LEMMA WriterInv ==
  ASSUME IInv, NEW w \in Writers, WriterStep(w)
  PROVE  IInv'
<1>1. CASE Save(w)
  BY <1>1, BeginSaveInv DEF Save
<1>2. CASE Migrate(w)
  BY <1>2, BeginSaveInv DEF Migrate
<1>3. CASE WriteAll(w) \/ SyncAll(w)
  BY <1>3, StagingInv DEF WriteAll, SyncAll
<1>4. CASE Rename(w)
  BY <1>4, RenameInv
<1>5. CASE WriteFails(w)
  BY <1>5, WriteFailsInv
<1>6. CASE RecordSave(w)
  BY <1>6, RecordSaveInv
<1> QED
  BY <1>1, <1>2, <1>3, <1>4, <1>5, <1>6 DEF WriterStep

LEMMA NextIInv == IInv /\ [Next]_vars => IInv'
<1> SUFFICES ASSUME IInv, [Next]_vars PROVE IInv'
  OBVIOUS
<1>1. CASE RestoreSucceeds
  BY <1>1, RestoreSucceedsInv
<1>2. CASE RestoreFails
  BY <1>2, RestoreFailsInv
<1>3. CASE \E w \in Writers : WriterStep(w)
  BY <1>3, WriterInv
<1>4. CASE Edit
  BY <1>4, EditInv
<1>5. CASE Settle \/ LoseKey \/ Dismiss
  BY <1>5, AsideInv
<1>6. CASE Killed \/ PowerLoss
  BY <1>6, RestartInv
<1>7. CASE UNCHANGED vars
  BY <1>7 DEF vars, disk, bounds, IInv, TypeOK, SavesAreWhole, StartsAlone, FilesAreSynced,
              NothingIsNewer, SavedIsThere, ReportDescribesFile
<1> QED
  BY <1>1, <1>2, <1>3, <1>4, <1>5, <1>6, <1>7 DEF Next

\* The invariant holds in every reachable state.
THEOREM Invariance == Spec => []IInv
  BY InitIInv, NextIInv, PTL DEF Spec

\* Types are kept, by every load, save and restart.
THEOREM TypesHold == Spec => []TypeOK
<1>1. IInv => TypeOK
  BY DEF IInv
<1> QED
  BY <1>1, Invariance, PTL

\* No save takes data back: a running app holds at least what its file holds,
\* unless the start refused that file and could not set it aside.
THEOREM MemoryCovers == Spec => []MemoryCoversDisk
<1>1. IInv => MemoryCoversDisk
  BY DEF IInv, NothingIsNewer, MemoryCoversDisk
<1> QED
  BY <1>1, Invariance, PTL

\* The diagnostics report describes the file that is there, whichever save
\* came last.
THEOREM ReportIsTrue == Spec => []ReportDescribesFile
<1>1. IInv => ReportDescribesFile
  BY DEF IInv
<1> QED
  BY <1>1, Invariance, PTL

-----------------------------------------------------------------------------
(* The refinement of AtomicFile. *)

InFlight == {save[w].file.state.edits : w \in Staged}

\* The variables of the promise, as StateFile sees them.
LEMMA Mapping ==
  /\ (UNCHANGED Promise!vars) <=> UNCHANGED <<core.edits, Whole(path), Whole(durable), InFlight>>
  /\ Promise!Edit <=>
       /\ core.edits' = core.edits + 1
       /\ UNCHANGED <<Whole(path), Whole(durable), InFlight>>
  /\ Promise!Capture <=>
       InFlight' = InFlight \cup {core.edits} /\ UNCHANGED <<core.edits, Whole(path), Whole(durable)>>
  /\ Promise!GiveUp <=>
       InFlight' \in SUBSET InFlight /\ UNCHANGED <<core.edits, Whole(path), Whole(durable)>>
  /\ Promise!Install <=>
       /\ \E state \in InFlight : Whole(path)' = state
       /\ InFlight' \in SUBSET InFlight
       /\ UNCHANGED <<core.edits, Whole(durable)>>
  /\ Promise!Settle <=>
       Whole(durable)' = Whole(path) /\ UNCHANGED <<core.edits, Whole(path), InFlight>>
  /\ Promise!Stop <=>
       /\ core.edits' = 0
       /\ Whole(path)' \in {Whole(path), Whole(durable)}
       /\ InFlight' = {}
       /\ UNCHANGED Whole(durable)
  /\ Promise!Restore <=>
       \/ core.edits' = Whole(path) /\ UNCHANGED <<Whole(path), Whole(durable), InFlight>>
       \/ Whole(path)' = -1 /\ UNCHANGED <<core.edits, Whole(durable), InFlight>>
  BY DEF InFlight, Promise!vars, Promise!Edit, Promise!Capture, Promise!GiveUp, Promise!Install,
         Promise!Settle, Promise!Stop, Promise!Restore

\* Saves that keep their place before the rename, and what they carry.
LEMMA InFlightKept ==
  ASSUME Staged' = Staged,
         \A w \in Staged : save'[w].file.state.edits = save[w].file.state.edits
  PROVE  InFlight' = InFlight
  BY DEF InFlight

LEMMA InFlightShrinks ==
  ASSUME NEW w \in Writers, Staged' = Staged \ {w},
         \A v \in Writers : v # w => save'[v] = save[v]
  PROVE  InFlight' \in SUBSET InFlight
<1>1. \A v \in Staged' : v \in Staged /\ save'[v].file.state.edits = save[v].file.state.edits
  BY DEF Staged
<1> QED
  BY <1>1 DEF InFlight

LEMMA InitRefines == Init => Promise!Init
<1> SUFFICES ASSUME Init PROVE Promise!Init
  OBVIOUS
<1>1. core.edits = 0 /\ durable = path
  BY EmptyCoreTyped DEF Init
<1>2. Whole(path) \in Nat \cup {-1, -2}
  <2>1. path \in File \cup {NoFile}
    BY InitIInv DEF IInv, TypeOK
  <2>2. path \in File => path.state.edits \in Nat
    <3>1. path \in File => path.state \in State
      OBVIOUS
    <3> QED
      BY <3>1
  <2> QED
    BY <2>1, <2>2 DEF Whole
<1>3. Staged = {}
  BY DEF Init, Staged, NoSave
<1>4. {save[w].file.state.edits : w \in Staged} = {}
  BY <1>3
<1> QED
  BY <1>1, <1>2, <1>4 DEF Promise!Init

\* A restored file becomes the core; a refused one is gone, or as it was.
LEMMA RestoreRefines ==
  ASSUME IInv, RestoreSucceeds \/ RestoreFails
  PROVE  Promise!Restore \/ UNCHANGED Promise!vars
<1>1. UNCHANGED <<durable, save>>
  BY DEF RestoreSucceeds, RestoreFails, disk
<1>2. InFlight' = InFlight /\ Whole(durable)' = Whole(durable)
  BY <1>1 DEF InFlight, Staged, Whole
<1>3. CASE RestoreSucceeds
  <2>1. path \in File \cup {NoFile} /\ path' = path
    BY <1>3 DEF IInv, TypeOK, RestoreSucceeds, disk
  <2>2. Whole(path)' = Whole(path)
    BY <2>1 DEF Whole
  <2>3. CASE LoadStateEncrypted(path) = "Missing"
    <3>1. core' = core
      BY <1>3, <2>3 DEF RestoreSucceeds
    <3> QED
      BY <1>2, <2>2, <3>1, Mapping
  <2>4. CASE LoadStateEncrypted(path) \in {"Encrypted", "PlaintextLegacy"}
    <3>1. Readable(path)
      BY <2>1, <2>4, LoadedIsReadable
    <3>2. core' = path.state
      BY <1>3, <2>4 DEF RestoreSucceeds
    <3>3. core.edits' = Whole(path)
      BY <3>1, <3>2 DEF Whole
    <3> QED
      BY <1>2, <2>2, <3>3, Mapping
  <2> QED
    BY <1>3, <2>3, <2>4 DEF RestoreSucceeds
<1>4. CASE RestoreFails
  <2>1. core' = core /\ path' \in {NoFile, path}
    BY <1>4 DEF RestoreFails
  <2>2. CASE path' = NoFile
    BY <1>2, <2>1, <2>2, Mapping DEF Whole
  <2>3. CASE path' = path
    BY <1>2, <2>1, <2>3, Mapping DEF Whole
  <2> QED
    BY <2>1, <2>2, <2>3
<1> QED
  BY <1>3, <1>4

LEMMA WriterRefines ==
  ASSUME IInv, NEW w \in Writers, WriterStep(w)
  PROVE  Promise!Next \/ UNCHANGED Promise!vars
<1>1. ASSUME NEW form, BeginSave(w, form)
      PROVE  Promise!Capture
  <2>1. /\ save[w].pc = "idle" /\ save'[w].pc = "captured" /\ save'[w].file.state = core
        /\ \A v \in Writers : v # w => save'[v] = save[v]
        /\ UNCHANGED <<core, path, durable>>
    BY <1>1 DEF BeginSave, disk, IInv, TypeOK
  <2>2. Staged' = Staged \cup {w} /\ w \notin Staged
    BY <2>1 DEF Staged
  <2>3. \A v \in Staged : save'[v].file.state.edits = save[v].file.state.edits
    BY <2>1, <2>2 DEF Staged
  <2>4. InFlight' = InFlight \cup {core.edits}
    BY <2>1, <2>2, <2>3 DEF InFlight
  <2> QED
    BY <2>1, <2>4, Mapping DEF Whole
<1>2. CASE Save(w) \/ Migrate(w)
  <2>1. PICK form : BeginSave(w, form)
    BY <1>2 DEF Save, Migrate
  <2> QED
    BY <1>1, <2>1 DEF Promise!Next
<1>3. CASE WriteAll(w) \/ SyncAll(w)
  <2>1. PICK from \in {"captured", "written"}, to \in {"written", "synced"} :
               Advance(w, from, to) /\ (from = "captured" <=> to = "written")
    BY <1>3 DEF WriteAll, SyncAll
  <2>3. /\ save[w].pc = from /\ save'[w].pc = to
        /\ save'[w].file.state = save[w].file.state
        /\ \A v \in Writers : v # w => save'[v] = save[v]
    <3> HIDE DEF File, NoFile, Readable
    <3>1. CASE Advance(w, "captured", "written")
      <4>1. save[w].pc = "captured" /\ save[w].pc = from
        BY <2>1, <3>1 DEF Advance
      <4> QED
        BY <2>1, <3>1, <4>1, AdvanceSave
    <3>2. CASE Advance(w, "written", "synced")
      <4>1. save[w].pc = "written" /\ save[w].pc = from
        BY <2>1, <3>2 DEF Advance
      <4> QED
        BY <2>1, <3>2, <4>1, AdvanceSave
    <3> QED
      BY <2>1, <3>1, <3>2
  <2>4. UNCHANGED <<core, path, durable>>
    BY <1>3 DEF WriteAll, SyncAll, Advance
  <2>5. Staged' = Staged
    BY <2>3 DEF Staged
  <2>6. \A v \in Staged : save'[v].file.state.edits = save[v].file.state.edits
    BY <2>3 DEF Staged
  <2>7. InFlight' = InFlight
    BY <2>5, <2>6, InFlightKept
  <2> QED
    BY <2>4, <2>7, Mapping DEF Whole
<1>4. CASE Rename(w)
  <2>1. Advance(w, "synced", "renamed") /\ path' = save[w].file /\ UNCHANGED <<core, durable>>
    BY <1>4 DEF Rename, Advance
  <2>2. /\ save[w].pc = "synced" /\ save'[w].pc = "renamed"
        /\ \A v \in Writers : v # w => save'[v] = save[v]
    <3> HIDE DEF File, NoFile, Readable
    <3> QED
      BY <2>1, AdvanceSave
  <2>3. Readable(save[w].file)
    BY <2>2 DEF IInv, SavesAreWhole
  <2>4. Whole(path)' = save[w].file.state.edits
    BY <2>1, <2>3 DEF Whole
  <2>5. w \in Staged /\ Staged' = Staged \ {w}
    BY <2>2 DEF Staged
  <2>6. save[w].file.state.edits \in InFlight
    BY <2>5 DEF InFlight
  <2>7. InFlight' \in SUBSET InFlight
    BY <2>2, <2>5, InFlightShrinks
  <2>8. Promise!Install
    BY <2>1, <2>4, <2>6, <2>7, Mapping DEF Whole
  <2> QED
    BY <2>8 DEF Promise!Next
<1>5. CASE WriteFails(w) \/ RecordSave(w)
  <2>1. save[w].pc # "idle" /\ SaveReturns(w) /\ UNCHANGED <<core, path, durable>>
    BY <1>5 DEF WriteFails, RecordSave, disk
  <2>2. save'[w] = NoSave /\ \A v \in Writers : v # w => save'[v] = save[v]
    BY <2>1, SaveEnds DEF NoSave
  <2>3. Staged' = Staged \ {w}
    BY <2>2 DEF Staged, NoSave
  <2>4. InFlight' \in SUBSET InFlight
    BY <2>2, <2>3, InFlightShrinks
  <2>5. Promise!GiveUp
    BY <2>1, <2>4, Mapping DEF Whole
  <2> QED
    BY <2>5 DEF Promise!Next
<1> QED
  BY <1>2, <1>3, <1>4, <1>5 DEF WriterStep

\* Every kill and every power loss is a stop of the promise.
LEMMA RestartRefines ==
  ASSUME IInv, Killed \/ PowerLoss
  PROVE  Promise!Stop
<1>1. \E f : Restart(f)
  BY DEF Killed, PowerLoss
<1>2. path' \in {path, durable} /\ durable' = durable
  BY PowerLossKeeps DEF Killed, Restart
<1>3. core'.edits = 0
  BY <1>1, EmptyCoreTyped DEF Restart
<1>4. Staged' = {}
  BY <1>1 DEF Restart, Staged, NoSave
<1>5. InFlight' = {}
  BY <1>4 DEF InFlight
<1> QED
  BY <1>2, <1>3, <1>5, Mapping DEF Whole

LEMMA NextRefines == IInv /\ [Next]_vars => [Promise!Next]_(Promise!vars)
<1> SUFFICES ASSUME IInv, [Next]_vars PROVE Promise!Next \/ UNCHANGED Promise!vars
  OBVIOUS
<1>1. CASE RestoreSucceeds \/ RestoreFails
  BY <1>1, RestoreRefines DEF Promise!Next
<1>2. CASE \E w \in Writers : WriterStep(w)
  BY <1>2, WriterRefines
<1>3. CASE Edit
  <2>1. core'.edits = core.edits + 1 /\ UNCHANGED <<path, durable, save>>
    BY <1>3 DEF Edit, disk
  <2>2. Promise!Edit
    BY <2>1, Mapping DEF Whole, InFlight, Staged
  <2> QED
    BY <2>2 DEF Promise!Next
<1>4. CASE Settle
  <2>1. durable' = path /\ UNCHANGED <<core, path, save>>
    BY <1>4 DEF Settle
  <2>2. Promise!Settle
    BY <2>1, Mapping DEF Whole, InFlight, Staged
  <2> QED
    BY <2>2 DEF Promise!Next
<1>5. CASE LoseKey \/ Dismiss \/ UNCHANGED vars
  <2>1. UNCHANGED <<core, path, durable, save>>
    BY <1>5 DEF LoseKey, Dismiss, vars, disk
  <2> QED
    BY <2>1, Mapping DEF Whole, InFlight, Staged
<1>6. CASE Killed \/ PowerLoss
  BY <1>6, RestartRefines DEF Promise!Next
<1> QED
  BY <1>1, <1>2, <1>3, <1>4, <1>5, <1>6 DEF Next

\* write_atomic keeps the promise of AtomicFile: whatever any number of
\* writers interleave, and wherever kills and power losses fall, the file goes
\* from one complete state of the core to another.
THEOREM FileIsAtomic == Spec => ImplementsAtomicFile
  BY InitRefines, NextRefines, Invariance, PTL DEF Spec, ImplementsAtomicFile, Promise!Spec

=============================================================================
