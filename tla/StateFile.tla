------------------------------- MODULE StateFile -------------------------------
(***************************************************************************)
(* The state file (persistence.rs, state_cipher.rs), the calls of the      *)
(* handle that write and read it (ffi.rs), and how the gateway restores it *)
(* at a start (MindChatGateway.kt, StateKey.kt).                           *)
(*                                                                         *)
(* A save captures the core under the session lock and writes outside it,  *)
(* so that several writers may be anywhere between the creation of their   *)
(* staging file and its rename.  The process may be killed and the device  *)
(* may lose power between any two steps.                                   *)
(*                                                                         *)
(* A state of the core is the number of edits it has seen and the size of  *)
(* its serialized form.                                                    *)
(***************************************************************************)
EXTENDS Integers, FiniteSets

CONSTANTS
  Writers,     \* threads that may save
  Forms,       \* what save_state and save_state_secured write: "plain", "sealed"
  Sizes,       \* sizes of a serialized state
  MaxBytes,    \* MAX_STATE_FILE_BYTES
  Overhead,    \* MIN_ENCRYPTED_LEN: what encryption adds
  MaxEdits,    \* bound: edits
  MaxKeys,     \* bound: keys that are lost
  MaxStops     \* bound: kills and power losses

ASSUME StateFileAssumption ==
  /\ Writers # {}
  /\ Forms # {} /\ Forms \subseteq {"plain", "sealed"}
  /\ Sizes # {} /\ Sizes \subseteq Nat
  /\ {MaxBytes, Overhead, MaxEdits, MaxKeys, MaxStops} \subseteq Nat

VARIABLES
  core,     \* the core in memory
  path,     \* the state file, as the system shows it
  durable,  \* the state file, as a power loss would leave it
  refused,  \* the file that this start could not restore; renamed aside unless that fails
  save,     \* the save of each writer
  key,      \* the key that stateKey returns
  app,      \* the start, the migration of a legacy file, or the running app
  track,    \* PersistenceTrack
  notice,   \* whether the user has dismissed the quarantine notice
  edits, stops  \* counters of the bounds

disk == <<path, durable, refused>>
bounds == <<edits, stops>>
vars == <<core, disk, save, key, app, track, notice, bounds>>

-----------------------------------------------------------------------------
(* Data. *)

CURRENT_SCHEMA_VERSION == 1
Versions == {CURRENT_SCHEMA_VERSION, 2}

State == [edits : Nat, size : Sizes]
EmptyCore == [edits |-> 0, size |-> CHOOSE s \in Sizes : \A t \in Sizes : s <= t]

NoFile == [form |-> "none"]
File == [form : {"plain", "sealed", "torn", "garbage"}, state : State,
         key : Nat, version : Versions, synced : BOOLEAN]

Bytes(file) == file.state.size + (IF file.form = "sealed" THEN Overhead ELSE 0)

NoTrack == [size |-> 0, version |-> 0, quarantined |-> FALSE, saved |-> FALSE, loaded |-> FALSE]
NoSave == [pc |-> "idle", file |-> NoFile]
SaveRecord == [pc : {"idle", "captured", "written", "synced", "renamed"}, file : File \cup {NoFile}]

\* A file that an earlier launch, an earlier release or a later one left.
Found ==
  LET saved == [form : {"plain", "sealed"}, state : [edits : {1}, size : {s \in Sizes : s <= MaxBytes}],
                key : {0}, version : Versions, synced : {TRUE}]
  IN {NoFile} \cup saved \cup {[f EXCEPT !.form = "garbage", !.version = CURRENT_SCHEMA_VERSION] : f \in saved}

TypeOK ==
  /\ core \in State
  /\ {path, durable, refused} \subseteq File \cup {NoFile}
  /\ save \in [Writers -> SaveRecord]
  /\ key \in 0..MaxKeys
  /\ app \in {"starts", "migrates", "runs"}
  /\ track \in [size : Nat, version : {0} \cup Versions, quarantined : BOOLEAN,
                saved : BOOLEAN, loaded : BOOLEAN]
  /\ notice \in {"undismissed", "dismissed"}
  /\ edits \in 0..MaxEdits /\ stops \in 0..MaxStops

Init ==
  /\ core = EmptyCore
  /\ path \in Found /\ durable = path /\ refused = NoFile
  /\ save = [w \in Writers |-> NoSave]
  /\ key = 0 /\ app = "starts" /\ track = NoTrack
  /\ notice = "undismissed"
  /\ edits = 0 /\ stops = 0

-----------------------------------------------------------------------------
(* Loading. *)

\* parse_state_bytes.
ParseStateBytes(file) ==
  IF file.form \in {"torn", "garbage"} THEN "Corrupt"
  ELSE IF file.version # CURRENT_SCHEMA_VERSION THEN "UnsupportedVersion"
  ELSE "Loaded"

\* decrypt_state opens a file only under the key that sealed it.
DecryptState(file) == file.key = key

\* load_state_encrypted: an encrypted file carries the magic header; any
\* other is parsed as a legacy file.
LoadStateEncrypted(file) ==
  IF file = NoFile THEN "Missing"
  ELSE IF Bytes(file) > MaxBytes THEN "TooLarge"
  ELSE IF file.form = "sealed" /\ ~DecryptState(file) THEN "Decryption"
  ELSE IF ParseStateBytes(file) # "Loaded" THEN ParseStateBytes(file)
  ELSE IF file.form = "sealed" THEN "Encrypted"
  ELSE "PlaintextLegacy"

\* record_load_secured, record_load_missing and record_load_failure.
RecordLoad(outcome) ==
  track' = [track EXCEPT
    !.loaded = TRUE,
    !.size = IF outcome = "Missing" THEN @ ELSE Bytes(path),
    !.version = IF outcome \in {"Encrypted", "PlaintextLegacy", "UnsupportedVersion"}
                THEN path.version ELSE @,
    !.quarantined = @ \/ outcome \notin {"Encrypted", "PlaintextLegacy", "Missing"}]

\* Variant: a legacy file does not replace the core.
RestoreSucceedsSealed ==
  /\ app = "starts"
  /\ LET outcome == LoadStateEncrypted(path) IN
       /\ outcome \in {"Missing", "Encrypted", "PlaintextLegacy"}
       /\ core' = IF outcome = "Encrypted" THEN path.state ELSE core
       /\ RecordLoad(outcome)
       /\ app' = IF outcome = "PlaintextLegacy" THEN "migrates" ELSE "runs"
  /\ UNCHANGED <<disk, save, key, notice, bounds>>

\* restoreState when load_state_secured returns: the core is replaced, and a
\* legacy file is saved again at once.
RestoreSucceeds ==
  /\ app = "starts"
  /\ LET outcome == LoadStateEncrypted(path) IN
       /\ outcome \in {"Missing", "Encrypted", "PlaintextLegacy"}
       /\ core' = IF outcome = "Missing" THEN core ELSE path.state
       /\ RecordLoad(outcome)
       /\ app' = IF outcome = "PlaintextLegacy" THEN "migrates" ELSE "runs"
  /\ UNCHANGED <<disk, save, key, notice, bounds>>

\* restoreState when it fails: because of what the file holds, because the
\* system refuses to read it, or because stateKey throws, which the core does
\* not hear of.  The file is renamed aside, when that works.
RestoreFails ==
  /\ app = "starts"
  /\ path # NoFile
  /\ \/ \E outcome \in {LoadStateEncrypted(path), "Io"} :
          outcome \notin {"Encrypted", "PlaintextLegacy"} /\ RecordLoad(outcome)
     \/ UNCHANGED track
  /\ refused' = path
  /\ path' \in {NoFile, path}
  /\ app' = "runs"
  /\ UNCHANGED <<core, durable, save, key, notice, bounds>>

-----------------------------------------------------------------------------
(* Saving. *)

\* Variant: the version is left at its default.
BeginSaveUnversioned(w, form) ==
  /\ save[w].pc = "idle"
  /\ core.size <= MaxBytes
  /\ save' = [save EXCEPT ![w] =
       [pc |-> "captured",
        file |-> [form |-> form, state |-> core, key |-> key, version |-> 0, synced |-> FALSE]]]
  /\ UNCHANGED <<core, disk, key, track, notice, bounds>>

\* save_state and save_state_encrypted up to write_atomic: the snapshot is
\* taken under the session lock, and a serialized form over the bound is
\* refused.
BeginSave(w, form) ==
  /\ save[w].pc = "idle"
  /\ core.size <= MaxBytes
  /\ save' = [save EXCEPT ![w] =
       [pc |-> "captured",
        file |-> [form |-> form, state |-> core, key |-> key,
                  version |-> CURRENT_SCHEMA_VERSION, synced |-> FALSE]]]
  /\ UNCHANGED <<core, disk, key, track, notice, bounds>>

Save(w) == app = "runs" /\ (\E form \in Forms : BeginSave(w, form)) /\ UNCHANGED app

\* The start waits for the migration and does not look at what becomes of it.
Migrate(w) ==
  /\ app = "migrates" /\ \A v \in Writers : save[v].pc = "idle"
  /\ BeginSave(w, "sealed")
  /\ UNCHANGED app

SaveReturns(w) ==
  /\ save' = [save EXCEPT ![w] = NoSave]
  /\ app' = "runs"

Advance(w, from, to) ==
  /\ save[w].pc = from
  /\ save' = [save EXCEPT ![w].pc = to, ![w].file.synced = to \in {"synced", "renamed"}]
  /\ UNCHANGED <<core, durable, refused, key, app, track, notice, bounds>>

\* Variant: a file is renamed before it is synced.
RenameUnsynced(w) == Advance(w, "written", "renamed") /\ path' = save[w].file

\* write_atomic: File::create of a name of its own and write_all, sync_all, rename.
WriteAll(w) == Advance(w, "captured", "written") /\ UNCHANGED path
SyncAll(w) == Advance(w, "written", "synced") /\ UNCHANGED path
Rename(w) == Advance(w, "synced", "renamed") /\ path' = save[w].file

\* A step that the system refuses ends the save; the staging file is removed
\* or left behind, and no later save has its name.
WriteFails(w) ==
  /\ save[w].pc \in {"captured", "written", "synced"}
  /\ SaveReturns(w)
  /\ UNCHANGED <<core, disk, key, track, notice, bounds>>

\* Variant: the size is that of what this save wrote.
RecordSaveWritten(w) ==
  /\ save[w].pc = "renamed"
  /\ track' = [track EXCEPT !.size = Bytes(save[w].file), !.version = CURRENT_SCHEMA_VERSION,
                            !.saved = TRUE]
  /\ SaveReturns(w)
  /\ UNCHANGED <<core, disk, key, notice, bounds>>

\* record_save and record_save_secured: the size is that of the file that is
\* there when they look.
RecordSave(w) ==
  /\ save[w].pc = "renamed"
  /\ track' = [track EXCEPT !.size = Bytes(path), !.version = CURRENT_SCHEMA_VERSION,
                            !.saved = TRUE]
  /\ SaveReturns(w)
  /\ UNCHANGED <<core, disk, key, notice, bounds>>

-----------------------------------------------------------------------------
(* The rest of the system. *)

\* A mutation of the core changes its size too.
Edit ==
  /\ app = "runs" /\ edits < MaxEdits
  /\ \E s \in Sizes : core' = [edits |-> core.edits + 1, size |-> s]
  /\ edits' = edits + 1
  /\ UNCHANGED <<disk, save, key, app, track, notice, stops>>

\* The file system writes a rename out in its own time.
Settle ==
  /\ durable # path
  /\ durable' = path
  /\ UNCHANGED <<core, path, refused, save, key, app, track, notice, bounds>>

\* stateKey cannot unwrap the stored key and makes a new one.
LoseKey ==
  /\ key < MaxKeys
  /\ key' = key + 1
  /\ UNCHANGED <<core, disk, save, app, track, notice, bounds>>

\* dismissDiagnosticsNotice: the dismissal is remembered across restarts.
Dismiss ==
  /\ app = "runs" /\ track.quarantined /\ notice = "undismissed"
  /\ notice' = "dismissed"
  /\ UNCHANGED <<core, disk, save, key, app, track, bounds>>

Restart(file) ==
  /\ stops < MaxStops
  /\ stops' = stops + 1
  /\ path' = file /\ refused' = NoFile
  /\ core' = EmptyCore /\ save' = [w \in Writers |-> NoSave]
  /\ app' = "starts" /\ track' = NoTrack
  /\ UNCHANGED <<key, notice, edits>>

\* A kill keeps every finished system call.
Killed == Restart(path) /\ UNCHANGED durable

\* A power loss keeps what was written out, and of a file that was not synced
\* perhaps a part.
PowerLoss ==
  /\ Restart(IF durable = NoFile \/ durable.synced THEN durable
             ELSE [durable EXCEPT !.form = "torn"])
  /\ durable' = path'

WriterStep(w) ==
  \/ Save(w) \/ Migrate(w)
  \/ WriteAll(w) \/ SyncAll(w) \/ Rename(w) \/ WriteFails(w)
  \/ RecordSave(w)

Next ==
  \/ RestoreSucceeds \/ RestoreFails
  \/ \E w \in Writers : WriterStep(w)
  \/ Edit \/ Settle \/ LoseKey \/ Dismiss
  \/ Killed \/ PowerLoss

Spec == Init /\ [][Next]_vars

-----------------------------------------------------------------------------
(* Properties. *)

Readable(file) == file # NoFile /\ file.form \in {"plain", "sealed"}

\* The file as a caller of load_state knows it.
Whole(file) == IF Readable(file) THEN file.state.edits ELSE IF file = NoFile THEN -1 ELSE -2

Staged == {w \in Writers : save[w].pc \in {"captured", "written", "synced"}}

Promise == INSTANCE AtomicFile WITH
  Absent <- -1, Unreadable <- -2,
  live <- core.edits, file <- Whole(path), durable <- Whole(durable),
  inflight <- {save[w].file.state.edits : w \in Staged}

\* write_atomic keeps its promise: whatever the writers interleave, and
\* wherever a kill or a power loss falls, the file goes from one complete state
\* to another, and each was a state of the core (persistence.rs, write_atomic:
\* "the last `rename` always installs one complete snapshot").
ImplementsAtomicFile == Promise!Spec

\* A running app holds at least what its file holds, unless the start had to
\* refuse that file and could not rename it: no save takes data back
\* (restoreState, load_state_secured).
MemoryCoversDisk ==
  app = "runs" /\ Readable(path) => path.state.edits <= core.edits \/ path = refused

\* Once a save has been recorded and none is between its rename and its record,
\* the diagnostics report gives the size of the file that is there, whichever
\* of several saves came last (record_save_secured).
ReportDescribesFile ==
  track.saved /\ (\A w \in Writers : save[w].pc # "renamed") => track.size = Bytes(path)

\* save_state_encrypted: "checked before encryption so the app never writes a
\* file it would refuse on next launch".
NeverWritesRefused ==
  \A w \in Writers :
    save[w].pc = "renamed" /\ save[w].file.key = key =>
      LoadStateEncrypted(save[w].file) \in {"Encrypted", "PlaintextLegacy"}

\* quarantineNoticeDismissed: "the one-time notice stays dismissed across
\* restarts while a fresh quarantine re-shows it".
FreshQuarantineIsShown ==
  [][app = "starts" /\ track'.quarantined => notice' = "undismissed"]_vars

=============================================================================
