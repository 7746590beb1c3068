------------------------------ MODULE DataKeys ------------------------------
(***************************************************************************)
(* The keys of stored data (crypto/keyring.ts).  The worker seals what it  *)
(* logs with a data key (DEK) of its DataWriter, which mints a new one     *)
(* every day and keeps it only wrapped to the owner's public key; a        *)
(* request reads with the owner's private key.  A media file takes its key *)
(* when it is begun and is entered much later: keys may have been rotated, *)
(* all data wiped, or the account reset in between, and ids of the table   *)
(* data_keys are given out again after a reset.                            *)
(*                                                                         *)
(* A ciphertext is the id in its header and the DEK it was sealed with; a  *)
(* DataWriter is known by the key pair it writes to.                       *)
(***************************************************************************)
EXTENDS Naturals

CONSTANTS
  Uploads,   \* media files being written
  Readers,   \* requests that read
  NoKey,
  MaxPairs,  \* key pairs the account ever has (bound)
  MaxDeks    \* DEKs ever minted               (bound)

ASSUME DataKeysAssumption == {MaxPairs, MaxDeks} \subseteq Nat

VARIABLES
  keyPair,   \* the owner's key pair, 0 if there is no owner
  dataKeys,  \* table data_keys: id -> the pair a DEK is wrapped to, and the DEK
  instance,  \* writerInstance: the DataWriter in use, 0 if there is none
  current,   \* of each DataWriter: its current key
  upload,    \* the media files being written
  blobs,     \* ciphertexts that rows of the account refer to
  reader,    \* DataReaders: the private key, and the DEKs unwrapped so far
  made       \* key pairs and DEKs made so far

keyVars == <<keyPair, dataKeys, instance, current, upload, blobs, reader, made>>

Pairs == 1..MaxPairs
KeyIds == 1..MaxDeks
Zeroed == 0  \* what a key is after key.fill(0)
NoUpload == [at |-> "none"]
NoReader == [pair |-> 0, deks |-> [id \in KeyIds |-> NoKey]]

WrappedDek == [to : Pairs, dek : 1..MaxDeks]
CurrentDek == [id : KeyIds, dek : 1..MaxDeks, aged : BOOLEAN]
Blob == [id : KeyIds, dek : 0..MaxDeks]
ASSUME NoKeyAssumption == NoKey \notin WrappedDek \cup CurrentDek \cup Nat
KeyTypeOK ==
  /\ keyPair \in 0..MaxPairs
  /\ dataKeys \in [KeyIds -> WrappedDek \cup {NoKey}]
  /\ instance \in 0..MaxPairs
  /\ current \in [Pairs -> CurrentDek \cup {NoKey}]
  /\ upload \in [Uploads -> {NoUpload} \cup
       [at : {"creating", "open", "finishing"}, id : KeyIds, dek : 0..MaxDeks, by : Pairs, orphan : BOOLEAN]]
  /\ blobs \subseteq Blob
  /\ reader \in [Readers -> [pair : 0..MaxPairs, deks : [KeyIds -> (1..MaxDeks) \cup {NoKey}]]]
  /\ made \in [pairs : 0..MaxPairs, deks : 0..MaxDeks]

KeysInit ==
  /\ keyPair = 0 /\ instance = 0
  /\ dataKeys = [id \in KeyIds |-> NoKey]
  /\ current = [p \in Pairs |-> NoKey]
  /\ upload = [m \in Uploads |-> NoUpload]
  /\ blobs = {}
  /\ reader = [r \in Readers |-> NoReader]
  /\ made = [pairs |-> 0, deks |-> 0]

(***************************************************************************)
(* DataWriter.currentKey().  A new key gets the rowid after the greatest;  *)
(* the old one is not zeroed, a file that is begun may still copy it.      *)
(***************************************************************************)
NextId(id) ==
  /\ \A k \in KeyIds : k >= id => dataKeys[k] = NoKey
  /\ \A k \in KeyIds : k + 1 = id => dataKeys[k] # NoKey

CurrentKey(p, id, dek) ==
  IF current[p] # NoKey /\ ~current[p].aged
  THEN id = current[p].id /\ dek = current[p].dek /\ UNCHANGED <<dataKeys, current, made>>
  ELSE /\ NextId(id) /\ dek = made.deks + 1 /\ dek \in KeyIds
       /\ made' = [made EXCEPT !.deks = dek]
       /\ dataKeys' = [dataKeys EXCEPT ![id] = [to |-> p, dek |-> dek]]
       /\ current' = [current EXCEPT ![p] = [id |-> id, dek |-> dek, aged |-> FALSE]]

\* ctx.writer(): the one in use, else a new one for the owner's public key.
Writer == IF instance # 0 THEN instance ELSE keyPair

\* The first owner, or the next one after a reset.
NewOwner ==
  /\ keyPair = 0 /\ made.pairs < MaxPairs
  /\ keyPair' = made.pairs + 1 /\ made' = [made EXCEPT !.pairs = @ + 1]
  /\ UNCHANGED <<dataKeys, instance, current, upload, blobs, reader>>

\* A row with sealed fields is written in the step that seals them.
SealField ==
  /\ Writer # 0 /\ instance' = Writer
  /\ \E id, dek \in KeyIds : CurrentKey(Writer, id, dek) /\ blobs' = blobs \cup {[id |-> id, dek |-> dek]}
  /\ UNCHANGED <<keyPair, upload, reader>>

(***************************************************************************)
(* A media file: beginMediaFile() takes the key and waits for the disk;    *)
(* MediaFileWriter.create() copies the key after its own awaits only.      *)
(***************************************************************************)
BeginMedia(m) ==
  /\ upload[m] = NoUpload /\ Writer # 0 /\ instance' = Writer
  /\ \E id, dek \in KeyIds :
       /\ CurrentKey(Writer, id, dek)
       /\ upload' = [upload EXCEPT ![m] =
            [at |-> "creating", id |-> id, dek |-> dek, by |-> Writer, orphan |-> FALSE]]
  /\ UNCHANGED <<keyPair, blobs, reader>>

MediaCreated(m) ==
  /\ upload[m].at = "creating" /\ upload' = [upload EXCEPT ![m].at = "open"]
  /\ UNCHANGED <<keyPair, dataKeys, instance, current, blobs, reader, made>>

\* finishMediaFile(): the DataWriter is taken before the file is sealed, synced
\* and renamed; with no owner the file is aborted.
FinishMedia(m) ==
  /\ upload[m].at = "open" /\ instance' = Writer
  /\ upload' = [upload EXCEPT ![m] =
       IF Writer = 0 THEN NoUpload ELSE [upload[m] EXCEPT !.at = "finishing", !.by = Writer]]
  /\ UNCHANGED <<keyPair, dataKeys, current, blobs, reader, made>>

\* insertMedia(): its fields are sealed first, and key_id must be in data_keys.
\* Then the message, chat or recording it is for refers to it, unless that is gone
\* (all of them are after a reset; after a wipe they may be logged again).
Refers(m, fields) ==
  \/ /\ dataKeys'[upload[m].id] # NoKey /\ ~upload[m].orphan
     /\ blobs' = blobs \cup {[id |-> upload[m].id, dek |-> upload[m].dek]} \cup fields
  \/ blobs' = blobs

EnterMedia(m) ==
  /\ upload[m].at = "finishing"
  /\ \/ UNCHANGED <<dataKeys, current, made>> /\ Refers(m, {})   \* no type and no name
     \/ \E id, dek \in KeyIds :
          CurrentKey(upload[m].by, id, dek) /\ Refers(m, {[id |-> id, dek |-> dek]})
  /\ upload' = [upload EXCEPT ![m] = NoUpload]
  /\ UNCHANGED <<keyPair, instance, reader>>

MediaFails(m) ==
  /\ upload[m] # NoUpload /\ upload' = [upload EXCEPT ![m] = NoUpload]
  /\ UNCHANGED <<keyPair, dataKeys, instance, current, blobs, reader, made>>

(***************************************************************************)
(* A request that reads: DataReader.key() unwraps each DEK once.           *)
(***************************************************************************)
OpenReader(r) ==
  /\ reader[r].pair = 0 /\ keyPair # 0
  /\ reader' = [reader EXCEPT ![r].pair = keyPair]
  /\ UNCHANGED <<keyPair, dataKeys, instance, current, upload, blobs, made>>

Unwraps(p, id) == dataKeys[id] # NoKey /\ dataKeys[id].to = p
ReadKey(r, id) ==
  /\ reader[r].pair # 0 /\ reader[r].deks[id] = NoKey /\ Unwraps(reader[r].pair, id)
  /\ reader' = [reader EXCEPT ![r].deks[id] = dataKeys[id].dek]
  /\ UNCHANGED <<keyPair, dataKeys, instance, current, upload, blobs, made>>

CloseReader(r) ==
  /\ reader[r].pair # 0 /\ reader' = [reader EXCEPT ![r] = NoReader]
  /\ UNCHANGED <<keyPair, dataKeys, instance, current, upload, blobs, made>>

(***************************************************************************)
(* What comes in between.                                                  *)
(***************************************************************************)
\* DEK_ROTATE_MS have passed.
DayPasses ==
  /\ \E p \in Pairs : current[p] # NoKey /\ ~current[p].aged
  /\ current' = [p \in Pairs |-> IF current[p] = NoKey THEN NoKey ELSE [current[p] EXCEPT !.aged = TRUE]]
  /\ UNCHANGED <<keyPair, dataKeys, instance, upload, blobs, reader, made>>

\* The process dies or stops: memory is lost, the tables stay.
MemoryLost ==
  /\ instance' = 0
  /\ current' = [p \in Pairs |-> NoKey]
  /\ upload' = [m \in Uploads |-> NoUpload]
  /\ reader' = [r \in Readers |-> NoReader]
  /\ UNCHANGED <<keyPair, dataKeys, blobs, made>>

\* The wipe keeps the keys.
WipeLogged ==
  /\ keyPair # 0 /\ blobs' = {}
  /\ UNCHANGED <<keyPair, dataKeys, instance, current, upload, reader, made>>

Orphaned(u) == IF u = NoUpload THEN u ELSE [u EXCEPT !.orphan = TRUE]

\* dispose(): the current key is zeroed, under a file that has not copied it yet.
Disposed(u, p) ==
  IF u # NoUpload /\ u.at = "creating" /\ u.by = p /\ current[p] # NoKey /\ u.dek = current[p].dek
  THEN [u EXCEPT !.dek = Zeroed] ELSE u

ResetKeepsWriter ==   \* mutant: resetWriter() is not called
  /\ keyPair # 0 /\ keyPair' = 0
  /\ dataKeys' = [id \in KeyIds |-> NoKey]
  /\ blobs' = {}
  /\ upload' = [m \in Uploads |-> Orphaned(upload[m])]
  /\ UNCHANGED <<current, instance, reader, made>>

\* resetAccount() and resetWriter(), with no wait in between.
ResetKeys ==
  /\ keyPair # 0 /\ keyPair' = 0
  /\ dataKeys' = [id \in KeyIds |-> NoKey]
  /\ blobs' = {}
  /\ upload' = [m \in Uploads |-> Orphaned(IF instance = 0 THEN upload[m] ELSE Disposed(upload[m], instance))]
  /\ current' = [p \in Pairs |-> IF p = instance THEN NoKey ELSE current[p]]
  /\ instance' = 0
  /\ UNCHANGED <<reader, made>>

KeysNext ==
  \/ NewOwner \/ SealField \/ DayPasses \/ MemoryLost \/ WipeLogged \/ ResetKeys
  \/ \E m \in Uploads : BeginMedia(m) \/ MediaCreated(m) \/ FinishMedia(m) \/ EnterMedia(m) \/ MediaFails(m)
  \/ \E r \in Readers : OpenReader(r) \/ CloseReader(r) \/ \E id \in KeyIds : ReadKey(r, id)

KeysSpec == KeysInit /\ [][KeysNext]_keyVars

(***************************************************************************)
(* Everything a row of the account refers to can be opened: data_keys has  *)
(* its DEK, wrapped to the owner's key, under the id it names, and so has  *)
(* every request that already unwrapped the key of that id.                *)
(***************************************************************************)
Opens(b) == dataKeys[b.id] = [to |-> keyPair, dek |-> b.dek]
StoredOpens ==
  \A b \in blobs :
    /\ Opens(b)
    /\ \A r \in Readers : reader[r].pair = keyPair => reader[r].deks[b.id] \in {NoKey, b.dek}
=============================================================================
