----------------------------- MODULE Parts_proofs -----------------------------
(***************************************************************************)
(* What TLAPS proves of RateResolver, FileWrite and AppUpdate, one after   *)
(* the other, and of the shape of all four parts together.                 *)
(*                                                                         *)
(* RateResolver: whatever number the chain ends with, its share is a       *)
(* natural number, and the floors and caps around it do the rest.          *)
(*                                                                         *)
(* FileWrite implements AtomicFile: the inode that the path names, in      *)
(* memory and on the disk, holds a whole version that has reached the      *)
(* disk, and a writer only ever writes to an inode of its own, which       *)
(* neither the path nor a reader knows, until the whole version is in it   *)
(* and on the disk.                                                        *)
(*                                                                         *)
(* AppUpdate: an update leaves the files it has not come to as they were,  *)
(* saves each file before it replaces it, and never prunes its own backup, *)
(* the newest; a rollback of that backup only puts saved files back.       *)
(***************************************************************************)
EXTENDS MCParts, WebhookSetup_proofs, FiniteSetTheorems, TLAPS

-------------------------------------------------------------------------------
\* The rates of a row

LEMMA QuotientIsNat ==
  ASSUME NEW n \in Nat, NEW d \in Nat \ {0}
  PROVE  n \div d \in Nat
  OBVIOUS

LEMMA MbpsIsNat ==
  ASSUME NEW x, Number(x)
  PROVE  Mbps(x) \in Nat
<1>1. Round(x.n, 1000) \in Nat
  BY DEF Round, Number
<1> QED
  BY <1>1 DEF Mbps, Number

LEMMA FloorIsNat ==
  ASSUME NEW h \in Nat, NEW s, Share(s)
  PROVE  Floor(h, s) \in Nat
<1>1. h * s[1] \in Nat /\ 100 * s[2] \in Nat \ {0}
  BY DEF Share
<1> QED
  BY <1>1, QuotientIsNat DEF Floor

\* The rates of a direction, from any number of hundredths of a Mbps.
LEMMA ResolvedAccepted ==
  ASSUME NEW source, NEW rate \in Nat
  PROVE  LET row == Resolved(source, rate)
         IN  /\ row.source = source
             /\ row.max \in Nat /\ row.min \in Nat
             /\ row.max >= 2 /\ row.min >= 1 /\ row.min <= row.max
<1> DEFINE max == MaxRate(rate)
<1>1. Floor(rate, MaxShare) \in Nat
  BY FloorIsNat, ShareConstants
<1>2. max \in Nat /\ max >= 2
  BY <1>1 DEF MaxRate, Most, MaxFloor
<1>3. Floor(100 * max, MinShare) \in Nat
  BY <1>2, FloorIsNat, ShareConstants
<1>4. MinRate(max) \in Nat /\ MinRate(max) >= 1 /\ MinRate(max) <= max
  BY <1>2, <1>3 DEF MinRate, Least, Most, MinFloor
<1> QED
  BY <1>2, <1>4 DEF Resolved

-----------------------------------------------------------------------------
RatesInv == TypeOK /\ RowAccepted

LEMMA RatesBegin == Init => RatesInv
  BY DEF Init, RatesInv, TypeOK, RowAccepted

LEMMA RatesStep == RatesInv /\ [Next]_vars => RatesInv'
<1> SUFFICES ASSUME RatesInv, [Next]_vars PROVE RatesInv'
  OBVIOUS
<1>1. CASE Take
  <2>1. PICK i \in 1..Len(places[at]) :
          IsRate(places[at][i]) /\ rates' = Resolved(SourceNames[at], Mbps(places[at][i][1]))
    BY <1>1 DEF Take, FirstRate
  <2>2. at \in 1..3 /\ places[at] \in Texts
    BY <1>1 DEF Take, RatesInv, TypeOK
  <2>3. Mbps(places[at][i][1]) \in Nat
    BY <2>1, <2>2, TextConstants, MbpsIsNat DEF IsRate
  <2> QED
    BY <1>1, <2>1, <2>2, <2>3, ResolvedAccepted DEF Take, RatesInv, TypeOK, RowAccepted
<1>2. CASE Skip
  BY <1>2 DEF Skip, RatesInv, TypeOK, RowAccepted
<1>3. CASE TakeDefault
  BY <1>3, TextConstants, ResolvedAccepted DEF TakeDefault, RatesInv, TypeOK, RowAccepted
<1>4. CASE UNCHANGED vars
  BY <1>4 DEF vars, RatesInv, TypeOK, RowAccepted
<1> QED
  BY <1>1, <1>2, <1>3, <1>4 DEF Next

\* Whatever rate the chain finds, or with the default it falls back to, the row has a
\* maximum of 2 Mbps or more and a minimum between 1 Mbps and the maximum.
THEOREM RowsAreAccepted == Spec => []RowAccepted
<1>1. RatesInv => RowAccepted
  BY DEF RatesInv
<1> QED
  BY RatesBegin, RatesStep, <1>1, PTL DEF Spec

-------------------------------------------------------------------------------
\* A file replaced as a whole

\* Steps of a writer that has its temporary file.
Temporary == {"fill", "sync", "rename"}

\* The file's inodes are whole, also on the disk.
FilesWhole == \A i \in {name, kept} : text[i] \in Contents /\ stable[i] = text[i]

\* A temporary file is its writer's alone.
TempsApart == \A w \in Writers :
  IF write[w].step \in Temporary
  THEN /\ write[w].inode \in Inodes \ {NoInode, name, kept}
       /\ \A x \in Writers \ {w} : write[x].inode # write[w].inode
       /\ \A r \in Readers : open[r] # write[w].inode
  ELSE write[w].inode = NoInode

\* What is about to be renamed is whole.
TempsWhole == \A w \in Writers :
  /\ write[w].step # "idle" => write[w].version \in Contents
  /\ write[w].step \in {"sync", "rename"} => text[write[w].inode] = write[w].version
  /\ write[w].step = "rename" => stable[write[w].inode] = write[w].version

FileInv == FileTypeOK /\ FilesWhole /\ TempsApart /\ TempsWhole

-----------------------------------------------------------------------------
LEMMA FileBegins == FileInit => FileInv
  BY DEF FileInit, FileInv, FileTypeOK, FilesWhole, TempsApart, TempsWhole, Temporary, NotWriting, FileTexts, Steps

\* A writer that begins has a version and no temporary file.
LEMMA BeginsEmpty ==
  ASSUME NEW w \in Writers, FileTypeOK, Replace(w) \/ ReplaceIfChanged(w)
  PROVE  /\ \E v \in Contents, step \in {"create", "compare"} :
              write' = [write EXCEPT ![w] = [step |-> step, version |-> v, inode |-> NoInode]]
         /\ write[w].step = "idle"
         /\ UNCHANGED <<name, text, kept, stable, backup, open>>
<1>1. PICK step \in {"create", "compare"} : Begin(w, step)
  BY DEF Replace, ReplaceIfChanged
<1> QED
  BY <1>1 DEF Begin

\* The types, and that no two writers have one temporary file.
LEMMA FileTypeStep == FileInv /\ [FileNext]_fileVars => FileTypeOK'
<1> SUFFICES ASSUME FileInv, [FileNext]_fileVars PROVE FileTypeOK'
  OBVIOUS
<1> USE DEF FileInv, FileTypeOK, FileTexts, Steps, NotWriting
<1>1. ASSUME NEW w \in Writers, Replace(w) \/ ReplaceIfChanged(w) PROVE FileTypeOK'
  <2>1. PICK v \in Contents, step \in {"create", "compare"} :
          write' = [write EXCEPT ![w] = [step |-> step, version |-> v, inode |-> NoInode]]
    BY <1>1, BeginsEmpty
  <2>2. UNCHANGED <<name, text, kept, stable, backup, open>>
    BY <1>1, BeginsEmpty
  <2> QED
    BY <2>1, <2>2
<1>2. ASSUME NEW w \in Writers, Compare(w) PROVE FileTypeOK'
  BY <1>2 DEF Compare, Goto
<1>3. ASSUME NEW w \in Writers, CopyBackup(w) PROVE FileTypeOK'
  BY <1>3 DEF CopyBackup, Goto
<1>4. ASSUME NEW w \in Writers, MakeTemp(w) PROVE FileTypeOK'
  BY <1>4 DEF MakeTemp, Free
<1>5. ASSUME NEW w \in Writers, Fill(w) PROVE FileTypeOK'
  BY <1>5 DEF Fill, Goto
<1>6. ASSUME NEW w \in Writers, Sync(w) PROVE FileTypeOK'
  BY <1>6 DEF Sync, Forced, Goto, TempsApart, Temporary
<1>7. ASSUME NEW w \in Writers, Rename(w) PROVE FileTypeOK'
  BY <1>7 DEF Rename, TempsApart, Temporary
<1>8. ASSUME NEW w \in Writers, Fail(w) PROVE FileTypeOK'
  BY <1>8 DEF Fail
<1>9. CASE \E r \in Readers : Open(r) \/ Close(r)
  BY <1>9 DEF Open, Close
<1>10. CASE WriteOutName \/ \E i \in Inodes : WriteOutText(i)
  BY <1>10 DEF WriteOutName, WriteOutText
<1>11. CASE PowerFailure
  BY <1>11 DEF PowerFailure
<1>12. CASE UNCHANGED fileVars
  BY <1>12 DEF fileVars
<1> QED
  BY <1>1, <1>2, <1>3, <1>4, <1>5, <1>6, <1>7, <1>8, <1>9, <1>10, <1>11, <1>12 DEF FileNext

\* A writer's steps keep the rest of the invariant.
LEMMA WriterKeeps ==
  ASSUME NEW w \in Writers, FileInv,
         \/ Replace(w) \/ ReplaceIfChanged(w) \/ Compare(w) \/ CopyBackup(w) \/ MakeTemp(w)
         \/ Fill(w) \/ Sync(w) \/ Rename(w) \/ Fail(w)
  PROVE FilesWhole' /\ TempsApart' /\ TempsWhole'
<1> USE DEF FileInv, FileTypeOK, NotWriting, FilesWhole, TempsApart, TempsWhole, Temporary
<1>1. CASE Replace(w) \/ ReplaceIfChanged(w)
  BY <1>1, BeginsEmpty
<1>2. CASE Compare(w)
  <2>1. \/ write' = [write EXCEPT ![w] = NotWriting]
        \/ write' = [write EXCEPT ![w].step = "copy"]
    BY <1>2 DEF Compare, Goto
  <2> QED
    BY <1>2, <2>1 DEF Compare
<1>3. CASE CopyBackup(w)
  BY <1>3 DEF CopyBackup, Goto
<1>4. CASE MakeTemp(w)
  <2>1. PICK i \in Inodes :
          /\ Free(i)
          /\ write' = [write EXCEPT ![w].step = "fill", ![w].inode = i]
          /\ text' = [text EXCEPT ![i] = TornText]
          /\ stable' = [stable EXCEPT ![i] = TornText]
    BY <1>4 DEF MakeTemp
  <2>2. write[w].step = "create" /\ UNCHANGED <<name, kept, backup, open>>
    BY <1>4 DEF MakeTemp
  <2>3. FilesWhole'
    BY <2>1, <2>2 DEF Free
  <2>4. i # NoInode /\ \A x \in Writers : write[x].inode # i
    BY <2>1, <2>2 DEF Free
  <2>5. TempsApart'
    BY <2>1, <2>2, <2>4 DEF Free
  <2>6. TempsWhole'
    BY <2>1, <2>2, <2>4 DEF Free
  <2> QED
    BY <2>3, <2>5, <2>6
<1>5. CASE Fill(w)
  BY <1>5 DEF Fill, Goto
<1>6. CASE Sync(w)
  BY <1>6 DEF Sync, Forced, Goto
<1>7. CASE Rename(w)
  BY <1>7 DEF Rename
<1>8. CASE Fail(w)
  BY <1>8 DEF Fail
<1> QED
  BY <1>1, <1>2, <1>3, <1>4, <1>5, <1>6, <1>7, <1>8

\* So do readers, the kernel and a power failure.
LEMMA OthersKeep ==
  ASSUME FileInv,
         \/ \E r \in Readers : Open(r) \/ Close(r)
         \/ WriteOutName
         \/ \E i \in Inodes : WriteOutText(i)
         \/ PowerFailure
         \/ UNCHANGED fileVars
  PROVE FilesWhole' /\ TempsApart' /\ TempsWhole'
<1> USE DEF FileInv, FileTypeOK, NotWriting, FilesWhole, TempsApart, TempsWhole, Temporary
<1>1. ASSUME NEW r \in Readers, Open(r) \/ Close(r) PROVE FilesWhole' /\ TempsApart' /\ TempsWhole'
  BY <1>1 DEF Open, Close
<1>2. CASE WriteOutName
  BY <1>2 DEF WriteOutName
<1>3. ASSUME NEW i \in Inodes, WriteOutText(i) PROVE FilesWhole' /\ TempsApart' /\ TempsWhole'
  BY <1>3 DEF WriteOutText
<1>4. CASE PowerFailure
  BY <1>4 DEF PowerFailure
<1>5. CASE UNCHANGED fileVars
  BY <1>5 DEF fileVars
<1> QED
  BY <1>1, <1>2, <1>3, <1>4, <1>5

LEMMA FileKept == FileInv /\ [FileNext]_fileVars => FileInv'
  BY FileTypeStep, WriterKeeps, OthersKeep DEF FileNext, FileInv

LEMMA FileInvariance == FileSpec => []FileInv
  BY FileBegins, FileKept, PTL DEF FileSpec

-----------------------------------------------------------------------------
\* The types of the model; a temporary file has one writer.
THEOREM FileTypes == FileSpec => []FileTypeOK
<1>1. FileInv => FileTypeOK
  BY DEF FileInv
<1> QED
  BY <1>1, FileInvariance, PTL

\* What a reader who has the file open works on.
Got(r) == IF open[r] = NoInode THEN "none" ELSE text[open[r]]

LEMMA RefinesInit == FileInit => Atomic!Init
  BY DEF FileInit, Atomic!Init

\* A rename replaces the file; every other step of a writer is hidden.
LEMMA RefinesWriter ==
  ASSUME NEW w \in Writers, FileInv,
         \/ Replace(w) \/ ReplaceIfChanged(w) \/ Compare(w) \/ CopyBackup(w) \/ MakeTemp(w)
         \/ Fill(w) \/ Sync(w) \/ Rename(w) \/ Fail(w)
  PROVE Atomic!Next \/ UNCHANGED Atomic!vars
<1> USE DEF FileInv, FileTypeOK, TempsApart, TempsWhole, Temporary, FilesWhole
<1>1. CASE Rename(w)
  BY <1>1 DEF Rename, Atomic!Next, Atomic!Replace
<1>2. CASE Replace(w) \/ ReplaceIfChanged(w) \/ Compare(w) \/ CopyBackup(w) \/ Fail(w)
  BY <1>2 DEF Replace, ReplaceIfChanged, Begin, Compare, CopyBackup, Fail, Atomic!vars
<1>3. CASE MakeTemp(w)
  <2>1. text'[name'] = text[name] /\ stable'[kept'] = stable[kept]
    BY <1>3 DEF MakeTemp, Free
  <2>2. \A r \in Readers : Got(r)' = Got(r)
    BY <1>3 DEF MakeTemp, Free, Got
  <2> QED
    BY <2>1, <2>2 DEF Atomic!vars, Got
<1>4. CASE Fill(w)
  <2>1. text'[name'] = text[name] /\ stable'[kept'] = stable[kept]
    BY <1>4 DEF Fill
  <2>2. \A r \in Readers : Got(r)' = Got(r)
    BY <1>4 DEF Fill, Got
  <2> QED
    BY <2>1, <2>2 DEF Atomic!vars, Got
<1>5. CASE Sync(w)
  BY <1>5 DEF Sync, Atomic!vars
<1> QED
  BY <1>1, <1>2, <1>3, <1>4, <1>5

\* An open is a read of the whole file, a directory written out commits it, and a power
\* failure brings back what was committed.
LEMMA RefinesOther ==
  ASSUME FileInv,
         \/ \E r \in Readers : Open(r) \/ Close(r)
         \/ WriteOutName
         \/ \E i \in Inodes : WriteOutText(i)
         \/ PowerFailure
         \/ UNCHANGED fileVars
  PROVE Atomic!Next \/ UNCHANGED Atomic!vars
<1> USE DEF FileInv, FileTypeOK, FilesWhole
<1>1. ASSUME NEW r \in Readers, Open(r) PROVE Atomic!Next
  <2>1. Atomic!Read(r) \/ Atomic!Leave(r)
    BY <1>1 DEF Open, Atomic!Read, Atomic!Leave
  <2> QED
    BY <2>1 DEF Atomic!Next
<1>2. ASSUME NEW r \in Readers, Close(r) PROVE Atomic!Next
  <2>1. Atomic!Leave(r)
    BY <1>2 DEF Close, Atomic!Leave
  <2> QED
    BY <2>1 DEF Atomic!Next
<1>3. CASE WriteOutName
  BY <1>3 DEF WriteOutName, Atomic!Next, Atomic!Commit
<1>4. ASSUME NEW i \in Inodes, WriteOutText(i) PROVE UNCHANGED Atomic!vars
  BY <1>4 DEF WriteOutText, Atomic!vars
<1>5. CASE PowerFailure
  BY <1>5 DEF PowerFailure, Atomic!Next, Atomic!PowerFailure
<1>6. CASE UNCHANGED fileVars
  BY <1>6 DEF fileVars, Atomic!vars
<1> QED
  BY <1>1, <1>2, <1>3, <1>4, <1>5, <1>6

\* atomic_write_text keeps what it promises (see FileWrite): whoever dies and whenever
\* the power fails, the file is one whole version or another.
THEOREM AtomicFileImplemented == FileSpec => ImplementsAtomicFile
<1>1. FileInv /\ [FileNext]_fileVars => [Atomic!Next]_(Atomic!vars)
  BY RefinesWriter, RefinesOther DEF FileNext
<1> QED
  BY RefinesInit, <1>1, FileInvariance, PTL DEF FileSpec, ImplementsAtomicFile, Atomic!Spec

-------------------------------------------------------------------------------
\* Updates and rollbacks of the app

JobKinds == {"none", "check", "update", "rollback"}
Copies == Versions \cup {Absent, Torn}

JobType ==
  /\ job \in [kind : JobKinds, version : Versions \cup {Absent}, backup : Nat, left : SUBSET AllFiles]
  /\ job.kind # "none" => job.version \in Versions

BackupType ==
  /\ made \in 0 .. MaxUpdates
  /\ backups \in [1 .. MaxUpdates -> [version : Versions \cup {Absent}, files : [AllFiles -> Copies]]]
  /\ There \subseteq 1 .. made

DiskType == disk \in [AllFiles -> Copies] /\ marker \in Versions

\* An update writes to its own backup, and the files it has still to come to are as they were.
UpdateInOrder == job.kind = "update" =>
  /\ job.backup = made
  /\ made \in There
  /\ \A f \in job.left : disk[f] = orig[f]

\* A rollback is of a backup that is there, and puts files back that are in it.
RollbackInOrder == job.kind = "rollback" => job.backup \in There /\ job.left \subseteq Held(job.backup)

UpdateInv == JobType /\ BackupType /\ DiskType /\ UpdateInOrder /\ RollbackInOrder /\ Restorable

-----------------------------------------------------------------------------
\* The newest backup outlives the pruning.
LEMMA NewestKept ==
  ASSUME UpdateConstants, BackupType, made \in There
  PROVE  made \in Kept(There)
<1>1. {m \in There : m >= made} = {made}
  <2>1. \A m \in There : m \in Nat /\ m <= made
    BY DEF BackupType, UpdateConstants
  <2>2. \A m \in There : m >= made <=> m = made
    BY <2>1 DEF BackupType, UpdateConstants
  <2> QED
    BY <2>2
<1>2. Cardinality({made}) = 1
  BY FS_Singleton
<1> QED
  BY <1>1, <1>2 DEF Kept, UpdateConstants

\* Saving a file in the update's backup changes that file of that backup only.
LEMMA SavedFile ==
  ASSUME BackupType, made \in There, job.backup = made, NEW f \in AllFiles, NEW content \in Copies,
         backups' = Saved(f, content), made' = made
  PROVE  /\ BackupType'
         /\ There' = There
         /\ backups'[made].files = [backups[made].files EXCEPT ![f] = content]
         /\ content # Absent => Held(made)' = Held(made) \cup {f}
  BY DEF BackupType, There, Saved, Held

LEMMA UpdateBegins ==
  ASSUME UpdateConstants, UpdateInit
  PROVE  UpdateInv
<1> USE DEF UpdateInit
<1>1. JobType
  BY DEF JobType, NoJob, JobKinds
<1>2. BackupType
  BY DEF BackupType, NoBackup, NoFiles, There, Copies, UpdateConstants
<1>3. DiskType
  BY DEF DiskType, Copies, UpdateConstants
<1>4. UpdateInOrder /\ RollbackInOrder /\ Restorable
  BY DEF UpdateInOrder, RollbackInOrder, Restorable, NoJob
<1> QED
  BY <1>1, <1>2, <1>3, <1>4 DEF UpdateInv

\* Taking the lock, and letting it go.
LEMMA LockStep ==
  ASSUME UpdateInv,
         \/ \E v \in Versions : Download(v)
         \/ Refuse \/ GuiDies
         \/ \E n \in There : StartRollback(n)
  PROVE  UpdateInv'
<1>1. UNCHANGED <<disk, marker, backups, made, orig>>
  BY DEF Download, Refuse, GuiDies, StartRollback
<1>2. BackupType' /\ DiskType' /\ Restorable'
  BY <1>1 DEF UpdateInv, BackupType, DiskType, Restorable, There, Held
<1>3. JobType' /\ UpdateInOrder' /\ RollbackInOrder'
  <2>1. CASE \E v \in Versions : Download(v)
    BY <2>1 DEF Download, JobType, UpdateInOrder, RollbackInOrder, JobKinds
  <2>2. CASE Refuse \/ GuiDies
    BY <2>2 DEF Refuse, GuiDies, JobType, UpdateInOrder, RollbackInOrder, NoJob, JobKinds
  <2>3. CASE \E n \in There : StartRollback(n)
    BY <1>1, <2>3 DEF UpdateInv, StartRollback, JobType, UpdateInOrder, RollbackInOrder, JobKinds, BackupType, There, Held
  <2> QED
    BY <2>1, <2>2, <2>3
<1> QED
  BY <1>2, <1>3 DEF UpdateInv

LEMMA StartStep ==
  ASSUME UpdateConstants, UpdateInv, StartInstall
  PROVE  UpdateInv'
<1> USE DEF StartInstall
<1>1. JobType'
  <2>1. Files[job.version] \subseteq AllFiles
    BY DEF UpdateInv, JobType, AllFiles
  <2> QED
    BY <2>1 DEF UpdateInv, JobType, BackupType, JobKinds
<1>2. made' \in 1 .. MaxUpdates /\ made' = made + 1
  BY DEF UpdateInv, BackupType, UpdateConstants
<1>3. BackupType' /\ made' \in There' /\ Held(made)' = {}
  <2>1. [version |-> marker, files |-> NoFiles] \in [version : Versions \cup {Absent}, files : [AllFiles -> Copies]]
    BY DEF UpdateInv, DiskType, NoFiles, Copies
  <2>2. backups' \in [1 .. MaxUpdates -> [version : Versions \cup {Absent}, files : [AllFiles -> Copies]]]
    BY <2>1 DEF UpdateInv, BackupType
  <2>3. backups'[made'].version = marker /\ backups'[made'].files = NoFiles
    BY <1>2 DEF UpdateInv, BackupType
  <2>4. made' \in There'
    BY <1>2, <2>3 DEF UpdateInv, DiskType, There, UpdateConstants
  <2>5. There' \subseteq 1 .. made'
    <3>1. There' \subseteq There \cup {made'}
      BY <1>2 DEF UpdateInv, BackupType, There
    <3> QED
      BY <1>2, <3>1 DEF UpdateInv, BackupType, UpdateConstants
  <2>6. Held(made)' = {}
    BY <2>3 DEF Held, NoFiles
  <2> QED
    BY <1>2, <2>2, <2>4, <2>5, <2>6 DEF BackupType, UpdateConstants
<1>4. UpdateInOrder' /\ RollbackInOrder' /\ DiskType'
  BY <1>3 DEF UpdateInOrder, RollbackInOrder, DiskType, UpdateInv
<1>5. Restorable'
  BY <1>3 DEF Restorable
<1> QED
  BY <1>1, <1>3, <1>4, <1>5 DEF UpdateInv

\* A file is saved, then replaced, torn or left as it is.
LEMMA CopyStep ==
  ASSUME UpdateInv, NEW f \in AllFiles, InstallFile(f) \/ BackupCopyFails(f) \/ InstallCopyFails(f)
  PROVE  UpdateInv'
<1>1. job.kind = "update" /\ f \in job.left /\ disk[f] = orig[f] /\ made \in There /\ job.backup = made
  BY DEF UpdateInv, UpdateInOrder, InstallFile, BackupCopyFails, InstallCopyFails
<1>2. UNCHANGED <<marker, made, orig>>
  BY DEF InstallFile, BackupCopyFails, InstallCopyFails
<1>3. DiskType'
  BY <1>2 DEF UpdateInv, DiskType, JobType, Copies, InstallFile, BackupCopyFails, InstallCopyFails
<1>4. JobType'
  BY DEF UpdateInv, JobType, JobKinds, NoJob, InstallFile, BackupCopyFails, InstallCopyFails
<1>5. /\ BackupType' /\ There' = There
      /\ \/ backups' = backups /\ disk[f] = Absent
         \/ \E content \in {disk[f], Torn} :
              /\ backups'[made].files = [backups[made].files EXCEPT ![f] = content]
              /\ Held(made)' = Held(made) \cup {f}
  <2>1. CASE backups' = backups /\ disk[f] = Absent
    BY <1>2, <2>1 DEF UpdateInv, BackupType, There
  <2>2. CASE disk[f] # Absent /\ \E content \in {disk[f], Torn} : backups' = Saved(f, content)
    <3>1. PICK content \in {disk[f], Torn} : backups' = Saved(f, content)
      BY <2>2
    <3>2. content \in Copies /\ content # Absent
      BY <2>2, <3>1 DEF UpdateInv, DiskType, Copies, Torn, Absent
    <3> QED
      BY <1>1, <1>2, <3>1, <3>2, SavedFile DEF UpdateInv
  <2> QED
    BY <2>1, <2>2 DEF InstallFile, BackupCopyFails, InstallCopyFails
<1>6. \A g \in AllFiles \ {f} : disk'[g] = disk[g]
  BY DEF UpdateInv, DiskType, InstallFile, BackupCopyFails, InstallCopyFails
<1>7. UpdateInOrder' /\ RollbackInOrder'
  <2>1. \/ job' = NoJob
        \/ job' = [job EXCEPT !.left = @ \ {f}]
    BY DEF InstallFile, BackupCopyFails, InstallCopyFails
  <2>2. job'.kind # "rollback" /\ (job'.kind = "update" => job'.backup = made /\ job'.left = job.left \ {f})
    BY <1>1, <2>1 DEF NoJob, UpdateInv, JobType
  <2> QED
    BY <1>1, <1>2, <1>5, <1>6, <2>2 DEF UpdateInOrder, RollbackInOrder, UpdateInv, JobType
<1>8. Restorable'
  <2> SUFFICES ASSUME orig # NoOrig, NEW g \in AllFiles, orig[g] # Absent
               PROVE  IF g \in Held(made)' THEN backups'[made].files[g] \in {orig[g], Torn} ELSE disk'[g] = orig[g]
    BY <1>1, <1>2, <1>5 DEF Restorable, NoOrig, Held
  <2>1. IF g \in Held(made) THEN backups[made].files[g] \in {orig[g], Torn} ELSE disk[g] = orig[g]
    BY DEF UpdateInv, Restorable
  <2>2. backups[made].files \in [AllFiles -> Copies]
    BY <1>1 DEF UpdateInv, BackupType, There
  <2>3. CASE g = f
    BY <1>1, <1>5, <2>2, <2>3
  <2>4. CASE g # f
    <3>1. backups'[made].files[g] = backups[made].files[g]
      BY <1>5, <2>2, <2>4
    <3>2. g \in Held(made)' <=> g \in Held(made)
      BY <1>2, <3>1 DEF Held
    <3> QED
      BY <1>6, <2>1, <2>4, <3>1, <3>2
  <2> QED
    BY <2>3, <2>4
<1> QED
  BY <1>3, <1>4, <1>5, <1>7, <1>8 DEF UpdateInv

LEMMA FinishStep ==
  ASSUME UpdateConstants, UpdateInv, FinishUpdate
  PROVE  UpdateInv'
<1> USE DEF FinishUpdate
<1>1. made \in There /\ made \in Kept(There)
  BY NewestKept DEF UpdateInv, UpdateInOrder
<1>2. \A n \in 1 .. MaxUpdates : backups'[n] = IF n \in Kept(There) THEN backups[n] ELSE NoBackup
  OBVIOUS
<1>3. BackupType'
  <2>1. NoBackup \in [version : Versions \cup {Absent}, files : [AllFiles -> Copies]]
    BY DEF NoBackup, NoFiles, Copies
  <2>2. There' \subseteq There
    BY <1>2 DEF There, NoBackup, Kept
  <2> QED
    BY <2>1, <2>2 DEF UpdateInv, BackupType
<1>4. backups'[made] = backups[made] /\ made' = made /\ made \in There'
  BY <1>1, <1>2 DEF There
<1>5. JobType' /\ UpdateInOrder' /\ RollbackInOrder'
  BY DEF JobType, UpdateInOrder, RollbackInOrder, NoJob, JobKinds
<1>6. DiskType'
  BY DEF UpdateInv, DiskType, JobType
<1>7. Restorable'
  BY <1>4 DEF UpdateInv, Restorable, Held
<1> QED
  BY <1>3, <1>5, <1>6, <1>7 DEF UpdateInv

\* A rollback of the last update's backup puts back what it holds; of another, nothing is claimed.
LEMMA RestoreStep ==
  ASSUME UpdateInv, NEW f \in AllFiles, RestoreFile(f) \/ RestoreFails(f)
  PROVE  UpdateInv'
<1>1. job.kind = "rollback" /\ f \in Held(job.backup) /\ job.backup \in There
  BY DEF UpdateInv, RollbackInOrder, RestoreFile, RestoreFails
<1>2. UNCHANGED <<marker, backups, made>> /\ orig' = IF job.backup = made THEN orig ELSE NoOrig
  BY DEF RestoreFile, RestoreFails
<1>3. DiskType'
  <2>1. backups[job.backup].files[f] \in Copies
    BY <1>1 DEF UpdateInv, BackupType, There
  <2> QED
    BY <1>2, <2>1 DEF UpdateInv, DiskType, Copies, RestoreFile, RestoreFails
<1>4. JobType'
  BY DEF UpdateInv, JobType, JobKinds, NoJob, RestoreFile, RestoreFails
<1>5. BackupType' /\ There' = There /\ \A n : Held(n)' = Held(n)
  BY <1>2 DEF UpdateInv, BackupType, There, Held
<1>6. UpdateInOrder' /\ RollbackInOrder'
  <2>1. job' = NoJob \/ (job'.kind = "rollback" /\ job'.backup = job.backup /\ job'.left \subseteq job.left)
    BY <1>1 DEF RestoreFile, RestoreFails, UpdateInv, JobType
  <2> QED
    BY <1>1, <1>5, <2>1 DEF UpdateInv, UpdateInOrder, RollbackInOrder, NoJob
<1>7. Restorable'
  <2>1. \A g \in AllFiles \ {f} : disk'[g] = disk[g]
    BY DEF UpdateInv, DiskType, RestoreFile, RestoreFails
  <2>2. CASE job.backup = made
    BY <1>1, <1>2, <1>5, <2>1, <2>2 DEF UpdateInv, Restorable
  <2>3. CASE job.backup # made
    BY <1>2, <2>3 DEF Restorable, NoOrig
  <2> QED
    BY <2>2, <2>3
<1> QED
  BY <1>3, <1>4, <1>5, <1>6, <1>7 DEF UpdateInv

LEMMA EndStep ==
  ASSUME UpdateInv, FinishRollback
  PROVE  UpdateInv'
  BY DEF UpdateInv, FinishRollback, JobType, BackupType, DiskType, UpdateInOrder, RollbackInOrder, Restorable,
     There, Held, NoJob, JobKinds

LEMMA UpdateKept ==
  ASSUME UpdateConstants, UpdateInv, [UpdateNext]_updateVars
  PROVE  UpdateInv'
<1>1. CASE UNCHANGED updateVars
  BY <1>1 DEF updateVars, UpdateInv, JobType, BackupType, DiskType, UpdateInOrder, RollbackInOrder, Restorable, There, Held
<1>2. CASE UpdateNext
  BY <1>2, LockStep, StartStep, CopyStep, FinishStep, RestoreStep, EndStep DEF UpdateNext
<1> QED
  BY <1>1, <1>2

\* Wherever an update or its rollback broke off, the last backup put back over what is on the
\* disk is what was installed before (app_update.py, install and rollback), whatever the
\* versions and their files, if at least one backup is kept.
THEOREM BrokenUpdatesAreRestorable == UpdateConstants => (UpdateSpec => []Restorable)
<1> SUFFICES ASSUME UpdateConstants
             PROVE  UpdateSpec => []Restorable
  OBVIOUS
<1>1. UpdateInit => UpdateInv
  BY UpdateBegins
<1>2. UpdateInv /\ [UpdateNext]_updateVars => UpdateInv'
  BY UpdateKept
<1>3. UpdateInv => Restorable
  BY DEF UpdateInv
<1> QED
  BY <1>1, <1>2, <1>3, PTL DEF UpdateSpec

-------------------------------------------------------------------------------
\* All four parts

PartsInv == RatesInv /\ UpdateInv /\ SetupInv /\ FileInv

LEMMA PartsBegin == PartsInit => PartsInv
<1> SUFFICES ASSUME PartsInit PROVE PartsInv
  OBVIOUS
<1>1. Init /\ UpdateInit /\ SetupInit /\ FileInit
  BY DEF PartsInit
<1> QED
  BY <1>1, RatesBegin, UpdateBegins, SetupInitInv, FileBegins, UpdatesAreKept DEF PartsInv

\* A step of one part is a step of its specification; the others stand still.
LEMMA PartsStep == PartsInv /\ [PartsNext]_allVars => PartsInv'
<1> SUFFICES ASSUME PartsInv, [PartsNext]_allVars PROVE PartsInv'
  OBVIOUS
<1>1. [Next]_vars /\ [UpdateNext]_updateVars /\ [SetupNext]_setupVars /\ [FileNext]_fileVars
  BY DEF PartsNext, allVars
<1>2. RatesInv' /\ UpdateInv'
  BY <1>1, RatesStep, UpdateKept, UpdatesAreKept DEF PartsInv
<1>3. SetupInv' /\ FileInv'
  BY <1>1, SetupInvStep, FileKept DEF PartsInv
<1> QED
  BY <1>2, <1>3 DEF PartsInv

\* The shape of the four parts: a rate has a source and natural bounds, a backup that is
\* there is one that was made and its files are versions, whole or torn; a request knows
\* where it stands and what it has read; a temporary file has one writer.
THEOREM PartsType == PartsSpec => []PartsTypeOK
<1>1. PartsInv => PartsTypeOK
  <2> SUFFICES ASSUME PartsInv PROVE PartsTypeOK
    OBVIOUS
  <2>1. TypeOK /\ SetupTypeOK /\ FileTypeOK
    BY DEF PartsInv, RatesInv, SetupInv, FileInv
  <2>2. UpdateTypeOK
    BY DEF PartsInv, UpdateInv, JobType, JobKinds, BackupType, DiskType, Copies, UpdateTypeOK
  <2> QED
    BY <2>1, <2>2 DEF PartsTypeOK
<1> QED
  BY PartsBegin, PartsStep, <1>1, PTL DEF PartsSpec
===============================================================================
