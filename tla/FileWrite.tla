------------------------------- MODULE FileWrite -------------------------------
(***************************************************************************)
(* settings.atomic_write_text and write_if_changed on one file, which      *)
(* several threads and services read and write: the new text goes to a     *)
(* temporary file in the same directory, is forced to the disk, and is     *)
(* renamed over the old one.  Writers die between any two steps and the    *)
(* power fails; then what is left is what the kernel had written out.      *)
(*                                                                         *)
(* The kernel is external: a file is an inode, its text is a version,      *)
(* whole or torn; the page cache and the disk each hold one text per inode *)
(* and one inode per name.  File modes are left out.                       *)
(***************************************************************************)
EXTENDS Naturals

CONSTANTS
  Contents, \* what may be written
  Writers,  \* threads that write the file
  Readers,  \* threads that read it
  Inodes

VARIABLES
  name,    \* the inode the path names
  text,    \* text[i]: the text of inode i, as a reader sees it
  kept,    \* the inode the path names on the disk
  stable,  \* stable[i]: the text of inode i on the disk
  backup,  \* the text of path.bak
  write,   \* write[w]: what writer w is doing
  open     \* open[r]: the inode reader r has open, or NoInode

fileVars == <<name, text, kept, stable, backup, write, open>>

TornText == "torn"  \* a part of a version, or nothing
NoInode == 0
FileTexts == Contents \cup {TornText}
Steps == {"idle", "compare", "copy", "create", "fill", "sync", "rename"}
NotWriting == [step |-> "idle", version |-> TornText, inode |-> NoInode]

\* An inode that no name and no open file refers to; mkstemp gives each writer its own.
Free_slip(i) == i \notin {name, kept}
Free(i) ==
  /\ i \notin {name, kept}
  /\ \A w \in Writers : write[w].inode # i
  /\ \A r \in Readers : open[r] # i

Goto(w, step) == write' = [write EXCEPT ![w].step = step]

----------------------------------------------------------------------------
\* A writer calls atomic_write_text, or write_if_changed around it.

Begin(w, step) ==
  /\ write[w].step = "idle"
  /\ \E v \in Contents :
       write' = [write EXCEPT ![w] = [step |-> step, version |-> v, inode |-> NoInode]]
  /\ UNCHANGED <<name, text, kept, stable, backup, open>>

Replace(w) == Begin(w, "create")
ReplaceIfChanged(w) == Begin(w, "compare")

\* Nothing is written when the file already has the text.
Compare(w) ==
  /\ write[w].step = "compare"
  /\ IF text[name] = write[w].version
     THEN write' = [write EXCEPT ![w] = NotWriting] /\ UNCHANGED backup
     ELSE Goto(w, "copy") /\ backup' = TornText
  /\ UNCHANGED <<name, text, kept, stable, open>>

\* The copy to .bak, which is written in place.
CopyBackup(w) ==
  /\ write[w].step = "copy"
  /\ backup' = text[name]
  /\ Goto(w, "create")
  /\ UNCHANGED <<name, text, kept, stable, open>>

MakeTemp(w) ==
  /\ write[w].step = "create"
  /\ \E i \in Inodes :
       /\ Free(i)
       /\ write' = [write EXCEPT ![w].step = "fill", ![w].inode = i]
       /\ text' = [text EXCEPT ![i] = TornText]
       /\ stable' = [stable EXCEPT ![i] = TornText]
  /\ UNCHANGED <<name, kept, backup, open>>

Fill(w) ==
  /\ write[w].step = "fill"
  /\ text' = [text EXCEPT ![write[w].inode] = write[w].version]
  /\ Goto(w, "sync")
  /\ UNCHANGED <<name, kept, stable, backup, open>>

\* The text as fsync leaves it on the disk.
Forced_slip(i) == stable[i]
Forced(i) == text[i]

Sync(w) ==
  /\ write[w].step = "sync"
  /\ stable' = [stable EXCEPT ![write[w].inode] = Forced(write[w].inode)]
  /\ Goto(w, "rename")
  /\ UNCHANGED <<name, text, kept, backup, open>>

Rename(w) ==
  /\ write[w].step = "rename"
  /\ name' = write[w].inode
  /\ write' = [write EXCEPT ![w] = NotWriting]
  /\ UNCHANGED <<text, kept, stable, backup, open>>

\* A step fails, or the process dies: the temporary file is unlinked or left behind.
Fail(w) ==
  /\ write[w].step # "idle"
  /\ write' = [write EXCEPT ![w] = NotWriting]
  /\ UNCHANGED <<name, text, kept, stable, backup, open>>

----------------------------------------------------------------------------
\* Readers, the kernel and the power

Open(r) ==
  /\ open' = [open EXCEPT ![r] = name]
  /\ UNCHANGED <<name, text, kept, stable, backup, write>>

Close(r) ==
  /\ open[r] # NoInode
  /\ open' = [open EXCEPT ![r] = NoInode]
  /\ UNCHANGED <<name, text, kept, stable, backup, write>>

WriteOutName ==
  /\ kept' = name
  /\ UNCHANGED <<name, text, stable, backup, write, open>>

WriteOutText(i) ==
  /\ stable' = [stable EXCEPT ![i] = text[i]]
  /\ UNCHANGED <<name, text, kept, backup, write, open>>

PowerFailure ==
  /\ name' = kept
  /\ text' = stable
  /\ backup' \in FileTexts
  /\ write' = [w \in Writers |-> NotWriting]
  /\ open' = [r \in Readers |-> NoInode]
  /\ UNCHANGED <<kept, stable>>

----------------------------------------------------------------------------
FileInit ==
  /\ \E i \in Inodes, v \in Contents :
       /\ name = i /\ kept = i
       /\ text = [j \in Inodes |-> IF j = i THEN v ELSE TornText]
       /\ stable = text
  /\ backup = TornText
  /\ write = [w \in Writers |-> NotWriting]
  /\ open = [r \in Readers |-> NoInode]

FileNext ==
  \/ \E w \in Writers :
       \/ Replace(w) \/ ReplaceIfChanged(w) \/ Compare(w) \/ CopyBackup(w) \/ MakeTemp(w)
       \/ Fill(w) \/ Sync(w) \/ Rename(w) \/ Fail(w)
  \/ \E r \in Readers : Open(r) \/ Close(r)
  \/ WriteOutName
  \/ \E i \in Inodes : WriteOutText(i)
  \/ PowerFailure

FileSpec == FileInit /\ [][FileNext]_fileVars

----------------------------------------------------------------------------
FileTypeOK ==
  /\ name \in Inodes /\ kept \in Inodes
  /\ text \in [Inodes -> FileTexts] /\ stable \in [Inodes -> FileTexts] /\ backup \in FileTexts
  /\ write \in [Writers -> [step : Steps, version : FileTexts, inode : Inodes \cup {NoInode}]]
  /\ open \in [Readers -> Inodes \cup {NoInode}]
  /\ \A w, x \in Writers : write[w].inode = write[x].inode => w = x \/ write[w].inode = NoInode

Atomic == INSTANCE AtomicFile WITH
  Versions <- Contents,
  file <- text[name],
  disk <- stable[kept],
  got <- [r \in Readers |-> IF open[r] = NoInode THEN "none" ELSE text[open[r]]]

\* Whatever dies and whenever the power fails, readers never get a half-written
\* file and the file is never left half-written: the steps implement AtomicFile.
ImplementsAtomicFile == Atomic!Spec
=============================================================================
