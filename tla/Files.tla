-------------------------------- MODULE Files --------------------------------
(***************************************************************************)
(* The files of one shared folder under its requests: uploads in chunks,    *)
(* deletion into the recycle bin and back, moves and copies.  Requests hold *)
(* no lock; a name leads to an inode, and a handler that has a file open    *)
(* goes on writing to it whatever becomes of its name.                      *)
(***************************************************************************)
EXTENDS Naturals, FiniteSets
CONSTANTS
  Uploads,            \* uploads to one and the same name, and the contents they bring
  Clerks,             \* other requests that may be under way at once
  Inodes, Items,      \* files that may exist at once, and identities in the bin
  MaxFileAsked, MaxFileMishaps

Original == 1                       \* the content the folder has at first; uploads bring others
ASSUME FileAssumption ==
  /\ Uploads \subseteq Nat \ {0, Original} /\ 1 \in Inodes /\ Inodes \subseteq Nat \ {0}
  /\ Items \subseteq Nat \ {0}
  /\ MaxFileAsked \in Nat /\ MaxFileMishaps \in Nat

VARIABLES
  names,              \* the inode of each name, 0 for a name that is free
  content,            \* of each inode: whose each of its chunks is
  chunks,             \* .nimchunks: whose each stored chunk is
  upload,             \* each upload: its request and what it writes to
  recycled,           \* .papelera: the inode of each item, 0 for none
  index,              \* .index.json: the items it lists
  clerk,              \* each other request: where it is and what it read
  fileAsked, fileMishaps,
  given,              \* history: contents a user gave up: erased, or written over
  mixed,              \* history: uploads were under way at once, or a file was left half written
  crowded,            \* history: two requests on names were under way at once
  unlisted            \* history: two requests on the bin were, or one was cut off

fileVars == <<names, content, chunks, upload, recycled, index, clerk, fileAsked, fileMishaps,
              given, mixed, crowded, unlisted>>
fileHistory == <<given, mixed, crowded, unlisted>>

Names == {"doc", "copy", "restored"}
Parts == {0, 1}                     \* an upload has two chunks
Contents == {Original} \cup Uploads
Blank == [i \in Parts |-> 0]
FileOf(v) == [i \in Parts |-> v]
NewUpload == [pc |-> "new", next |-> 0, fd |-> 0, quit |-> FALSE]
Waiting == [pc |-> "free", kind |-> "none", item |-> 0, view |-> {}, to |-> "doc", fd |-> 0, src |-> 0, size |-> 0]

Linked == ({names[n] : n \in Names} \cup {recycled[k] : k \in Items}) \ {0}
Written == ({upload[u].fd : u \in Uploads} \cup {clerk[c].fd : c \in Clerks}) \ {0}
Open == Written \cup ({clerk[c].src : c \in Clerks} \ {0})
Unused == Inodes \ (Linked \cup Open)
NewInode == CHOOSE i \in Unused : TRUE
UpAt(u, pc) == upload[u].pc = pc
UpGoes(u, pc) == upload' = [upload EXCEPT ![u].pc = pc]
ClerkAt(c, pc) == clerk[c].pc = pc
ClerkGoes(c, pc) == clerk' = [clerk EXCEPT ![c].pc = pc]
ClerkLeaves(c) == clerk' = [clerk EXCEPT ![c] = Waiting]
Ended(pc) == [NewUpload EXCEPT !.pc = pc]
Undoing(fd) == [Waiting EXCEPT !.pc = "undo", !.fd = fd]
ClerkSaves(c, items) == clerk' = [clerk EXCEPT ![c] = [Waiting EXCEPT !.pc = "truncate", !.kind = "recycle", !.view = items]]
FileMishap == fileMishaps < MaxFileMishaps /\ fileMishaps' = fileMishaps + 1
Uploading == {u \in Uploads : upload[u].pc \notin {"new", "done", "failed"}}
Assembling == {u \in Uploads : upload[u].pc \in {"join", "sweep", "drop"}}
Asking == {c \in Clerks : ~ClerkAt(c, "free")}
OnBin == {c \in Asking : clerk[c].kind \in {"recycle", "restore", "purge", "empty"}}

\* root.Create and O_TRUNC: the file of that name, or a new one, without content.
Creates(n) == IF names[n] # 0 THEN names[n] ELSE NewInode
MayCreate(n) == names[n] # 0 \/ Unused # {}
Truncated(i) == content' = [content EXCEPT ![i] = Blank]
Whole(i) == \E v \in Contents : content[i] = FileOf(v)
VersionsOf(i) == IF i = 0 THEN {} ELSE {v \in Contents : content[i] = FileOf(v)}
SizeOf(i) == Cardinality({k \in Parts : content[i][k] # 0})

FileInit ==
  /\ names = [n \in Names |-> IF n = "doc" THEN 1 ELSE 0]
  /\ content = [i \in Inodes |-> IF i = 1 THEN FileOf(Original) ELSE Blank]
  /\ chunks = Blank /\ upload = [u \in Uploads |-> NewUpload]
  /\ recycled = [k \in Items |-> 0] /\ index = {} /\ clerk = [c \in Clerks |-> Waiting]
  /\ fileAsked = 0 /\ fileMishaps = 0 /\ given = {} /\ mixed = FALSE /\ crowded = FALSE /\ unlisted = FALSE

-----------------------------------------------------------------------------
(* handleChunkedUpload.  Clients send the chunks in order.                 *)

StartUpload(u) ==
  /\ UpAt(u, "new") /\ (\A v \in Uploads : UpAt(v, "new") => u <= v) /\ fileAsked < MaxFileAsked /\ fileAsked' = fileAsked + 1
  /\ UpGoes(u, "open") /\ mixed' = (mixed \/ Uploading # {})
  /\ UNCHANGED <<names, content, chunks, recycled, index, clerk, fileMishaps, given, crowded, unlisted>>
\* The space is looked at before the first chunk; a chunk that cannot be written is removed,
\* whoever wrote it, and the client gives up.
ChunkArrives(u) ==
  LET k == upload[u].next IN
  /\ UpAt(u, "open")
  /\ \/ /\ chunks' = [chunks EXCEPT ![k] = u]
        /\ upload' = [upload EXCEPT ![u].pc = IF k = 1 THEN "create" ELSE "open", ![u].next = 1 - k]
        /\ UNCHANGED fileMishaps
     \/ /\ FileMishap /\ upload' = [upload EXCEPT ![u] = Ended("failed")]
        /\ chunks' \in {[chunks EXCEPT ![k] = 0]} \cup (IF k = 0 THEN {chunks} ELSE {})
  /\ UNCHANGED <<names, content, recycled, index, clerk, fileAsked, fileHistory>>
\* What had the name is lost here, whether or not the assembly ends well.
CreateFinal(u) ==
  /\ UpAt(u, "create")
  /\ \/ /\ MayCreate("doc") /\ names' = [names EXCEPT !["doc"] = Creates("doc")]
        /\ Truncated(Creates("doc"))
        /\ given' = given \cup VersionsOf(names["doc"])
        /\ upload' = [upload EXCEPT ![u].pc = "join", ![u].next = 0, ![u].fd = Creates("doc")]
        /\ crowded' = (crowded \/ Asking # {}) /\ mixed' = (mixed \/ names["doc"] \in Written)
        /\ UNCHANGED <<chunks, fileMishaps>>
     \/ /\ FileMishap /\ upload' = [upload EXCEPT ![u] = Ended("failed")] /\ chunks' = Blank
        /\ UNCHANGED <<names, content, given, crowded, mixed>>
  /\ UNCHANGED <<recycled, index, clerk, fileAsked, unlisted>>
\* Concatenate all chunks in order, until one is missing or cannot be written.
AppendChunk(u) ==
  LET k == upload[u].next IN
  /\ UpAt(u, "join")
  /\ \/ /\ chunks[k] # 0 /\ content' = [content EXCEPT ![upload[u].fd][k] = chunks[k]]
        /\ upload' = [upload EXCEPT ![u].pc = IF k = 1 THEN "sweep" ELSE "join", ![u].next = 1 - k]
        /\ UNCHANGED fileMishaps
     \/ /\ UpGoes(u, "drop") /\ UNCHANGED content
        /\ IF chunks[k] = 0 THEN UNCHANGED fileMishaps ELSE FileMishap
  /\ UNCHANGED <<names, chunks, recycled, index, clerk, fileAsked, fileHistory>>
Assembled(u) ==
  /\ UpAt(u, "sweep") /\ chunks' = Blank
  /\ upload' = [upload EXCEPT ![u] = Ended("done")]
  /\ UNCHANGED <<names, content, recycled, index, clerk, fileAsked, fileMishaps, fileHistory>>
\* Mutant: the error is answered, and the partial file stays.
KeepPartial(u) ==
  /\ UpAt(u, "drop") /\ chunks' = Blank
  /\ upload' = [upload EXCEPT ![u] = Ended("failed")]
  /\ UNCHANGED <<names, content, recycled, index, clerk, fileAsked, fileMishaps, fileHistory>>
\* The chunks go, and the name with whatever it leads to by now.
DropPartial(u) ==
  /\ UpAt(u, "drop") /\ chunks' = Blank
  /\ upload' = [upload EXCEPT ![u] = Ended("failed")]
  /\ names' = [names EXCEPT !["doc"] = 0]
  /\ mixed' = (mixed \/ names["doc"] # upload[u].fd)
  /\ UNCHANGED <<content, recycled, index, clerk, fileAsked, fileMishaps, given, crowded, unlisted>>
\* handleUploadCancel: the client gives up; a request whose body has arrived goes on.
CancelUpload(u) ==
  /\ u \in Uploading /\ ~upload[u].quit /\ chunks' = Blank
  /\ upload' = [upload EXCEPT ![u] = IF UpAt(u, "open") THEN Ended("failed") ELSE [upload[u] EXCEPT !.quit = TRUE]]
  /\ mixed' = (mixed \/ ~UpAt(u, "open") \/ Uploading # {u})
  /\ UNCHANGED <<names, content, recycled, index, clerk, fileAsked, fileMishaps, given, crowded, unlisted>>

-----------------------------------------------------------------------------
(* The recycle bin: its index is read, changed and written back whole.     *)

AsksFile(c, r) ==
  /\ ClerkAt(c, "free") /\ \A b \in Clerks : ClerkAt(b, "free") => c <= b
  /\ fileAsked < MaxFileAsked /\ fileAsked' = fileAsked + 1
  /\ clerk' = [clerk EXCEPT ![c] = r]
  /\ crowded' = (crowded \/ Asking # {} \/ Assembling # {})
  /\ unlisted' = (unlisted \/ (OnBin # {} /\ r.kind \in {"recycle", "restore", "purge", "empty"}))
  /\ UNCHANGED <<names, content, chunks, upload, recycled, index, fileMishaps, given, mixed>>
\* filesDelete with the recycle bin switched on.
Recycle(c, n) ==
  /\ names[n] # 0
  /\ AsksFile(c, [Waiting EXCEPT !.pc = "bin", !.kind = "recycle", !.to = n])
\* moveToRecycleBin: the file is moved before the index knows of it.
MoveToBin(c) ==
  LET n == clerk[c].to
      k == CHOOSE j \in Items : recycled[j] = 0 IN
  /\ ClerkAt(c, "bin")
  /\ \/ /\ names[n] # 0 /\ \E j \in Items : recycled[j] = 0
        /\ recycled' = [recycled EXCEPT ![k] = names[n]] /\ names' = [names EXCEPT ![n] = 0]
        /\ clerk' = [clerk EXCEPT ![c].pc = "load", ![c].item = k]
     \/ names[n] = 0 /\ ClerkLeaves(c) /\ UNCHANGED <<names, recycled>>
  /\ UNCHANGED <<content, chunks, upload, index, fileAsked, fileMishaps, fileHistory>>
LoadToAdd(c) ==
  /\ ClerkAt(c, "load")
  /\ ClerkSaves(c, index \cup {clerk[c].item})
  /\ UNCHANGED <<names, content, chunks, upload, recycled, index, fileAsked, fileMishaps, fileHistory>>
\* An item that the index does not list is not found.
Restore(c) ==
  \E k \in index : AsksFile(c, [Waiting EXCEPT !.pc = "probe", !.kind = "restore", !.item = k, !.view = index])
Purge(c) ==
  \E k \in index : AsksFile(c, [Waiting EXCEPT !.pc = "erase", !.kind = "purge", !.item = k, !.view = index])
Empty(c) == AsksFile(c, [Waiting EXCEPT !.pc = "erase", !.kind = "empty", !.view = index])
\* restoreConflictName: a name that is free when it is looked at.
Probe(c) ==
  /\ ClerkAt(c, "probe") /\ (names["doc"] = 0 \/ names["restored"] = 0)
  /\ clerk' = [clerk EXCEPT ![c].pc = "back", ![c].to = IF names["doc"] = 0 THEN "doc" ELSE "restored"]
  /\ UNCHANGED <<names, content, chunks, upload, recycled, index, fileAsked, fileMishaps, fileHistory>>
\* renameat takes the place of a file that has come meanwhile.
MoveBack(c) ==
  LET k == clerk[c].item IN
  /\ ClerkAt(c, "back")
  /\ \/ /\ recycled[k] # 0 /\ names' = [names EXCEPT ![clerk[c].to] = recycled[k]]
        /\ recycled' = [recycled EXCEPT ![k] = 0]
        /\ ClerkSaves(c, clerk[c].view \ {k})
     \/ recycled[k] = 0 /\ ClerkLeaves(c) /\ UNCHANGED <<names, recycled>>
  /\ UNCHANGED <<content, chunks, upload, index, fileAsked, fileMishaps, fileHistory>>
\* deleteFromRecycleBin and emptyRecycleBin: what the index they read lists is erased.
EraseItems(c) ==
  LET those == IF clerk[c].kind = "purge" THEN {clerk[c].item} ELSE clerk[c].view IN
  /\ ClerkAt(c, "erase")
  /\ recycled' = [k \in Items |-> IF k \in those THEN 0 ELSE recycled[k]]
  /\ given' = given \cup UNION {VersionsOf(recycled[k]) : k \in those}
  /\ ClerkSaves(c, clerk[c].view \ those)
  /\ UNCHANGED <<names, content, chunks, upload, index, fileAsked, fileMishaps, mixed, crowded, unlisted>>
\* saveRecycleIndex: the file is emptied when it is opened; one that cannot be parsed
\* counts as empty.
TruncateIndex(c) ==
  /\ ClerkAt(c, "truncate")
  /\ \/ index' = {} /\ ClerkGoes(c, "write") /\ UNCHANGED <<fileMishaps, unlisted>>
     \/ FileMishap /\ ClerkLeaves(c) /\ unlisted' = TRUE /\ UNCHANGED index
  /\ UNCHANGED <<names, content, chunks, upload, recycled, fileAsked, given, mixed, crowded>>
WriteIndex(c) ==
  /\ ClerkAt(c, "write") /\ ClerkLeaves(c)
  /\ \/ index' = clerk[c].view /\ UNCHANGED <<fileMishaps, unlisted>>
     \/ FileMishap /\ unlisted' = TRUE /\ UNCHANGED index
  /\ UNCHANGED <<names, content, chunks, upload, recycled, fileAsked, given, mixed, crowded>>

-----------------------------------------------------------------------------
(* filesPaste and filesRename, from one name to another.                   *)

\* The destination is looked at once; another file system is copied to.
Paste(c) ==
  /\ names["doc"] # 0 /\ names["copy"] = 0
  /\ \E k \in {"cut", "far cut", "copy"} :
       AsksFile(c, [Waiting EXCEPT !.pc = IF k = "cut" THEN "rename" ELSE "measure", !.kind = k, !.to = "copy"])
RenamePasted(c) ==
  /\ ClerkAt(c, "rename")
  /\ \/ /\ names["doc"] # 0 /\ names' = [names EXCEPT !["copy"] = names["doc"], !["doc"] = 0]
        /\ ClerkLeaves(c)
     \/ names["doc"] = 0 /\ clerk' = [clerk EXCEPT ![c] = Undoing(0)] /\ UNCHANGED names
  /\ UNCHANGED <<content, chunks, upload, recycled, index, fileAsked, fileMishaps, fileHistory>>
\* copyFileIn and crossRootCopyTree: the size is read before the content.
OpenCopy(c) ==
  /\ ClerkAt(c, "measure")
  /\ \/ /\ names["doc"] # 0 /\ MayCreate("copy") /\ names' = [names EXCEPT !["copy"] = Creates("copy")]
        /\ Truncated(Creates("copy"))
        /\ clerk' = [clerk EXCEPT ![c].pc = "fill", ![c].src = names["doc"], ![c].fd = Creates("copy"),
                                  ![c].size = SizeOf(names["doc"])]
        /\ mixed' = (mixed \/ names["copy"] \in Written)
     \/ names["doc"] = 0 /\ clerk' = [clerk EXCEPT ![c] = Undoing(0)] /\ UNCHANGED <<names, content, mixed>>
  /\ UNCHANGED <<chunks, upload, recycled, index, fileAsked, fileMishaps, given, crowded, unlisted>>
FillCopy(c) ==
  LET r == clerk[c] IN
  /\ ClerkAt(c, "fill")
  /\ \/ /\ content' = [content EXCEPT ![r.fd] = content[r.src]] /\ UNCHANGED fileMishaps
        /\ mixed' = (mixed \/ ~Whole(r.src))
        /\ clerk' = [clerk EXCEPT ![c] = IF SizeOf(r.src) # r.size THEN Undoing(r.fd)
                                         ELSE IF r.kind = "copy" THEN Waiting
                                         ELSE [Waiting EXCEPT !.pc = "unsource"]]
     \/ FileMishap /\ clerk' = [clerk EXCEPT ![c] = Undoing(r.fd)] /\ UNCHANGED <<content, mixed>>
  /\ UNCHANGED <<names, chunks, upload, recycled, index, fileAsked, given, crowded, unlisted>>
\* movePasteEntry: what cannot be removed stays in both places.
RemoveSource(c) ==
  /\ ClerkAt(c, "unsource") /\ ClerkLeaves(c)
  /\ \/ names' = [names EXCEPT !["doc"] = 0] /\ UNCHANGED fileMishaps
     \/ FileMishap /\ UNCHANGED names
  /\ UNCHANGED <<content, chunks, upload, recycled, index, fileAsked, fileHistory>>
\* The failed request removes what has the name of its destination.
UndoPaste(c) ==
  /\ ClerkAt(c, "undo") /\ names' = [names EXCEPT !["copy"] = 0] /\ ClerkLeaves(c)
  /\ mixed' = (mixed \/ clerk[c].fd \notin {0, names["copy"]})
  /\ UNCHANGED <<content, chunks, upload, recycled, index, fileAsked, fileMishaps, given, crowded, unlisted>>
\* filesRename looks at nothing: a file of the new name gives way.
RenameFile(c) ==
  /\ ClerkAt(c, "free") /\ fileAsked < MaxFileAsked /\ fileAsked' = fileAsked + 1 /\ names["copy"] # 0
  /\ names' = [names EXCEPT !["doc"] = names["copy"], !["copy"] = 0]
  /\ given' = given \cup VersionsOf(names["doc"])
  /\ crowded' = (crowded \/ Asking # {} \/ Assembling # {})
  /\ UNCHANGED <<content, chunks, upload, recycled, index, clerk, fileMishaps, mixed, unlisted>>

\* Every handler stops where it is; clients see their uploads fail.
CrashFiles ==
  /\ FileMishap
  /\ upload' = [u \in Uploads |-> IF u \in Uploading THEN [NewUpload EXCEPT !.pc = "failed"] ELSE upload[u]]
  /\ clerk' = [c \in Clerks |-> Waiting]
  /\ mixed' = (mixed \/ Assembling # {} \/ \E c \in Clerks : clerk[c].fd # 0)
  /\ unlisted' = (unlisted \/ OnBin # {})
  /\ UNCHANGED <<names, content, chunks, recycled, index, fileAsked, given, crowded>>

FileNext ==
  \/ \E u \in Uploads : \/ StartUpload(u) \/ ChunkArrives(u) \/ CreateFinal(u) \/ AppendChunk(u)
                        \/ Assembled(u) \/ DropPartial(u) \/ CancelUpload(u)
  \/ \E c \in Clerks : \/ \E n \in Names : Recycle(c, n)
                       \/ MoveToBin(c) \/ LoadToAdd(c) \/ Restore(c) \/ Purge(c) \/ Empty(c) \/ Probe(c)
                       \/ MoveBack(c) \/ EraseItems(c) \/ TruncateIndex(c) \/ WriteIndex(c)
                       \/ Paste(c) \/ RenamePasted(c) \/ OpenCopy(c) \/ FillCopy(c) \/ RemoveSource(c)
                       \/ UndoPaste(c) \/ RenameFile(c)
  \/ CrashFiles
FileSpec == FileInit /\ [][FileNext]_fileVars

-----------------------------------------------------------------------------
FileTypeOK ==
  /\ names \in [Names -> Inodes \cup {0}] /\ recycled \in [Items -> Inodes \cup {0}]
  /\ \A i \in Inodes : content[i] \in [Parts -> Contents \cup {0}]
  /\ chunks \in [Parts -> Uploads \cup {0}] /\ index \subseteq Items
  /\ upload \in [Uploads -> [pc : {"new", "open", "create", "join", "sweep", "drop", "done", "failed"},
                             next : Parts, fd : Inodes \cup {0}, quit : BOOLEAN]]
  /\ \A c \in Clerks : clerk[c].view \subseteq Items /\ clerk[c].to \in Names
  /\ fileAsked \in 0..MaxFileAsked /\ fileMishaps \in 0..MaxFileMishaps
  /\ given \subseteq Contents /\ {mixed, crowded, unlisted} \subseteq BOOLEAN

\* A file that no handler is writing has the chunks of one upload.
FilesAreWhole == mixed \/ \A i \in Linked \ Written : Whole(i)
\* At rest the index lists what is in the bin.
BinIsListed == unlisted \/ OnBin # {} \/ index = {k \in Items : recycled[k] # 0}
\* No user gave a content up: it is in the folder, or in the bin.
NothingIsLost ==
  mixed \/ crowded \/ \A v \in {Original} \cup {u \in Uploads : UpAt(u, "done")} :
    v \in given \/ \E i \in Linked : content[i] = FileOf(v)
\* What a failed upload, two requests at once or a crash do to a folder is no more than
\* what the history records: files stay whole, listed, and there (files_upload.go:281,
\* files_recyclebin.go:147, files_paste.go:109).
FilesConsistent == FilesAreWhole /\ BinIsListed /\ NothingIsLost
=============================================================================
