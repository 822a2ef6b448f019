--------------------------- MODULE Folders_proofs ---------------------------
(***************************************************************************)
(* Theorems about what the users keep on the machine: the files that they   *)
(* upload, move, copy and throw away, and the shared folders they are in,   *)
(* for any number of requests, failures and restarts.                       *)
(***************************************************************************)
EXTENDS MCDaemon, FiniteSetTheorems, TLAPS
-----------------------------------------------------------------------------
(* Files.  The invariant says what each upload and each request on files has *)
(* in its hand at each of its steps, and what the names, the bin and its    *)
(* index hold meanwhile; a history that says that two met excuses a part.   *)

Steps == {"free", "bin", "load", "probe", "back", "erase", "truncate", "write", "rename", "measure",
          "fill", "unsource", "undo"}
FileKinds == {"none", "recycle", "restore", "purge", "empty", "cut", "far cut", "copy"}
UploadRec == [pc : {"new", "open", "create", "join", "sweep", "drop", "done", "failed"},
              next : Parts, fd : Inodes \cup {0}, quit : BOOLEAN]
ClerkRec == [pc : Steps, kind : FileKinds, item : Items \cup {0}, view : SUBSET Items, to : Names,
             fd : Inodes \cup {0}, src : Inodes \cup {0}, size : Nat]
FileTypes ==
  /\ names \in [Names -> Inodes \cup {0}] /\ recycled \in [Items -> Inodes \cup {0}]
  /\ content \in [Inodes -> [Parts -> Contents \cup {0}]]
  /\ chunks \in [Parts -> Uploads \cup {0}] /\ index \subseteq Items
  /\ upload \in [Uploads -> UploadRec] /\ clerk \in [Clerks -> ClerkRec]
  /\ fileAsked \in 0..MaxFileAsked /\ fileMishaps \in 0..MaxFileMishaps
  /\ given \subseteq Contents /\ mixed \in BOOLEAN /\ crowded \in BOOLEAN /\ unlisted \in BOOLEAN

\* What a request holds open at each of its steps, and what it was asked for.
Joining(u) == upload[u].pc \in {"join", "sweep", "drop"}
HoldsOpen ==
  /\ \A u \in Uploads : (upload[u].fd # 0 <=> Joining(u)) /\ (upload[u].pc = "new" => upload[u].next = 0)
  /\ \A c \in Clerks : /\ clerk[c].fd # 0 => clerk[c].pc \in {"fill", "undo"}
                       /\ clerk[c].pc = "fill" => clerk[c].fd # 0 /\ clerk[c].src # 0
BinKinds == {"recycle", "restore", "purge", "empty"}
KindOK(r) ==
  /\ r.pc \in {"bin", "load", "truncate", "write"} => r.kind = "recycle"
  /\ r.pc \in {"probe", "back"} => r.kind = "restore"
  /\ r.pc = "erase" => r.kind \in {"purge", "empty"}
  /\ r.pc \in {"free", "rename", "measure", "fill", "unsource", "undo"} => r.kind \notin BinKinds
  /\ r.pc \in {"load", "probe", "back"} \/ r.kind = "purge" => r.item \in Items
\* A file has one name.
OneName ==
  /\ \A n, m \in Names : names[n] = names[m] /\ names[n] # 0 => n = m
  /\ \A j, k \in Items : recycled[j] = recycled[k] /\ recycled[j] # 0 => j = k
  /\ \A n \in Names, k \in Items : names[n] # 0 => names[n] # recycled[k]

\* An upload that is alone finds the chunks that it stored, and writes them to a file that
\* nobody else writes to.
UploadOK(u) ==
  LET r == upload[u] IN
  /\ r.pc = "open" /\ r.next = 1 => chunks[0] = u
  /\ r.pc \in {"create", "join"} => \A i \in Parts : chunks[i] = u
  /\ r.pc \in {"join", "drop"} => \A i \in Parts : content[r.fd][i] \in {0, u}
  /\ r.pc = "join" /\ r.next = 1 => content[r.fd][0] = u
  /\ r.pc = "sweep" => content[r.fd] = FileOf(u)
OneWriter ==
  /\ \A u \in Uploads, c \in Clerks : clerk[c].fd # 0 => clerk[c].fd # upload[u].fd
  /\ \A b, c \in Clerks : clerk[b].fd = clerk[c].fd /\ clerk[b].fd # 0 => b = c
WholeInv ==
  mixed \/ /\ \A u, v \in Uploading : u = v
           /\ \A u \in Uploading : UploadOK(u)
           /\ OneWriter /\ FilesAreWhole

\* A request on the bin that is alone knows what the index should list.
InBin == {k \in Items : recycled[k] # 0}
BinOK(r) ==
  /\ r.pc \in {"bin", "probe", "back", "erase"} => index = InBin
  /\ r.pc \in {"back", "probe", "erase"} => r.view = index
  /\ r.pc = "load" => InBin = index \cup {r.item}
  /\ r.pc \in {"truncate", "write"} => r.view = InBin
BinInv ==
  unlisted \/ /\ \A b, c \in OnBin : b = c
              /\ \A c \in OnBin : BinOK(clerk[c])
              /\ BinIsListed

\* A request on names that is alone knows where the contents are.
PasteOK(r) ==
  /\ r.pc \in {"rename", "measure"} => names["doc"] # 0 /\ names["copy"] = 0
  /\ r.pc = "back" => names[r.to] = 0
  /\ r.pc \in {"fill", "undo", "unsource"} => names["doc"] # 0 /\ names["copy"] # 0
  /\ r.pc = "fill" => r.fd = names["copy"] /\ r.src = names["doc"] /\ content[r.fd] = Blank
  /\ r.pc = "undo" => content[names["copy"]] \in {Blank, content[names["doc"]]}
  /\ r.pc = "unsource" => content[names["copy"]] = content[names["doc"]]
Kept(v) == v \in given \/ \E i \in Linked : content[i] = FileOf(v)
LostInv ==
  mixed \/ crowded \/
    /\ \A b, c \in Asking : b = c
    /\ \A c \in Asking : PasteOK(clerk[c]) /\ Assembling = {}
    /\ \A u \in Assembling : names["doc"] = upload[u].fd
    /\ Kept(Original) /\ \A u \in Uploads : UpAt(u, "done") => Kept(u)

FilesInv == FileTypes /\ HoldsOpen /\ (\A c \in Clerks : KindOK(clerk[c])) /\ OneName /\ WholeInv /\ BinInv /\ LostInv

-----------------------------------------------------------------------------
\* What the numbers are.
LEMMA FileNumbers ==
  /\ 1 \in Inodes /\ 0 \notin Inodes /\ 0 \notin Items /\ 0 \notin Uploads /\ Original \notin Uploads
  /\ Original = 1 /\ 0 \notin Contents /\ Uploads \subseteq Contents /\ Original \in Contents
  /\ MaxFileAsked \in Nat /\ MaxFileMishaps \in Nat
BY FileAssumption DEF Original, Contents

\* A request goes on with another record, and the others with theirs.
LEMMA ClerkMoves ==
  ASSUME clerk \in [Clerks -> ClerkRec], NEW c \in Clerks, NEW r \in ClerkRec, clerk' = [clerk EXCEPT ![c] = r]
  PROVE  clerk' \in [Clerks -> ClerkRec] /\ clerk'[c] = r /\ \A b \in Clerks : b # c => clerk'[b] = clerk[b]
OBVIOUS
LEMMA UploadMoves ==
  ASSUME upload \in [Uploads -> UploadRec], NEW u \in Uploads, NEW r \in UploadRec, upload' = [upload EXCEPT ![u] = r]
  PROVE  upload' \in [Uploads -> UploadRec] /\ upload'[u] = r /\ \A v \in Uploads : v # u => upload'[v] = upload[v]
OBVIOUS
LEMMA WaitingIs ==
  /\ Waiting \in ClerkRec /\ KindOK(Waiting) /\ Waiting.pc = "free" /\ Waiting.fd = 0 /\ Waiting.src = 0
  /\ Waiting.kind = "none"
BY DEF Waiting, ClerkRec, Steps, FileKinds, Names, KindOK, BinKinds
LEMMA NewUploadIs ==
  /\ NewUpload \in UploadRec /\ NewUpload.pc = "new" /\ NewUpload.fd = 0 /\ NewUpload.next = 0
  /\ \A pc \in {"failed", "done"} : Ended(pc) \in UploadRec /\ Ended(pc).pc = pc /\ Ended(pc).fd = 0
BY DEF NewUpload, UploadRec, Ended, Parts
\* What the requests are.
LEMMA ClerkIs ==
  ASSUME FileTypes, NEW c \in Clerks
  PROVE  /\ clerk[c] \in ClerkRec /\ clerk[c].pc \in Steps /\ clerk[c].kind \in FileKinds
         /\ clerk[c].item \in Items \cup {0} /\ clerk[c].view \subseteq Items /\ clerk[c].to \in Names
         /\ clerk[c].fd \in Inodes \cup {0} /\ clerk[c].src \in Inodes \cup {0} /\ clerk[c].size \in Nat
<1>1. clerk[c] \in ClerkRec
  BY DEF FileTypes
<1> QED
  BY <1>1 DEF ClerkRec
LEMMA UploadIs ==
  ASSUME FileTypes, NEW u \in Uploads
  PROVE  /\ upload[u] \in UploadRec /\ upload[u].next \in Parts /\ upload[u].fd \in Inodes \cup {0}
         /\ upload[u].pc \in {"new", "open", "create", "join", "sweep", "drop", "done", "failed"}
         /\ upload[u].quit \in BOOLEAN
<1>1. upload[u] \in UploadRec
  BY DEF FileTypes
<1> QED
  BY <1>1 DEF UploadRec
\* Requests that go on hold what they held, or nothing.
LEMMA ClerkHolds ==
  ASSUME FileTypes, HoldsOpen, \A b \in Clerks : KindOK(clerk[b]), NEW c \in Clerks, NEW r \in ClerkRec, KindOK(r),
         clerk' = [clerk EXCEPT ![c] = r],
         r.fd # 0 => r.pc \in {"fill", "undo"}, r.pc = "fill" => r.fd # 0 /\ r.src # 0, UNCHANGED upload
  PROVE  HoldsOpen' /\ \A b \in Clerks : KindOK(clerk'[b])
<1>1. clerk'[c] = r /\ \A b \in Clerks : b # c => clerk'[b] = clerk[b]
  BY ClerkMoves DEF FileTypes
<1>2. \A b \in Clerks : /\ clerk'[b].fd # 0 => clerk'[b].pc \in {"fill", "undo"}
                        /\ clerk'[b].pc = "fill" => clerk'[b].fd # 0 /\ clerk'[b].src # 0
  BY <1>1 DEF HoldsOpen
<1>3. \A b \in Clerks : KindOK(clerk'[b])
  BY <1>1
<1> QED
  BY <1>2, <1>3 DEF HoldsOpen, Joining

\* Files stay whole where nothing is written and no name appears.
LEMMA WholeStays ==
  ASSUME WholeInv, UNCHANGED content, Linked' \subseteq Linked, mixed' \/ ~mixed,
         \A b \in Clerks : clerk'[b].fd = clerk[b].fd, \A u \in Uploads : upload'[u].fd = upload[u].fd,
         ~mixed' => /\ \A u, v \in Uploading' : u = v
                    /\ \A u \in Uploading' : UploadOK(u)'
  PROVE  WholeInv'
<1> SUFFICES ASSUME ~mixed' PROVE WholeInv'
  BY Zenon DEF WholeInv
<1>1. OneWriter /\ FilesAreWhole /\ ~mixed
  BY Zenon DEF WholeInv
<1>2. OneWriter'
  BY <1>1 DEF OneWriter
<1>3. Written' = Written
  BY DEF Written
<1>4. \A i \in Linked' \ Written' : Whole(i)'
  BY <1>1, <1>3 DEF FilesAreWhole, Whole
<1> QED
  BY <1>2, <1>4 DEF WholeInv, FilesAreWhole
\* The same where the uploads do nothing.
LEMMA WholeRests ==
  ASSUME WholeInv, UNCHANGED <<content, upload, chunks>>, Linked' \subseteq Linked, mixed' \/ ~mixed,
         \A b \in Clerks : clerk'[b].fd = clerk[b].fd
  PROVE  WholeInv'
<1>1. Uploading' = Uploading /\ \A u \in Uploads : upload'[u].fd = upload[u].fd
  BY DEF Uploading
<1>2. ASSUME ~mixed' PROVE (\A u, v \in Uploading' : u = v) /\ \A u \in Uploading' : UploadOK(u)'
  <2>1. (\A u, v \in Uploading : u = v) /\ \A u \in Uploading : UploadOK(u)
    BY <1>2, Zenon DEF WholeInv
  <2> QED
    BY <1>1, <2>1 DEF UploadOK
<1> QED
  BY <1>1, <1>2, WholeStays

\* The bin keeps its order where none of its requests moves.
LEMMA BinStays ==
  ASSUME BinInv, UNCHANGED <<recycled, index>>, unlisted' \/ ~unlisted, OnBin' = OnBin,
         \A b \in OnBin : clerk'[b] = clerk[b]
  PROVE  BinInv'
<1> SUFFICES ASSUME ~unlisted' PROVE BinInv'
  BY Zenon DEF BinInv
<1>1. /\ \A b, c \in OnBin : b = c
      /\ \A c \in OnBin : BinOK(clerk[c])
      /\ BinIsListed /\ ~unlisted
  BY Zenon DEF BinInv
<1>2. InBin' = InBin
  BY DEF InBin
<1>3. \A c \in OnBin' : BinOK(clerk[c])'
  BY <1>1, <1>2 DEF BinOK
<1>4. BinIsListed'
  BY <1>1 DEF BinIsListed
<1> QED
  BY <1>1, <1>3, <1>4 DEF BinInv
\* The one request on the bin goes on.
LEMMA BinMoves ==
  ASSUME FileTypes, BinInv, NEW c \in Clerks, c \in OnBin, NEW r \in ClerkRec, clerk' = [clerk EXCEPT ![c] = r],
         unlisted' \/ ~unlisted,
         ~unlisted' /\ BinOK(clerk[c]) => IF r.pc # "free" THEN r.kind \in BinKinds /\ BinOK(r)' ELSE index' = InBin'
  PROVE  BinInv'
<1> SUFFICES ASSUME ~unlisted' PROVE BinInv'
  BY Zenon DEF BinInv
<1>1. /\ \A b \in OnBin : b = c
      /\ BinOK(clerk[c]) /\ ~unlisted
  BY Zenon DEF BinInv
<1>2. clerk'[c] = r /\ \A b \in Clerks : b # c => clerk'[b] = clerk[b]
  BY ClerkMoves DEF FileTypes
<1>3. \A b \in OnBin' : b = c
  BY <1>1, <1>2 DEF OnBin, Asking, ClerkAt
<1>4. CASE r.pc = "free"
  <2>1. OnBin' = {}
    BY <1>2, <1>3, <1>4 DEF OnBin, Asking, ClerkAt
  <2>2. index' = InBin'
    BY <1>1, <1>4
  <2> QED
    BY <2>1, <2>2 DEF BinInv, BinIsListed, InBin
<1>5. CASE r.pc # "free"
  <2>1. BinOK(r)' /\ c \in OnBin'
    BY <1>1, <1>2, <1>5 DEF OnBin, Asking, ClerkAt, BinKinds
  <2>2. BinOK(clerk[c])'
    BY <1>2, <2>1 DEF BinOK
  <2> QED
    BY <1>3, <2>1, <2>2, Zenon DEF BinInv, BinIsListed
<1> QED
  BY <1>4, <1>5

\* A content that is kept stays so where no name goes.
LEMMA KeptFilesStay ==
  ASSUME UNCHANGED content, Linked \subseteq Linked', given \subseteq given', NEW v, Kept(v)
  PROVE  Kept(v)'
BY DEF Kept
\* The one request on names goes on.
LEMMA LostMoves ==
  ASSUME FileTypes, LostInv, NEW c \in Clerks, clerk[c].pc # "free", NEW r \in ClerkRec,
         clerk' = [clerk EXCEPT ![c] = r], UNCHANGED upload, mixed' \/ ~mixed, crowded' \/ ~crowded,
         ~mixed' /\ ~mixed /\ ~crowded /\ PasteOK(clerk[c]) =>
            PasteOK(r)' /\ \A v \in Contents : Kept(v) => Kept(v)'
  PROVE  LostInv'
<1> SUFFICES ASSUME ~mixed', ~crowded' PROVE LostInv'
  BY Zenon DEF LostInv
<1>0. ~mixed /\ ~crowded
  BY Zenon
<1>1. /\ \A b \in Asking : b = c
      /\ PasteOK(clerk[c]) /\ Assembling = {}
      /\ Kept(Original) /\ \A u \in Uploads : UpAt(u, "done") => Kept(u)
  BY <1>0 DEF LostInv, Asking, ClerkAt
<1>2. clerk'[c] = r /\ \A b \in Clerks : b # c => clerk'[b] = clerk[b]
  BY ClerkMoves DEF FileTypes
<1>3. \A b \in Asking' : b = c
  BY <1>1, <1>2 DEF Asking, ClerkAt
<1>4. PasteOK(r)' /\ \A v \in Contents : Kept(v) => Kept(v)'
  BY <1>0, <1>1
<1>5. Assembling' = {}
  BY <1>1 DEF Assembling
<1>6. Kept(Original)' /\ \A u \in Uploads : UpAt(u, "done")' => Kept(u)'
  BY <1>1, <1>4, FileNumbers DEF UpAt
<1>7. \A b \in Asking' : PasteOK(clerk[b])'
  BY <1>2, <1>3, <1>4 DEF PasteOK
<1> QED
  BY <1>3, <1>5, <1>6, <1>7, Zenon DEF LostInv
\* An upload that touches no name.
LEMMA LostRests ==
  ASSUME LostInv, UNCHANGED <<names, content, recycled, clerk, given, crowded>>, mixed' \/ ~mixed,
         \A v \in Uploads : /\ Joining(v)' => Joining(v) /\ upload'[v].fd = upload[v].fd
                            /\ UpAt(v, "done")' => UpAt(v, "done")
  PROVE  LostInv'
<1> SUFFICES ASSUME ~mixed', ~crowded' PROVE LostInv'
  BY Zenon DEF LostInv
<1>0. ~mixed /\ ~crowded
  BY Zenon
<1>1. /\ \A b, c \in Asking : b = c
      /\ \A c \in Asking : PasteOK(clerk[c]) /\ Assembling = {}
      /\ \A u \in Assembling : names["doc"] = upload[u].fd
      /\ Kept(Original) /\ \A u \in Uploads : UpAt(u, "done") => Kept(u)
  BY <1>0, Zenon DEF LostInv
<1>2. Asking' = Asking /\ \A c \in Clerks : PasteOK(clerk[c]) => PasteOK(clerk[c])'
  BY DEF Asking, ClerkAt, PasteOK
<1>3. Assembling' \subseteq Assembling /\ \A u \in Assembling' : upload'[u].fd = upload[u].fd
  BY DEF Assembling, Joining
<1>4. \A v : Kept(v) => Kept(v)'
  BY DEF Kept, Linked
<1>5. \A c \in Asking' : PasteOK(clerk[c])' /\ Assembling' = {}
  BY <1>1, <1>2, <1>3 DEF Asking
<1>6. Kept(Original)' /\ \A u \in Uploads : UpAt(u, "done")' => Kept(u)'
  BY <1>1, <1>4
<1>7. \A u \in Assembling' : names'["doc"] = upload'[u].fd
  BY <1>1, <1>3
<1> QED
  BY <1>1, <1>2, <1>5, <1>6, <1>7, Zenon DEF LostInv
\* The names of files are as they were.
LEMMA NamesStay == ASSUME UNCHANGED <<names, recycled>> PROVE Linked' = Linked /\ InBin' = InBin /\ (OneName => OneName')
BY DEF Linked, InBin, OneName

-----------------------------------------------------------------------------
\* The files at the start.
LEMMA FilesStart == ASSUME FileInit PROVE FilesInv
<1>1. names["doc"] = 1 /\ names["copy"] = 0 /\ names["restored"] = 0 /\ names \in [Names -> Inodes \cup {0}]
  BY FileNumbers DEF FileInit, Names
<1>2. content \in [Inodes -> [Parts -> Contents \cup {0}]] /\ content[1] = FileOf(Original)
  BY FileNumbers DEF FileInit, FileOf, Blank
<1>3. \A k \in Items : recycled[k] = 0
  BY DEF FileInit
<1>4. \A u \in Uploads : upload[u] = NewUpload
  BY DEF FileInit
<1>5. \A c \in Clerks : clerk[c] = Waiting
  BY DEF FileInit
<1>6. FileTypes
  <2>1. upload \in [Uploads -> UploadRec] /\ clerk \in [Clerks -> ClerkRec]
    BY WaitingIs, NewUploadIs DEF FileInit
  <2>2. chunks \in [Parts -> Uploads \cup {0}] /\ recycled \in [Items -> Inodes \cup {0}]
    BY DEF FileInit, Blank
  <2>3. fileAsked \in 0..MaxFileAsked /\ fileMishaps \in 0..MaxFileMishaps
    BY FileNumbers DEF FileInit
  <2>4. index \subseteq Items /\ given \subseteq Contents /\ mixed \in BOOLEAN /\ crowded \in BOOLEAN /\ unlisted \in BOOLEAN
    BY DEF FileInit
  <2> QED
    BY <1>1, <1>2, <2>1, <2>2, <2>3, <2>4 DEF FileTypes
<1>7. HoldsOpen /\ \A c \in Clerks : KindOK(clerk[c])
  BY <1>4, <1>5, WaitingIs, NewUploadIs DEF HoldsOpen, Joining
<1>8. OneName
  BY <1>1, <1>3 DEF OneName, Names
<1>9. Linked = {1}
  BY <1>1, <1>3 DEF Linked, Names
<1>10. Whole(1)
  BY <1>2, FileNumbers DEF Whole
<1>11. Uploading = {} /\ Assembling = {} /\ Asking = {} /\ OnBin = {} /\ InBin = {}
  BY <1>3, <1>4, <1>5, WaitingIs, NewUploadIs DEF Uploading, Assembling, Asking, OnBin, InBin, ClerkAt
<1>12. OneWriter
  BY <1>5, WaitingIs DEF OneWriter
<1>13. WholeInv
  BY <1>9, <1>10, <1>11, <1>12 DEF WholeInv, FilesAreWhole
<1>14. BinInv
  BY <1>11 DEF BinInv, BinIsListed, FileInit, InBin
<1>15. Kept(Original) /\ \A u \in Uploads : ~UpAt(u, "done")
  BY <1>2, <1>4, <1>9, NewUploadIs DEF Kept, UpAt
<1>16. LostInv
  BY <1>11, <1>15 DEF LostInv
<1> QED
  BY <1>6, <1>7, <1>8, <1>13, <1>14, <1>16 DEF FilesInv

-----------------------------------------------------------------------------
(* Uploads *)

LEMMA StartUploadKeeps ==
  ASSUME FilesInv, NEW u \in Uploads, StartUpload(u)
  PROVE  FilesInv'
<1>0. FileTypes /\ HoldsOpen /\ OneName /\ WholeInv /\ BinInv /\ LostInv
  BY DEF FilesInv
<1>1. PICK r : r = [upload[u] EXCEPT !.pc = "open"]
  OBVIOUS
<1>2. r \in UploadRec /\ r.pc = "open" /\ r.fd = upload[u].fd /\ r.next = upload[u].next /\ upload[u].pc = "new"
  BY <1>0, <1>1, UploadIs DEF UploadRec, StartUpload, UpAt
<1>3. upload' = [upload EXCEPT ![u] = r]
  BY <1>1 DEF StartUpload, UpGoes
<1>4. upload' \in [Uploads -> UploadRec] /\ upload'[u] = r /\ \A v \in Uploads : v # u => upload'[v] = upload[v]
  BY <1>0, <1>2, <1>3, UploadMoves DEF FileTypes
<1>5. /\ UNCHANGED <<names, content, chunks, recycled, index, clerk, fileMishaps, given, crowded, unlisted>>
      /\ mixed' = (mixed \/ Uploading # {}) /\ fileAsked' \in 0..MaxFileAsked
  BY <1>0, FileNumbers DEF StartUpload, FileTypes
<1>6. FileTypes'
  BY <1>0, <1>4, <1>5 DEF FileTypes
<1>7. HoldsOpen' /\ \A c \in Clerks : KindOK(clerk[c])'
  BY <1>0, <1>2, <1>4, <1>5 DEF FilesInv, HoldsOpen, Joining, KindOK
<1>8. mixed' \/ (~mixed /\ Uploading = {})
  BY <1>5, Zenon
<1>9. WholeInv'
  <2>1. ASSUME ~mixed' PROVE (\A v, w \in Uploading' : v = w) /\ \A v \in Uploading' : UploadOK(v)'
    <3>1. \A v \in Uploading' : v = u
      BY <1>4, <1>8, <2>1 DEF Uploading
    <3>2. upload[u].next = 0
      BY <1>0, <1>2 DEF HoldsOpen
    <3> QED
      BY <1>2, <1>4, <3>1, <3>2 DEF UploadOK
  <2> QED
    BY <1>0, <1>2, <1>4, <1>5, <1>8, <2>1, NamesStay, WholeStays
<1>10. BinInv'
  BY <1>0, <1>5, BinStays DEF OnBin, Asking, ClerkAt
<1>11. LostInv'
  BY <1>0, <1>2, <1>4, <1>5, <1>8, LostRests DEF Joining, UpAt
<1> QED
  BY <1>0, <1>5, <1>6, <1>7, <1>9, <1>10, <1>11, NamesStay DEF FilesInv

\* The one upload under way takes a step that touches no file.
LEMMA UploadSteps ==
  ASSUME FilesInv, NEW u \in Uploads, u \in Uploading, NEW r \in UploadRec, upload' = [upload EXCEPT ![u] = r],
         UNCHANGED <<names, content, recycled, index, clerk, fileAsked, given, crowded, unlisted>>,
         chunks' \in [Parts -> Uploads \cup {0}], fileMishaps' \in 0..MaxFileMishaps,
         mixed' \in BOOLEAN, mixed' \/ ~mixed, r.fd = upload[u].fd,
         r.pc \in {"join", "sweep", "drop"} <=> Joining(u), r.pc \notin {"new", "done"},
         ~mixed' /\ UploadOK(u) => UploadOK(u)'
  PROVE  FilesInv'
<1>0. FileTypes /\ HoldsOpen /\ OneName /\ WholeInv /\ BinInv /\ LostInv
  BY DEF FilesInv
<1>1. upload' \in [Uploads -> UploadRec] /\ upload'[u] = r /\ \A v \in Uploads : v # u => upload'[v] = upload[v]
  BY <1>0, UploadMoves DEF FileTypes
<1>2. FileTypes'
  BY <1>0, <1>1 DEF FileTypes
<1>3. HoldsOpen' /\ \A c \in Clerks : KindOK(clerk[c])'
  BY <1>0, <1>1 DEF FilesInv, HoldsOpen, Joining, KindOK
<1>4. WholeInv'
  <2>1. ASSUME ~mixed' PROVE (\A v, w \in Uploading' : v = w) /\ \A v \in Uploading' : UploadOK(v)'
    <3>1. (\A v \in Uploading : v = u) /\ UploadOK(u)
      BY <1>0, <2>1, Zenon DEF WholeInv
    <3>2. \A v \in Uploading' : v = u
      BY <1>1, <3>1 DEF Uploading
    <3> QED
      BY <2>1, <3>1, <3>2
  <2> QED
    BY <1>0, <1>1, <2>1, NamesStay, WholeStays
<1>5. BinInv'
  BY <1>0, BinStays DEF OnBin, Asking, ClerkAt
<1>6. LostInv'
  BY <1>0, <1>1, LostRests DEF Joining, UpAt
<1> QED
  BY <1>0, <1>2, <1>3, <1>4, <1>5, <1>6, NamesStay DEF FilesInv

\* A mishap is counted.
LEMMA FileMishapIs ==
  ASSUME FileTypes, FileMishap \/ UNCHANGED fileMishaps
  PROVE  fileMishaps' \in 0..MaxFileMishaps
BY FileNumbers DEF FileTypes, FileMishap

LEMMA ChunkArrivesKeeps ==
  ASSUME FilesInv, NEW u \in Uploads, ChunkArrives(u)
  PROVE  FilesInv'
<1> DEFINE k == upload[u].next
<1>0. FileTypes /\ HoldsOpen /\ u \in Uploading /\ upload[u].pc = "open" /\ k \in Parts
  BY UploadIs DEF FilesInv, ChunkArrives, UpAt, Uploading
<1>1. /\ UNCHANGED <<names, content, recycled, index, clerk, fileAsked, given, mixed, crowded, unlisted>>
      /\ mixed' \in BOOLEAN /\ (mixed' \/ ~mixed) /\ fileMishaps' \in 0..MaxFileMishaps
  <2>1. UNCHANGED <<names, content, recycled, index, clerk, fileAsked, given, mixed, crowded, unlisted>>
    BY DEF ChunkArrives, fileHistory
  <2>2. FileMishap \/ UNCHANGED fileMishaps
    BY DEF ChunkArrives
  <2> QED
    BY <1>0, <2>1, <2>2, FileMishapIs, Zenon DEF FileTypes
<1>2. CASE /\ chunks' = [chunks EXCEPT ![k] = u]
           /\ upload' = [upload EXCEPT ![u].pc = IF k = 1 THEN "create" ELSE "open", ![u].next = 1 - k]
  <2>0. PICK pc, n : pc = (IF k = 1 THEN "create" ELSE "open") /\ n = 1 - k
    OBVIOUS
  <2>7. pc \in {"create", "open"} /\ n \in Parts
    BY <1>0, <2>0 DEF Parts
  <2>1. PICK r : r = [upload[u] EXCEPT !.pc = pc, !.next = n]
    OBVIOUS
  <2>8. r \in UploadRec /\ r.pc = pc /\ r.next = n /\ r.fd = upload[u].fd
    BY <1>0, <2>1, <2>7, UploadIs DEF UploadRec
  <2>2. /\ r \in UploadRec /\ r.pc = (IF k = 1 THEN "create" ELSE "open") /\ r.next = 1 - k
        /\ r.fd = upload[u].fd
    BY <2>0, <2>8
  <2>3. upload' = [upload EXCEPT ![u] = r]
    BY <1>2, <2>0, <2>1
  <2>4. chunks' \in [Parts -> Uploads \cup {0}] /\ chunks'[k] = u /\ \A i \in Parts : i # k => chunks'[i] = chunks[i]
    BY <1>0, <1>2 DEF FileTypes
  <2>5. upload'[u] = r
    BY <1>0, <2>2, <2>3, UploadMoves DEF FileTypes
  <2>6. ASSUME UploadOK(u) PROVE UploadOK(u)'
    <3>1. k = 1 => chunks[0] = u
      BY <1>0, <2>6 DEF UploadOK
    <3> QED
      BY <1>0, <2>2, <2>4, <2>5, <3>1 DEF UploadOK, Parts
  <2> QED
    BY <1>0, <1>1, <2>2, <2>3, <2>4, <2>6, UploadSteps DEF Joining
<1>3. CASE /\ upload' = [upload EXCEPT ![u] = Ended("failed")]
           /\ chunks' \in {[chunks EXCEPT ![k] = 0]} \cup (IF k = 0 THEN {chunks} ELSE {})
  <2>1. PICK r : r = Ended("failed")
    OBVIOUS
  <2>2. r \in UploadRec /\ r.pc = "failed" /\ r.fd = 0 /\ upload[u].fd = 0
    BY <1>0, <2>1, NewUploadIs DEF HoldsOpen, Joining
  <2>3. chunks' \in [Parts -> Uploads \cup {0}]
    BY <1>0, <1>3 DEF FileTypes
  <2>4. upload'[u] = r
    BY <1>0, <1>3, <2>1, <2>2, UploadMoves DEF FileTypes
  <2>5. UploadOK(u)'
    BY <2>2, <2>4 DEF UploadOK
  <2> QED
    BY <1>0, <1>1, <1>3, <2>1, <2>2, <2>3, <2>5, UploadSteps DEF Joining
<1> QED
  BY <1>2, <1>3 DEF ChunkArrives

LEMMA CancelUploadKeeps ==
  ASSUME FilesInv, NEW u \in Uploads, CancelUpload(u)
  PROVE  FilesInv'
<1>0. FileTypes /\ HoldsOpen /\ u \in Uploading
  BY DEF FilesInv, CancelUpload
<1>1. /\ UNCHANGED <<names, content, recycled, index, clerk, fileAsked, fileMishaps, given, crowded, unlisted>>
      /\ chunks' = Blank /\ mixed' = (mixed \/ ~UpAt(u, "open") \/ Uploading # {u})
      /\ upload' = [upload EXCEPT ![u] = IF UpAt(u, "open") THEN Ended("failed") ELSE [upload[u] EXCEPT !.quit = TRUE]]
  BY DEF CancelUpload
<1>2. chunks' \in [Parts -> Uploads \cup {0}] /\ fileMishaps' \in 0..MaxFileMishaps
  BY <1>0, <1>1 DEF Blank, FileTypes
<1>3. mixed' \in BOOLEAN /\ (mixed' \/ (~mixed /\ UpAt(u, "open")))
  BY <1>1, Zenon
<1>4. CASE UpAt(u, "open")
  <2>1. PICK r : r = Ended("failed")
    OBVIOUS
  <2>2. r \in UploadRec /\ r.pc = "failed" /\ r.fd = 0 /\ upload[u].fd = 0 /\ ~Joining(u)
    BY <1>0, <1>4, <2>1, NewUploadIs DEF HoldsOpen, Joining, UpAt
  <2>3. upload' = [upload EXCEPT ![u] = r]
    BY <1>1, <1>4, <2>1
  <2>4. UploadOK(u)'
    BY <1>0, <2>2, <2>3, UploadMoves DEF UploadOK, FileTypes
  <2> QED
    BY <1>0, <1>1, <1>2, <1>3, <2>2, <2>3, <2>4, UploadSteps
<1>5. CASE ~UpAt(u, "open")
  <2>1. PICK r : r = [upload[u] EXCEPT !.quit = TRUE]
    OBVIOUS
  <2>2. r \in UploadRec /\ r.pc = upload[u].pc /\ r.fd = upload[u].fd
    BY <1>0, <2>1, UploadIs DEF UploadRec
  <2>3. upload' = [upload EXCEPT ![u] = r] /\ mixed'
    BY <1>1, <1>3, <1>5, <2>1
  <2> QED
    BY <1>0, <1>1, <1>2, <1>3, <2>2, <2>3, UploadSteps DEF Joining, Uploading
<1> QED
  BY <1>4, <1>5

\* What a name that is opened for writing leads to.
LEMMA CreatesIs ==
  ASSUME FileTypes, NEW n \in Names, MayCreate(n)
  PROVE  /\ Creates(n) \in Inodes
         /\ names[n] # 0 => Creates(n) = names[n]
         /\ names[n] = 0 => Creates(n) \notin Linked \cup Open
<1>1. CASE names[n] # 0
  BY <1>1 DEF FileTypes, Creates
<1>2. CASE names[n] = 0
  <2>1. Unused # {}
    BY <1>2 DEF MayCreate
  <2>2. NewInode \in Unused
    BY <2>1 DEF NewInode
  <2> QED
    BY <1>2, <2>2 DEF Creates, Unused
<1> QED
  BY <1>1, <1>2
\* It gets a name that it has alone.
LEMMA NameComes ==
  ASSUME FileTypes, OneName, NEW n \in Names, NEW i \in Inodes, i \in Linked => names[n] = i,
         names' = [names EXCEPT ![n] = i], UNCHANGED recycled
  PROVE  /\ names' \in [Names -> Inodes \cup {0}] /\ OneName' /\ i \in Linked' /\ Linked' \subseteq Linked \cup {i}
         /\ Linked \ {names[n]} \subseteq Linked'
<1>1. /\ names' \in [Names -> Inodes \cup {0}] /\ names'[n] = i /\ i # 0
      /\ \A m \in Names : m # n => names'[m] = names[m]
  BY FileNumbers DEF FileTypes
<1>2. \A m \in Names : m # n => names[m] # i
  BY <1>1 DEF Linked, OneName
<1>3. \A k \in Items : recycled[k] # i
  BY <1>1 DEF Linked, OneName
<1>4. OneName'
  BY <1>1, <1>2, <1>3 DEF OneName
<1> QED
  BY <1>1, <1>4 DEF Linked
\* A name that goes takes the file with it.
LEMMA NameGoes ==
  ASSUME FileTypes, OneName, NEW n \in Names, names' = [names EXCEPT ![n] = 0], UNCHANGED recycled
  PROVE  /\ names' \in [Names -> Inodes \cup {0}] /\ OneName' /\ Linked' = Linked \ {names[n]}
         /\ names'[n] = 0 /\ \A m \in Names : m # n => names'[m] = names[m]
<1>1. /\ names' \in [Names -> Inodes \cup {0}] /\ names'[n] = 0
      /\ \A m \in Names : m # n => names'[m] = names[m]
  BY DEF FileTypes
<1>2. OneName'
  BY <1>1 DEF OneName
<1>3. Linked' = Linked \ {names[n]}
  BY <1>1 DEF Linked, OneName
<1> QED
  BY <1>1, <1>2, <1>3
\* A file that only an upload has written to has no content of another.
LEMMA PartIsNobodys ==
  ASSUME FileTypes, NEW u \in Uploads, NEW i \in Inodes, \A k \in Parts : content[i][k] \in {0, u},
         NEW v \in Contents, v # u
  PROVE  content[i] # FileOf(v)
BY FileNumbers DEF FileOf, Parts

LEMMA CreateFinalKeeps ==
  ASSUME FilesInv, NEW u \in Uploads, CreateFinal(u)
  PROVE  FilesInv'
<1>0. /\ FileTypes /\ HoldsOpen /\ OneName /\ WholeInv /\ BinInv /\ LostInv /\ u \in Uploading
      /\ upload[u].pc = "create" /\ upload[u].fd = 0 /\ ~Joining(u) /\ "doc" \in Names
  <2>1. upload[u].pc = "create"
    BY DEF CreateFinal, UpAt
  <2> QED
    BY <2>1 DEF FilesInv, Uploading, HoldsOpen, Joining, Names
<1>1. CASE /\ FileMishap /\ upload' = [upload EXCEPT ![u] = Ended("failed")] /\ chunks' = Blank
           /\ UNCHANGED <<names, content, given, crowded, mixed>>
  <2>1. PICK r : r = Ended("failed")
    OBVIOUS
  <2>2. r \in UploadRec /\ r.pc = "failed" /\ r.fd = 0 /\ upload' = [upload EXCEPT ![u] = r]
    BY <1>1, <2>1, NewUploadIs
  <2>3. chunks' \in [Parts -> Uploads \cup {0}] /\ fileMishaps' \in 0..MaxFileMishaps
    BY <1>0, <1>1, FileMishapIs DEF Blank
  <2>4. UNCHANGED <<recycled, index, clerk, fileAsked, unlisted>>
    BY DEF CreateFinal
  <2>5. mixed' \in BOOLEAN /\ (mixed' \/ ~mixed)
    BY <1>0, <1>1, Zenon DEF FileTypes
  <2>6. UploadOK(u)'
    BY <1>0, <2>2, UploadMoves DEF UploadOK, FileTypes
  <2> QED
    BY <1>0, <1>1, <2>2, <2>3, <2>4, <2>5, <2>6, UploadSteps
<1>2. CASE /\ MayCreate("doc") /\ names' = [names EXCEPT !["doc"] = Creates("doc")]
           /\ Truncated(Creates("doc"))
           /\ given' = given \cup VersionsOf(names["doc"])
           /\ upload' = [upload EXCEPT ![u].pc = "join", ![u].next = 0, ![u].fd = Creates("doc")]
           /\ crowded' = (crowded \/ Asking # {}) /\ mixed' = (mixed \/ names["doc"] \in Written)
           /\ UNCHANGED <<chunks, fileMishaps>>
  <2>1. PICK i : i = Creates("doc")
    OBVIOUS
  <2>2. i \in Inodes /\ (names["doc"] # 0 => i = names["doc"]) /\ (names["doc"] = 0 => i \notin Linked \cup Open)
    BY <1>0, <1>2, <2>1, CreatesIs
  <2>3. PICK r : r = [upload[u] EXCEPT !.pc = "join", !.next = 0, !.fd = i]
    OBVIOUS
  <2>4. r \in UploadRec /\ r.pc = "join" /\ r.next = 0 /\ r.fd = i /\ i # 0
    BY <1>0, <2>2, <2>3, UploadIs, FileNumbers, Zenon DEF UploadRec, Parts
  <2>5. upload' = [upload EXCEPT ![u] = r]
    BY <1>2, <2>1, <2>3
  <2>6. upload' \in [Uploads -> UploadRec] /\ upload'[u] = r /\ \A v \in Uploads : v # u => upload'[v] = upload[v]
    BY <1>0, <2>4, <2>5, UploadMoves DEF FileTypes
  <2>7. /\ names' = [names EXCEPT !["doc"] = i] /\ content' = [content EXCEPT ![i] = Blank]
        /\ UNCHANGED <<chunks, fileMishaps, recycled, index, clerk, fileAsked, unlisted>>
    BY <1>2, <2>1 DEF CreateFinal, Truncated
  <2>8. /\ names' \in [Names -> Inodes \cup {0}] /\ OneName' /\ Linked' \subseteq Linked \cup {i}
        /\ Linked \ {names["doc"]} \subseteq Linked' /\ names'["doc"] = i /\ i \in Linked'
    BY <1>0, <2>2, <2>7, NameComes DEF FileTypes
  <2>9. /\ content' \in [Inodes -> [Parts -> Contents \cup {0}]] /\ content'[i] = Blank
        /\ \A j \in Inodes : j # i => content'[j] = content[j]
    BY <1>0, <2>2, <2>7 DEF FileTypes, Blank
  <2>10. given' \subseteq Contents /\ given \subseteq given'
    BY <1>0, <1>2 DEF FileTypes, VersionsOf
  <2>11. mixed' \in BOOLEAN /\ crowded' \in BOOLEAN /\ (mixed' \/ (~mixed /\ names["doc"] \notin Written))
         /\ (crowded' \/ (~crowded /\ Asking = {}))
    BY <1>2, Zenon
  <2>12. FileTypes'
    BY <1>0, <2>6, <2>7, <2>8, <2>9, <2>10, <2>11 DEF FileTypes
  <2>13. HoldsOpen' /\ \A c \in Clerks : KindOK(clerk[c])'
    BY <1>0, <2>4, <2>6, <2>7 DEF FilesInv, HoldsOpen, Joining, KindOK
  <2>14. WholeInv'
    <3> SUFFICES ASSUME ~mixed' PROVE WholeInv'
      BY Zenon DEF WholeInv
    <3>1. ~mixed /\ names["doc"] \notin Written
      BY <2>11
    <3>2. (\A v \in Uploading : v = u) /\ UploadOK(u) /\ OneWriter /\ FilesAreWhole
      BY <1>0, <3>1, Zenon DEF WholeInv
    <3>3. i \notin Written
      BY <2>2, <3>1 DEF Open
    <3>4. \A v \in Uploading' : v = u
      BY <2>6, <3>2 DEF Uploading
    <3>5. UploadOK(u)'
      <4>1. \A j \in Parts : chunks[j] = u
        BY <1>0, <3>2 DEF UploadOK
      <4> QED
        BY <2>4, <2>6, <2>7, <2>9, <4>1 DEF UploadOK, Blank
    <3>6. OneWriter'
      <4>1. \A c \in Clerks : clerk[c].fd # 0 => clerk[c].fd # i
        BY <3>3, <2>4 DEF Written
      <4> QED
        BY <2>4, <2>6, <2>7, <3>2, <4>1 DEF OneWriter
    <3>7. Written' = Written \cup {i}
      BY <1>0, <2>4, <2>6, <2>7 DEF Written
    <3>8. \A j \in Linked' \ Written' : Whole(j)'
      <4> SUFFICES ASSUME NEW j \in Linked' \ Written' PROVE Whole(j)'
        OBVIOUS
      <4>1. j \in Linked \ Written /\ j # i
        BY <2>8, <3>7
      <4>2. Whole(j) /\ j \in Inodes
        BY <1>0, <3>1, <3>2, <4>1 DEF FilesAreWhole, Linked, FileTypes
      <4> QED
        BY <2>9, <4>1, <4>2 DEF Whole
    <3> QED
      BY <3>4, <3>5, <3>6, <3>8 DEF WholeInv, FilesAreWhole
  <2>15. BinInv'
    BY <1>0, <2>7, BinStays DEF OnBin, Asking, ClerkAt
  <2>16. LostInv'
    <3> SUFFICES ASSUME ~mixed', ~crowded' PROVE LostInv'
      BY Zenon DEF LostInv
    <3>1. ~mixed /\ ~crowded /\ Asking = {}
      BY <2>11
    <3>2. \A v \in Uploading : v = u
      BY <1>0, <3>1, Zenon DEF WholeInv
    <3>3. Kept(Original) /\ \A v \in Uploads : UpAt(v, "done") => Kept(v)
      BY <1>0, <3>1, Zenon DEF LostInv
    <3>4. Asking' = {}
      BY <2>7, <3>1 DEF Asking, ClerkAt
    <3>5. \A v \in Assembling' : v = u
      BY <2>6, <3>2 DEF Assembling, Uploading
    <3>6. ASSUME NEW v \in Contents, Kept(v) PROVE Kept(v)'
      <4>1. CASE v \in given
        BY <2>10, <4>1 DEF Kept
      <4>2. CASE \E j \in Linked : content[j] = FileOf(v)
        <5>1. PICK j \in Linked : content[j] = FileOf(v)
          BY <4>2
        <5>2. CASE j = names["doc"] /\ j # 0
          <6>1. v \in VersionsOf(names["doc"])
            BY <5>1, <5>2 DEF VersionsOf
          <6> QED
            BY <1>2, <6>1 DEF Kept
        <5>3. CASE j # names["doc"]
          <6>1. j # i /\ j \in Inodes
            BY <1>0, <2>2, <5>3 DEF Linked, FileTypes
          <6> QED
            BY <2>8, <2>9, <5>1, <5>3, <6>1 DEF Kept
        <5> QED
          BY <5>2, <5>3 DEF Linked
      <4> QED
        BY <3>6, <4>1, <4>2 DEF Kept
    <3>7. Kept(Original)' /\ \A v \in Uploads : UpAt(v, "done")' => Kept(v)'
      BY <2>4, <2>6, <3>3, <3>6, FileNumbers DEF UpAt
    <3> QED
      BY <2>4, <2>6, <2>8, <3>4, <3>5, <3>7, Zenon DEF LostInv
  <2> QED
    BY <2>8, <2>12, <2>13, <2>14, <2>15, <2>16 DEF FilesInv
<1> QED
  BY <1>1, <1>2 DEF CreateFinal

\* What an assembly knows, while nothing else went on.
LEMMA AssemblyIs ==
  ASSUME FilesInv, NEW u \in Uploads, Joining(u), ~mixed
  PROVE  /\ \A v \in Uploading : v = u
         /\ u \in Uploading /\ u \in Assembling /\ UploadOK(u) /\ OneWriter /\ FilesAreWhole
         /\ ~crowded => /\ Asking = {} /\ names["doc"] = upload[u].fd
                        /\ Kept(Original) /\ \A v \in Uploads : UpAt(v, "done") => Kept(v)
<1>1. u \in Uploading /\ u \in Assembling
  BY DEF Joining, Uploading, Assembling
<1>2. (\A v \in Uploading : v = u) /\ UploadOK(u) /\ OneWriter /\ FilesAreWhole
  BY <1>1, Zenon DEF FilesInv, WholeInv
<1>3. ASSUME ~crowded
      PROVE  /\ Asking = {} /\ names["doc"] = upload[u].fd
             /\ Kept(Original) /\ \A v \in Uploads : UpAt(v, "done") => Kept(v)
  <2>1. /\ \A c \in Asking : Assembling = {}
        /\ names["doc"] = upload[u].fd
        /\ Kept(Original) /\ \A v \in Uploads : UpAt(v, "done") => Kept(v)
    BY <1>1, <1>3, Zenon DEF FilesInv, LostInv
  <2> QED
    BY <1>1, <2>1
<1> QED
  BY <1>1, <1>2, <1>3

LEMMA AppendChunkKeeps ==
  ASSUME FilesInv, NEW u \in Uploads, AppendChunk(u)
  PROVE  FilesInv'
<1> DEFINE k == upload[u].next
           i == upload[u].fd
<1>0. /\ FileTypes /\ HoldsOpen /\ OneName /\ WholeInv /\ BinInv /\ LostInv /\ u \in Uploading
      /\ upload[u].pc = "join" /\ Joining(u) /\ k \in Parts /\ i \in Inodes /\ i # 0
  <2>1. upload[u].pc = "join"
    BY DEF AppendChunk, UpAt
  <2>2. Joining(u) /\ u \in Uploading
    BY <2>1 DEF Joining, Uploading
  <2> QED
    BY <2>1, <2>2, UploadIs DEF FilesInv, HoldsOpen
<1>1. /\ UNCHANGED <<names, chunks, recycled, index, clerk, fileAsked, given, mixed, crowded, unlisted>>
      /\ mixed' \in BOOLEAN /\ (mixed' \/ ~mixed) /\ fileMishaps' \in 0..MaxFileMishaps
  <2>1. UNCHANGED <<names, chunks, recycled, index, clerk, fileAsked, given, mixed, crowded, unlisted>>
    BY DEF AppendChunk, fileHistory
  <2>2. FileMishap \/ UNCHANGED fileMishaps
    BY DEF AppendChunk
  <2> QED
    BY <1>0, <2>1, <2>2, FileMishapIs, Zenon DEF FileTypes
<1>2. CASE UpGoes(u, "drop") /\ UNCHANGED content
  <2>1. PICK r : r = [upload[u] EXCEPT !.pc = "drop"]
    OBVIOUS
  <2>2. r \in UploadRec /\ r.pc = "drop" /\ r.fd = i
    BY <1>0, <2>1, UploadIs DEF UploadRec
  <2>3. upload' = [upload EXCEPT ![u] = r]
    BY <1>2, <2>1 DEF UpGoes
  <2>4. upload'[u] = r
    BY <1>0, <2>2, <2>3, UploadMoves DEF FileTypes
  <2>5. UploadOK(u) => UploadOK(u)'
    BY <1>0, <1>1, <1>2, <2>2, <2>4 DEF UploadOK
  <2>6. chunks' \in [Parts -> Uploads \cup {0}]
    BY <1>0, <1>1 DEF FileTypes
  <2> QED
    BY <1>0, <1>1, <1>2, <2>2, <2>3, <2>5, <2>6, UploadSteps
<1>3. CASE /\ chunks[k] # 0 /\ content' = [content EXCEPT ![i][k] = chunks[k]]
           /\ upload' = [upload EXCEPT ![u].pc = IF k = 1 THEN "sweep" ELSE "join", ![u].next = 1 - k]
  <2>1. PICK pc, n : pc = (IF k = 1 THEN "sweep" ELSE "join") /\ n = 1 - k
    OBVIOUS
  <2>2. pc \in {"sweep", "join"} /\ n \in Parts
    BY <1>0, <2>1 DEF Parts
  <2>3. PICK r : r = [upload[u] EXCEPT !.pc = pc, !.next = n]
    OBVIOUS
  <2>4. r \in UploadRec /\ r.pc = pc /\ r.next = n /\ r.fd = i
    BY <1>0, <2>2, <2>3, UploadIs DEF UploadRec
  <2>5. upload' = [upload EXCEPT ![u] = r]
    BY <1>3, <2>1, <2>3
  <2>6. upload' \in [Uploads -> UploadRec] /\ upload'[u] = r /\ \A v \in Uploads : v # u => upload'[v] = upload[v]
    BY <1>0, <2>4, <2>5, UploadMoves DEF FileTypes
  <2>7. /\ content' \in [Inodes -> [Parts -> Contents \cup {0}]]
        /\ content'[i] = [content[i] EXCEPT ![k] = chunks[k]]
        /\ \A j \in Inodes : j # i => content'[j] = content[j]
    <3>1. chunks[k] \in Contents /\ content[i] \in [Parts -> Contents \cup {0}]
      BY <1>0, <1>3, FileNumbers DEF FileTypes
    <3> QED
      BY <1>0, <1>3, <3>1 DEF FileTypes
  <2>8. /\ content'[i] \in [Parts -> Contents \cup {0}] /\ content'[i][k] = chunks[k]
        /\ \A p \in Parts : p # k => content'[i][p] = content[i][p]
    BY <1>0, <2>7 DEF FileTypes
  <2>9. FileTypes'
    BY <1>0, <1>1, <2>6, <2>7 DEF FileTypes
  <2>10. HoldsOpen' /\ \A c \in Clerks : KindOK(clerk[c])'
    BY <1>0, <1>1, <2>2, <2>4, <2>6 DEF FilesInv, HoldsOpen, Joining, KindOK
  <2>11. WholeInv'
    <3> SUFFICES ASSUME ~mixed' PROVE WholeInv'
      BY Zenon DEF WholeInv
    <3>1. ~mixed
      BY <1>1
    <3>2. (\A v \in Uploading : v = u) /\ UploadOK(u) /\ OneWriter /\ FilesAreWhole
      BY <1>0, <3>1, AssemblyIs
    <3>3. /\ \A p \in Parts : chunks[p] = u /\ content[i][p] \in {0, u}
          /\ k = 1 => content[i][0] = u
      BY <1>0, <3>2 DEF UploadOK
    <3>4. \A v \in Uploading' : v = u
      BY <2>6, <3>2 DEF Uploading
    <3>5. \A p \in Parts : content'[i][p] \in {0, u}
      BY <1>0, <2>8, <3>3
    <3>6. k = 1 => \A p \in Parts : content'[i][p] = u
      BY <1>0, <2>8, <3>3 DEF Parts
    <3>7. k = 1 => content'[i] = FileOf(u)
      BY <2>8, <3>6 DEF FileOf
    <3>8. k = 0 => content'[i][0] = u
      BY <1>0, <2>8, <3>3
    <3>9. UploadOK(u)'
      <4>1. CASE k = 1
        BY <1>1, <2>1, <2>4, <2>6, <3>7, <4>1 DEF UploadOK
      <4>2. CASE k = 0
        BY <1>1, <2>1, <2>4, <2>6, <3>3, <3>5, <3>8, <4>2 DEF UploadOK
      <4> QED
        BY <1>0, <4>1, <4>2 DEF Parts
    <3>10. \A v \in Uploads : upload'[v].fd = upload[v].fd
      BY <2>4, <2>6
    <3>11. OneWriter' /\ Written' = Written
      BY <1>1, <3>2, <3>10 DEF OneWriter, Written
    <3>12. i \in Written /\ Linked' = Linked
      BY <1>0, <1>1, NamesStay DEF Written
    <3>13. \A j \in Linked' \ Written' : Whole(j)'
      <4> SUFFICES ASSUME NEW j \in Linked' \ Written' PROVE Whole(j)'
        OBVIOUS
      <4>1. j \in Linked \ Written /\ j # i /\ j \in Inodes /\ Whole(j)
        BY <1>0, <3>1, <3>2, <3>11, <3>12, ZenonT(30) DEF FilesAreWhole, Linked, FileTypes
      <4> QED
        BY <2>7, <4>1 DEF Whole
    <3> QED
      BY <3>4, <3>9, <3>11, <3>13 DEF WholeInv, FilesAreWhole
  <2>12. BinInv'
    BY <1>0, <1>1, BinStays DEF OnBin, Asking, ClerkAt
  <2>13. LostInv'
    <3> SUFFICES ASSUME ~mixed', ~crowded' PROVE LostInv'
      BY Zenon DEF LostInv
    <3>1. ~mixed /\ ~crowded
      BY <1>1
    <3>2. /\ \A v \in Uploading : v = u
          /\ UploadOK(u) /\ Asking = {} /\ names["doc"] = i
          /\ Kept(Original) /\ \A v \in Uploads : UpAt(v, "done") => Kept(v)
      BY <1>0, <3>1, AssemblyIs
    <3>3. ASSUME NEW v \in Contents, v # u, Kept(v) PROVE Kept(v)'
      <4>1. content[i] # FileOf(v)
        BY <1>0, <3>2, <3>3, PartIsNobodys DEF UploadOK
      <4>2. \A j \in Linked : j \in Inodes
        BY <1>0 DEF Linked, FileTypes
      <4> QED
        BY <1>1, <2>7, <3>3, <4>1, <4>2, NamesStay DEF Kept
    <3>4. Kept(Original)' /\ \A v \in Uploads : UpAt(v, "done")' => Kept(v)'
      BY <2>2, <2>4, <2>6, <3>2, <3>3, FileNumbers DEF UpAt
    <3>5. Asking' = {} /\ \A v \in Assembling' : v = u
      BY <1>1, <2>6, <3>2 DEF Asking, ClerkAt, Assembling, Uploading
    <3> QED
      BY <1>1, <2>4, <2>6, <3>2, <3>4, <3>5, Zenon DEF LostInv
  <2> QED
    BY <1>0, <1>1, <2>9, <2>10, <2>11, <2>12, <2>13, NamesStay DEF FilesInv
<1> QED
  BY <1>2, <1>3 DEF AppendChunk

\* An upload that is over, with what it held.
LEMMA UploadEnds ==
  ASSUME FilesInv, NEW u \in Uploads, Joining(u), NEW r \in UploadRec, r.pc \in {"done", "failed"}, r.fd = 0,
         upload' = [upload EXCEPT ![u] = r], names' \in [Names -> Inodes \cup {0}], OneName',
         chunks' = Blank, UNCHANGED <<content, recycled, index, clerk, fileAsked, fileMishaps, given, crowded, unlisted>>,
         mixed' \in BOOLEAN, mixed' \/ ~mixed, Linked' \subseteq Linked,
         ~mixed' /\ upload[u].fd \in Linked' => content[upload[u].fd] = FileOf(u),
         ~mixed' => Linked \ {upload[u].fd} \subseteq Linked',
         r.pc = "done" => UNCHANGED names /\ (~mixed' => content[upload[u].fd] = FileOf(u)),
         r.pc = "failed" /\ ~mixed' => \A p \in Parts : content[upload[u].fd][p] \in {0, u}
  PROVE  FilesInv'
<1> DEFINE i == upload[u].fd
<1>0. FileTypes /\ HoldsOpen /\ OneName /\ WholeInv /\ BinInv /\ LostInv /\ i \in Inodes /\ i # 0
  BY UploadIs DEF FilesInv, HoldsOpen
<1>1. upload' \in [Uploads -> UploadRec] /\ upload'[u] = r /\ \A v \in Uploads : v # u => upload'[v] = upload[v]
  BY <1>0, UploadMoves DEF FileTypes
<1>2. FileTypes'
  BY <1>0, <1>1 DEF FileTypes, Blank
<1>3. HoldsOpen' /\ \A c \in Clerks : KindOK(clerk[c])'
  BY <1>0, <1>1 DEF FilesInv, HoldsOpen, Joining, KindOK
<1>4. WholeInv'
  <2> SUFFICES ASSUME ~mixed' PROVE WholeInv'
    BY Zenon DEF WholeInv
  <2>1. ~mixed
    OBVIOUS
  <2>2. (\A v \in Uploading : v = u) /\ UploadOK(u) /\ OneWriter /\ FilesAreWhole
    BY <1>0, <2>1, AssemblyIs
  <2>3. Uploading' = {}
    BY <1>1, <2>2 DEF Uploading
  <2>4. OneWriter'
    BY <1>1, <2>2 DEF OneWriter
  <2>5. Written \ {i} \subseteq Written'
    BY <1>1 DEF Written
  <2>6. \A j \in Linked' \ Written' : Whole(j)'
    <3> SUFFICES ASSUME NEW j \in Linked' \ Written' PROVE Whole(j)'
      OBVIOUS
    <3>1. CASE j = i
      BY <3>1, FileNumbers DEF Whole
    <3>2. CASE j # i
      <4>1. j \in Linked \ Written
        BY <2>5, <3>2
      <4>2. Whole(j)
        BY <2>1, <2>2, <4>1 DEF FilesAreWhole
      <4> QED
        BY <4>2 DEF Whole
    <3> QED
      BY <3>1, <3>2
  <2> QED
    BY <2>3, <2>4, <2>6 DEF WholeInv, FilesAreWhole
<1>5. BinInv'
  BY <1>0, BinStays DEF OnBin, Asking, ClerkAt
<1>6. LostInv'
  <2> SUFFICES ASSUME ~mixed', ~crowded' PROVE LostInv'
    BY Zenon DEF LostInv
  <2>1. ~mixed /\ ~crowded
    OBVIOUS
  <2>2. /\ \A v \in Uploading : v = u
        /\ UploadOK(u) /\ Asking = {} /\ names["doc"] = i
        /\ Kept(Original) /\ \A v \in Uploads : UpAt(v, "done") => Kept(v)
    BY <1>0, <2>1, AssemblyIs
  <2>3. Asking' = {} /\ Assembling' = {}
    BY <1>1, <2>2 DEF Asking, ClerkAt, Assembling, Uploading
  <2>4. CASE r.pc = "done"
    <3>1. Linked' = Linked /\ i \in Linked /\ content[i] = FileOf(u)
      BY <1>0, <2>2, <2>4, NamesStay DEF Linked, Names
    <3>2. \A v : Kept(v) => Kept(v)'
      BY <3>1, KeptFilesStay
    <3>3. Kept(u)'
      BY <3>1 DEF Kept
    <3>4. Kept(Original)' /\ \A v \in Uploads : UpAt(v, "done")' => Kept(v)'
      BY <1>1, <2>2, <3>2, <3>3 DEF UpAt
    <3> QED
      BY <2>3, <3>4 DEF LostInv
  <2>5. CASE r.pc = "failed"
    <3>1. \A p \in Parts : content[i][p] \in {0, u}
      BY <2>5
    <3>2. ASSUME NEW v \in Contents, v # u, Kept(v) PROVE Kept(v)'
      <4>1. content[i] # FileOf(v)
        BY <1>0, <3>1, <3>2, PartIsNobodys
      <4> QED
        BY <3>2, <4>1 DEF Kept
    <3>3. Kept(Original)' /\ \A v \in Uploads : UpAt(v, "done")' => Kept(v)'
      BY <1>1, <2>2, <2>5, <3>2, FileNumbers DEF UpAt
    <3> QED
      BY <2>3, <3>3 DEF LostInv
  <2> QED
    BY <2>4, <2>5
<1> QED
  BY <1>2, <1>3, <1>4, <1>5, <1>6 DEF FilesInv

LEMMA AssembledKeeps ==
  ASSUME FilesInv, NEW u \in Uploads, Assembled(u)
  PROVE  FilesInv'
<1>1. PICK r : r = Ended("done")
  OBVIOUS
<1>2. /\ r \in UploadRec /\ r.pc = "done" /\ r.fd = 0 /\ upload' = [upload EXCEPT ![u] = r]
      /\ Joining(u) /\ upload[u].pc = "sweep" /\ chunks' = Blank
      /\ UNCHANGED <<names, content, recycled, index, clerk, fileAsked, fileMishaps, given, mixed, crowded, unlisted>>
  BY <1>1, NewUploadIs DEF Assembled, Joining, UpAt, fileHistory
<1>3. Linked' = Linked /\ OneName' /\ names' \in [Names -> Inodes \cup {0}]
  BY <1>2, NamesStay DEF FilesInv, FileTypes
<1>4. mixed' \in BOOLEAN /\ (mixed' \/ ~mixed)
  BY <1>2, Zenon DEF FilesInv, FileTypes
<1>5. ~mixed' => content[upload[u].fd] = FileOf(u)
  BY <1>2, AssemblyIs DEF UploadOK
<1> QED
  BY <1>2, <1>3, <1>4, <1>5, UploadEnds

LEMMA DropPartialKeeps ==
  ASSUME FilesInv, NEW u \in Uploads, DropPartial(u)
  PROVE  FilesInv'
<1>1. PICK r : r = Ended("failed")
  OBVIOUS
<1>2. /\ r \in UploadRec /\ r.pc = "failed" /\ r.fd = 0 /\ upload' = [upload EXCEPT ![u] = r]
      /\ Joining(u) /\ upload[u].pc = "drop" /\ chunks' = Blank /\ names' = [names EXCEPT !["doc"] = 0]
      /\ UNCHANGED <<content, recycled, index, clerk, fileAsked, fileMishaps, given, crowded, unlisted>>
      /\ mixed' = (mixed \/ names["doc"] # upload[u].fd) /\ "doc" \in Names
  BY <1>1, NewUploadIs DEF DropPartial, Joining, UpAt, Names
<1>3. Linked' = Linked \ {names["doc"]} /\ OneName' /\ names' \in [Names -> Inodes \cup {0}]
  BY <1>2, NameGoes DEF FilesInv
<1>4. mixed' \in BOOLEAN /\ (mixed' \/ (~mixed /\ names["doc"] = upload[u].fd))
  BY <1>2, Zenon
<1>5. ~mixed' => \A p \in Parts : content[upload[u].fd][p] \in {0, u}
  BY <1>2, <1>4, AssemblyIs DEF UploadOK
<1> QED
  BY <1>2, <1>3, <1>4, <1>5, UploadEnds

-----------------------------------------------------------------------------
(* The recycle bin *)

\* A request that goes on, writing to no file.
LEMMA ClerkSteps ==
  ASSUME FilesInv, NEW c \in Clerks, clerk[c].pc # "free", clerk[c].fd = 0, NEW r \in ClerkRec, KindOK(r),
         r.fd = 0, r.pc # "fill", clerk' = [clerk EXCEPT ![c] = r],
         UNCHANGED <<content, upload, chunks, fileAsked, mixed, crowded>>,
         names' \in [Names -> Inodes \cup {0}], recycled' \in [Items -> Inodes \cup {0}], OneName',
         Linked' \subseteq Linked, index' \subseteq Items, given' \subseteq Contents,
         FileMishap \/ UNCHANGED fileMishaps, unlisted' \in BOOLEAN, BinInv',
         ~mixed /\ ~crowded /\ PasteOK(clerk[c]) => PasteOK(r)' /\ \A v \in Contents : Kept(v) => Kept(v)'
  PROVE  FilesInv'
<1>0. FileTypes /\ HoldsOpen /\ (\A b \in Clerks : KindOK(clerk[b])) /\ WholeInv /\ LostInv
  BY DEF FilesInv
<1>1. clerk' \in [Clerks -> ClerkRec] /\ clerk'[c] = r /\ \A b \in Clerks : b # c => clerk'[b] = clerk[b]
  BY <1>0, ClerkMoves DEF FileTypes
<1>2. /\ mixed' \in BOOLEAN /\ crowded' \in BOOLEAN /\ (mixed' \/ ~mixed) /\ (crowded' \/ ~crowded)
      /\ fileMishaps' \in 0..MaxFileMishaps
  BY <1>0, FileMishapIs, Zenon DEF FileTypes
<1>3. FileTypes'
  BY <1>0, <1>1, <1>2 DEF FileTypes
<1>4. HoldsOpen' /\ \A b \in Clerks : KindOK(clerk'[b])
  BY <1>0, ClerkHolds
<1>5. \A b \in Clerks : clerk'[b].fd = clerk[b].fd
  BY <1>1
<1>6. WholeInv'
  BY <1>0, <1>2, <1>5, WholeRests
<1>7. ~mixed' /\ ~mixed /\ ~crowded /\ PasteOK(clerk[c]) =>
         PasteOK(r)' /\ \A v \in Contents : Kept(v) => Kept(v)'
  BY <1>2
<1>8. LostInv'
  BY <1>0, <1>2, <1>7, LostMoves
<1>9. \A b \in Clerks : KindOK(clerk[b])'
  BY <1>4 DEF KindOK
<1> QED
  BY <1>3, <1>4, <1>6, <1>8, <1>9 DEF FilesInv

\* The requests on the bin are on it, and at their steps hold no file open.
LEMMA OnBinIs ==
  ASSUME FilesInv, NEW c \in Clerks, clerk[c].pc \in {"bin", "load", "probe", "back", "erase", "truncate", "write"}
  PROVE  c \in OnBin /\ clerk[c].kind \in BinKinds /\ clerk[c].fd = 0 /\ clerk[c].pc # "free"
<1>1. KindOK(clerk[c]) /\ HoldsOpen
  BY DEF FilesInv
<1>2. clerk[c].kind \in BinKinds /\ clerk[c].fd = 0
  BY <1>1 DEF KindOK, BinKinds, HoldsOpen
<1> QED
  BY <1>2 DEF OnBin, Asking, ClerkAt, BinKinds
LEMMA SavingIs ==
  ASSUME NEW items \in SUBSET Items
  PROVE  LET r == [Waiting EXCEPT !.pc = "truncate", !.kind = "recycle", !.view = items]
         IN r \in ClerkRec /\ KindOK(r) /\ r.fd = 0 /\ r.pc = "truncate" /\ r.kind = "recycle" /\ r.view = items
<1> DEFINE r == [Waiting EXCEPT !.pc = "truncate", !.kind = "recycle", !.view = items]
<1>1. r \in ClerkRec /\ r.pc = "truncate" /\ r.kind = "recycle" /\ r.view = items /\ r.fd = 0
  BY Zenon DEF Waiting, ClerkRec, Steps, FileKinds, Names
<1> QED
  BY <1>1 DEF KindOK, BinKinds

LEMMA LoadToAddKeeps ==
  ASSUME FilesInv, NEW c \in Clerks, LoadToAdd(c)
  PROVE  FilesInv'
<1>0. /\ FileTypes /\ OneName /\ BinInv /\ clerk[c].pc = "load" /\ clerk[c].item \in Items /\ index \subseteq Items
      /\ c \in OnBin /\ clerk[c].fd = 0
  BY OnBinIs DEF FilesInv, LoadToAdd, ClerkAt, KindOK, FileTypes
<1>1. PICK r : r = [Waiting EXCEPT !.pc = "truncate", !.kind = "recycle", !.view = index \cup {clerk[c].item}]
  OBVIOUS
<1>2. r \in ClerkRec /\ KindOK(r) /\ r.fd = 0 /\ r.pc = "truncate" /\ r.kind = "recycle" /\ r.view = index \cup {clerk[c].item}
  BY <1>0, <1>1, SavingIs, Zenon
<1>3. /\ clerk' = [clerk EXCEPT ![c] = r]
      /\ UNCHANGED <<names, content, chunks, upload, recycled, index, fileAsked, fileMishaps, given, mixed, crowded, unlisted>>
  BY <1>1 DEF LoadToAdd, ClerkSaves, fileHistory
<1>4. Linked' = Linked /\ InBin' = InBin /\ OneName'
  BY <1>0, <1>3, NamesStay
<1>5. unlisted' \in BOOLEAN /\ (unlisted' \/ ~unlisted)
  BY <1>0, <1>3, Zenon DEF FileTypes
<1>6. BinOK(clerk[c]) => BinOK(r)'
  BY <1>0, <1>2, <1>4 DEF BinOK
<1>7. BinInv'
  BY <1>0, <1>2, <1>3, <1>5, <1>6, BinMoves DEF BinKinds
<1>8. PasteOK(r)' /\ \A v \in Contents : Kept(v) => Kept(v)'
  BY <1>2, <1>3, <1>4, KeptFilesStay DEF PasteOK
<1> QED
  BY <1>0, <1>2, <1>3, <1>4, <1>5, <1>7, <1>8, ClerkSteps DEF FileTypes

LEMMA ProbeKeeps ==
  ASSUME FilesInv, NEW c \in Clerks, Probe(c)
  PROVE  FilesInv'
<1>0. /\ FileTypes /\ OneName /\ BinInv /\ clerk[c].pc = "probe" /\ KindOK(clerk[c]) /\ c \in OnBin /\ clerk[c].fd = 0
      /\ clerk[c] \in ClerkRec
  BY OnBinIs, ClerkIs DEF FilesInv, Probe, ClerkAt
<1>1. PICK n : n = IF names["doc"] = 0 THEN "doc" ELSE "restored"
  OBVIOUS
<1>2. n \in Names /\ names[n] = 0
  BY <1>1 DEF Names, Probe
<1>3. PICK r : r = [clerk[c] EXCEPT !.pc = "back", !.to = n]
  OBVIOUS
<1>4. /\ r \in ClerkRec /\ r.pc = "back" /\ r.to = n /\ r.fd = 0 /\ r.kind = clerk[c].kind /\ r.item = clerk[c].item
      /\ r.view = clerk[c].view
  BY <1>0, <1>2, <1>3 DEF ClerkRec, Steps
<1>5. KindOK(r)
  BY <1>0, <1>4 DEF KindOK, BinKinds
<1>6. /\ clerk' = [clerk EXCEPT ![c] = r]
      /\ UNCHANGED <<names, content, chunks, upload, recycled, index, fileAsked, fileMishaps, given, mixed, crowded, unlisted>>
  BY <1>1, <1>3 DEF Probe, fileHistory
<1>7. Linked' = Linked /\ InBin' = InBin /\ OneName'
  BY <1>0, <1>6, NamesStay
<1>8. unlisted' \in BOOLEAN /\ (unlisted' \/ ~unlisted)
  BY <1>0, <1>6, Zenon DEF FileTypes
<1>9. BinOK(clerk[c]) => BinOK(r)'
  BY <1>0, <1>4, <1>6, <1>7 DEF BinOK
<1>10. r.kind \in BinKinds
  BY <1>0, <1>4 DEF KindOK, BinKinds
<1>11. BinInv'
  BY <1>0, <1>4, <1>6, <1>8, <1>9, <1>10, BinMoves
<1>12. PasteOK(r)' /\ \A v \in Contents : Kept(v) => Kept(v)'
  BY <1>2, <1>4, <1>6, <1>7, KeptFilesStay DEF PasteOK
<1> QED
  BY <1>0, <1>4, <1>5, <1>6, <1>7, <1>8, <1>11, <1>12, ClerkSteps DEF FileTypes

LEMMA WriteIndexKeeps ==
  ASSUME FilesInv, NEW c \in Clerks, WriteIndex(c)
  PROVE  FilesInv'
<1>0. /\ FileTypes /\ OneName /\ BinInv /\ clerk[c].pc = "write" /\ c \in OnBin /\ clerk[c].fd = 0
      /\ clerk[c].view \subseteq Items
  BY OnBinIs, ClerkIs DEF FilesInv, WriteIndex, ClerkAt
<1>1. /\ clerk' = [clerk EXCEPT ![c] = Waiting]
      /\ UNCHANGED <<names, content, chunks, upload, recycled, fileAsked, given, mixed, crowded>>
      /\ \/ index' = clerk[c].view /\ UNCHANGED <<fileMishaps, unlisted>>
         \/ FileMishap /\ unlisted' = TRUE /\ UNCHANGED index
  BY DEF WriteIndex, ClerkLeaves
<1>2. Linked' = Linked /\ InBin' = InBin /\ OneName'
  BY <1>0, <1>1, NamesStay
<1>3. unlisted' \in BOOLEAN /\ (unlisted' \/ ~unlisted)
  <2>1. CASE UNCHANGED unlisted
    BY <1>0, <2>1, Zenon DEF FileTypes
  <2>2. CASE unlisted' = TRUE
    BY <2>2
  <2> QED
    BY <1>1, <2>1, <2>2
<1>4. ~unlisted' /\ BinOK(clerk[c]) => index' = InBin'
  BY <1>0, <1>1, <1>2 DEF BinOK
<1>5. BinInv'
  BY <1>0, <1>1, <1>3, <1>4, WaitingIs, BinMoves
<1>6. PasteOK(Waiting)' /\ \A v \in Contents : Kept(v) => Kept(v)'
  BY <1>1, <1>2, KeptFilesStay, WaitingIs DEF PasteOK
<1>7. index' \subseteq Items /\ (FileMishap \/ UNCHANGED fileMishaps)
  BY <1>0, <1>1 DEF FileTypes
<1> QED
  BY <1>0, <1>1, <1>2, <1>3, <1>5, <1>6, <1>7, WaitingIs, ClerkSteps DEF FileTypes

LEMMA TruncateIndexKeeps ==
  ASSUME FilesInv, NEW c \in Clerks, TruncateIndex(c)
  PROVE  FilesInv'
<1>0. /\ FileTypes /\ OneName /\ BinInv /\ clerk[c].pc = "truncate" /\ c \in OnBin /\ clerk[c].fd = 0
      /\ clerk[c] \in ClerkRec /\ KindOK(clerk[c]) /\ clerk[c].kind \in BinKinds
  BY OnBinIs, ClerkIs DEF FilesInv, TruncateIndex, ClerkAt
<1>1. UNCHANGED <<names, content, chunks, upload, recycled, fileAsked, given, mixed, crowded>>
  BY DEF TruncateIndex
<1>2. Linked' = Linked /\ InBin' = InBin /\ OneName'
  BY <1>0, <1>1, NamesStay
<1>3. CASE index' = {} /\ ClerkGoes(c, "write") /\ UNCHANGED <<fileMishaps, unlisted>>
  <2>1. PICK r : r = [clerk[c] EXCEPT !.pc = "write"]
    OBVIOUS
  <2>2. /\ r \in ClerkRec /\ r.pc = "write" /\ r.fd = 0 /\ r.kind = clerk[c].kind /\ r.view = clerk[c].view
        /\ r.item = clerk[c].item
    BY <1>0, <2>1 DEF ClerkRec, Steps
  <2>3. clerk' = [clerk EXCEPT ![c] = r] /\ KindOK(r)
    BY <1>0, <1>3, <2>1, <2>2 DEF ClerkGoes, KindOK, BinKinds
  <2>4. unlisted' \in BOOLEAN /\ (unlisted' \/ ~unlisted)
    BY <1>0, <1>3, Zenon DEF FileTypes
  <2>5. BinOK(clerk[c]) => BinOK(r)'
    BY <1>0, <1>2, <2>2 DEF BinOK
  <2>6. BinInv'
    BY <1>0, <2>2, <2>3, <2>4, <2>5, BinMoves
  <2>7. PasteOK(r)' /\ \A v \in Contents : Kept(v) => Kept(v)'
    BY <1>1, <1>2, <2>2, KeptFilesStay DEF PasteOK
  <2> QED
    BY <1>0, <1>1, <1>2, <1>3, <2>2, <2>3, <2>4, <2>6, <2>7, ClerkSteps DEF FileTypes
<1>4. CASE FileMishap /\ ClerkLeaves(c) /\ unlisted' = TRUE /\ UNCHANGED index
  <2>1. clerk' = [clerk EXCEPT ![c] = Waiting] /\ unlisted' \in BOOLEAN
    BY <1>4 DEF ClerkLeaves
  <2>2. BinInv'
    BY <1>4 DEF BinInv
  <2>3. PasteOK(Waiting)' /\ \A v \in Contents : Kept(v) => Kept(v)'
    BY <1>1, <1>2, KeptFilesStay, WaitingIs DEF PasteOK
  <2> QED
    BY <1>0, <1>1, <1>2, <1>4, <2>1, <2>2, <2>3, WaitingIs, ClerkSteps DEF FileTypes
<1> QED
  BY <1>3, <1>4 DEF TruncateIndex

LEMMA MoveToBinKeeps ==
  ASSUME FilesInv, NEW c \in Clerks, MoveToBin(c)
  PROVE  FilesInv'
<1> DEFINE n == clerk[c].to
<1>0. /\ FileTypes /\ OneName /\ BinInv /\ clerk[c].pc = "bin" /\ c \in OnBin /\ clerk[c].fd = 0
      /\ clerk[c] \in ClerkRec /\ KindOK(clerk[c]) /\ clerk[c].kind \in BinKinds /\ n \in Names
  BY OnBinIs, ClerkIs DEF FilesInv, MoveToBin, ClerkAt
<1>1. UNCHANGED <<content, chunks, upload, index, fileAsked, fileMishaps, given, mixed, crowded, unlisted>>
  BY DEF MoveToBin, fileHistory
<1>2. unlisted' \in BOOLEAN /\ (unlisted' \/ ~unlisted)
  BY <1>0, <1>1, Zenon DEF FileTypes
<1>3. CASE /\ names[n] # 0 /\ \E j \in Items : recycled[j] = 0
           /\ recycled' = [recycled EXCEPT ![CHOOSE j \in Items : recycled[j] = 0] = names[n]]
           /\ names' = [names EXCEPT ![n] = 0]
           /\ clerk' = [clerk EXCEPT ![c].pc = "load", ![c].item = CHOOSE j \in Items : recycled[j] = 0]
  <2>1. PICK k : k = CHOOSE j \in Items : recycled[j] = 0
    OBVIOUS
  <2>2. k \in Items /\ recycled[k] = 0
    BY <1>3, <2>1
  <2>3. PICK r : r = [clerk[c] EXCEPT !.pc = "load", !.item = k]
    OBVIOUS
  <2>4. r \in ClerkRec /\ r.pc = "load" /\ r.item = k /\ r.fd = 0 /\ r.kind = clerk[c].kind /\ r.view = clerk[c].view
    BY <1>0, <2>2, <2>3 DEF ClerkRec, Steps
  <2>5. KindOK(r)
    BY <1>0, <2>2, <2>4 DEF KindOK, BinKinds
  <2>6. clerk' = [clerk EXCEPT ![c] = r] /\ recycled' = [recycled EXCEPT ![k] = names[n]]
    BY <1>3, <2>1, <2>3
  <2>7. /\ names' \in [Names -> Inodes \cup {0}] /\ recycled' \in [Items -> Inodes \cup {0}]
        /\ names'[n] = 0 /\ recycled'[k] = names[n] /\ \A m \in Names : m # n => names'[m] = names[m]
        /\ \A j \in Items : j # k => recycled'[j] = recycled[j]
    <3>1. PICK i : i = names[n]
      OBVIOUS
    <3>2. i \in Inodes \cup {0} /\ recycled' = [recycled EXCEPT ![k] = i]
      BY <1>0, <2>6, <3>1 DEF FileTypes
    <3>3. /\ recycled' \in [Items -> Inodes \cup {0}] /\ recycled'[k] = i
          /\ \A j \in Items : j # k => recycled'[j] = recycled[j]
      BY <1>0, <2>2, <3>2 DEF FileTypes
    <3>4. /\ names' \in [Names -> Inodes \cup {0}] /\ names'[n] = 0
          /\ \A m \in Names : m # n => names'[m] = names[m]
      BY <1>0, <1>3 DEF FileTypes
    <3> QED
      BY <3>1, <3>3, <3>4
  <2>8. OneName'
    BY <1>0, <2>2, <2>7 DEF OneName
  <2>9. Linked' = Linked
    BY <1>0, <2>2, <2>7 DEF Linked
  <2>10. InBin' = InBin \cup {k}
    BY <1>3, <2>2, <2>7 DEF InBin
  <2>11. BinOK(clerk[c]) => BinOK(r)'
    BY <1>0, <1>1, <2>4, <2>10 DEF BinOK
  <2>12. BinInv'
    BY <1>0, <1>2, <2>4, <2>6, <2>11, BinMoves
  <2>13. PasteOK(r)' /\ \A v \in Contents : Kept(v) => Kept(v)'
    BY <1>1, <2>4, <2>9, KeptFilesStay DEF PasteOK
  <2> QED
    BY <1>0, <1>1, <1>2, <2>4, <2>5, <2>6, <2>7, <2>8, <2>9, <2>12, <2>13, ClerkSteps DEF FileTypes
<1>4. CASE names[n] = 0 /\ ClerkLeaves(c) /\ UNCHANGED <<names, recycled>>
  <2>1. clerk' = [clerk EXCEPT ![c] = Waiting]
    BY <1>4 DEF ClerkLeaves
  <2>2. Linked' = Linked /\ InBin' = InBin /\ OneName'
    BY <1>0, <1>4, NamesStay
  <2>3. BinOK(clerk[c]) => index' = InBin'
    BY <1>0, <1>1, <2>2 DEF BinOK
  <2>4. BinInv'
    BY <1>0, <1>2, <2>1, <2>3, WaitingIs, BinMoves
  <2>5. PasteOK(Waiting)' /\ \A v \in Contents : Kept(v) => Kept(v)'
    BY <1>1, <2>2, KeptFilesStay, WaitingIs DEF PasteOK
  <2> QED
    BY <1>0, <1>1, <1>2, <1>4, <2>1, <2>2, <2>4, <2>5, WaitingIs, ClerkSteps DEF FileTypes
<1> QED
  BY <1>3, <1>4 DEF MoveToBin

LEMMA MoveBackKeeps ==
  ASSUME FilesInv, NEW c \in Clerks, MoveBack(c)
  PROVE  FilesInv'
<1> DEFINE k == clerk[c].item
           n == clerk[c].to
<1>0. /\ FileTypes /\ OneName /\ BinInv /\ clerk[c].pc = "back" /\ c \in OnBin /\ clerk[c].fd = 0
      /\ k \in Items /\ n \in Names /\ clerk[c].view \subseteq Items
  BY OnBinIs, ClerkIs DEF FilesInv, MoveBack, ClerkAt, KindOK
<1>1. UNCHANGED <<content, chunks, upload, index, fileAsked, fileMishaps, given, mixed, crowded, unlisted>>
  BY DEF MoveBack, fileHistory
<1>2. unlisted' \in BOOLEAN /\ (unlisted' \/ ~unlisted)
  BY <1>0, <1>1, Zenon DEF FileTypes
<1>3. CASE /\ recycled[k] # 0 /\ names' = [names EXCEPT ![n] = recycled[k]]
           /\ recycled' = [recycled EXCEPT ![k] = 0]
           /\ ClerkSaves(c, clerk[c].view \ {k})
  <2>1. PICK r : r = [Waiting EXCEPT !.pc = "truncate", !.kind = "recycle", !.view = clerk[c].view \ {k}]
    OBVIOUS
  <2>2. r \in ClerkRec /\ KindOK(r) /\ r.fd = 0 /\ r.pc = "truncate" /\ r.kind = "recycle" /\ r.view = clerk[c].view \ {k}
    BY <1>0, <2>1, SavingIs, Zenon
  <2>3. clerk' = [clerk EXCEPT ![c] = r]
    BY <1>3, <2>1 DEF ClerkSaves
  <2>4. /\ names' \in [Names -> Inodes \cup {0}] /\ recycled' \in [Items -> Inodes \cup {0}]
        /\ names'[n] = recycled[k] /\ recycled'[k] = 0 /\ \A m \in Names : m # n => names'[m] = names[m]
        /\ \A j \in Items : j # k => recycled'[j] = recycled[j]
    BY <1>0, <1>3 DEF FileTypes
  <2>5. OneName'
    BY <1>0, <1>3, <2>4 DEF OneName
  <2>6. Linked' \subseteq Linked /\ (names[n] = 0 => Linked' = Linked)
    BY <1>0, <2>4 DEF Linked
  <2>7. InBin' = InBin \ {k}
    BY <1>0, <2>4 DEF InBin
  <2>8. BinOK(clerk[c]) => BinOK(r)'
    BY <1>0, <1>1, <2>2, <2>7 DEF BinOK
  <2>9. BinInv'
    BY <1>0, <1>2, <2>2, <2>3, <2>8, BinMoves DEF BinKinds
  <2>10. PasteOK(clerk[c]) => names[n] = 0
    BY <1>0 DEF PasteOK
  <2>11. PasteOK(r)' /\ (PasteOK(clerk[c]) => \A v \in Contents : Kept(v) => Kept(v)')
    BY <1>1, <2>2, <2>6, <2>10, KeptFilesStay DEF PasteOK
  <2> QED
    BY <1>0, <1>1, <1>2, <2>2, <2>3, <2>4, <2>5, <2>6, <2>9, <2>11, ClerkSteps DEF FileTypes
<1>4. CASE recycled[k] = 0 /\ ClerkLeaves(c) /\ UNCHANGED <<names, recycled>>
  <2>1. clerk' = [clerk EXCEPT ![c] = Waiting]
    BY <1>4 DEF ClerkLeaves
  <2>2. Linked' = Linked /\ InBin' = InBin /\ OneName'
    BY <1>0, <1>4, NamesStay
  <2>3. BinOK(clerk[c]) => index' = InBin'
    BY <1>0, <1>1, <2>2 DEF BinOK
  <2>4. BinInv'
    BY <1>0, <1>2, <2>1, <2>3, WaitingIs, BinMoves
  <2>5. PasteOK(Waiting)' /\ \A v \in Contents : Kept(v) => Kept(v)'
    BY <1>1, <2>2, KeptFilesStay, WaitingIs DEF PasteOK
  <2> QED
    BY <1>0, <1>1, <1>2, <1>4, <2>1, <2>2, <2>4, <2>5, WaitingIs, ClerkSteps DEF FileTypes
<1> QED
  BY <1>3, <1>4 DEF MoveBack

LEMMA EraseItemsKeeps ==
  ASSUME FilesInv, NEW c \in Clerks, EraseItems(c)
  PROVE  FilesInv'
<1>1. PICK those : those = IF clerk[c].kind = "purge" THEN {clerk[c].item} ELSE clerk[c].view
  OBVIOUS
<1>0. /\ FileTypes /\ OneName /\ BinInv /\ clerk[c].pc = "erase" /\ c \in OnBin /\ clerk[c].fd = 0
      /\ clerk[c].view \subseteq Items /\ those \subseteq Items
  BY <1>1, OnBinIs, ClerkIs DEF FilesInv, EraseItems, ClerkAt, KindOK
<1>2. /\ UNCHANGED <<names, content, chunks, upload, index, fileAsked, fileMishaps, mixed, crowded, unlisted>>
      /\ recycled' = [k \in Items |-> IF k \in those THEN 0 ELSE recycled[k]]
      /\ given' = given \cup UNION {VersionsOf(recycled[k]) : k \in those}
      /\ ClerkSaves(c, clerk[c].view \ those)
  BY <1>1 DEF EraseItems
<1>3. PICK r : r = [Waiting EXCEPT !.pc = "truncate", !.kind = "recycle", !.view = clerk[c].view \ those]
  OBVIOUS
<1>4. r \in ClerkRec /\ KindOK(r) /\ r.fd = 0 /\ r.pc = "truncate" /\ r.kind = "recycle" /\ r.view = clerk[c].view \ those
  BY <1>0, <1>3, SavingIs, Zenon
<1>5. clerk' = [clerk EXCEPT ![c] = r]
  BY <1>2, <1>3 DEF ClerkSaves
<1>6. unlisted' \in BOOLEAN /\ (unlisted' \/ ~unlisted)
  BY <1>0, <1>2, Zenon DEF FileTypes
<1>7. recycled' \in [Items -> Inodes \cup {0}] /\ names' \in [Names -> Inodes \cup {0}]
  BY <1>0, <1>2 DEF FileTypes
<1>8. OneName'
  BY <1>0, <1>2 DEF OneName
<1>9. Linked' \subseteq Linked
  BY <1>0, <1>2 DEF Linked
<1>10. InBin' = InBin \ those
  BY <1>0, <1>2 DEF InBin
<1>11. BinOK(clerk[c]) => BinOK(r)'
  BY <1>0, <1>2, <1>4, <1>10 DEF BinOK
<1>12. BinInv'
  BY <1>0, <1>4, <1>5, <1>6, <1>11, BinMoves DEF BinKinds
<1>13. given' \subseteq Contents
  <2>1. \A i : VersionsOf(i) \subseteq Contents
    BY DEF VersionsOf
  <2> QED
    BY <1>0, <1>2, <2>1 DEF FileTypes
<1>14. ASSUME NEW v \in Contents, Kept(v) PROVE Kept(v)'
  <2>1. CASE v \in given
    BY <1>2, <2>1 DEF Kept
  <2>2. CASE \E j \in Linked : content[j] = FileOf(v)
    <3>1. PICK j \in Linked : content[j] = FileOf(v)
      BY <2>2
    <3>2. j # 0
      BY <3>1 DEF Linked
    <3>3. CASE \E k \in those : recycled[k] = j
      <4>1. v \in VersionsOf(j)
        BY <3>1, <3>2 DEF VersionsOf
      <4> QED
        BY <1>2, <3>3, <4>1 DEF Kept
    <3>4. CASE \A k \in those : recycled[k] # j
      <4>1. j \in Linked'
        BY <1>2, <3>1, <3>4 DEF Linked
      <4> QED
        BY <1>2, <3>1, <4>1 DEF Kept
    <3> QED
      BY <3>3, <3>4
  <2> QED
    BY <1>14, <2>1, <2>2 DEF Kept
<1>15. PasteOK(r)'
  BY <1>4 DEF PasteOK
<1> QED
  BY <1>0, <1>2, <1>4, <1>5, <1>6, <1>7, <1>8, <1>9, <1>12, <1>13, <1>14, <1>15, ClerkSteps DEF FileTypes

-----------------------------------------------------------------------------
(* Requests *)

LEMMA FileAsksKeep ==
  ASSUME FilesInv, NEW c \in Clerks, NEW r \in ClerkRec, KindOK(r), r.fd = 0, r.pc \notin {"fill", "free"},
         AsksFile(c, r), r.kind \in BinKinds /\ index = InBin => BinOK(r), PasteOK(r)
  PROVE  FilesInv'
<1>0. FileTypes /\ HoldsOpen /\ (\A b \in Clerks : KindOK(clerk[b])) /\ OneName /\ WholeInv /\ BinInv /\ LostInv
  BY DEF FilesInv
<1>1. /\ clerk' = [clerk EXCEPT ![c] = r] /\ clerk[c].pc = "free" /\ fileAsked' = fileAsked + 1 /\ fileAsked < MaxFileAsked
      /\ crowded' = (crowded \/ Asking # {} \/ Assembling # {})
      /\ unlisted' = (unlisted \/ (OnBin # {} /\ r.kind \in BinKinds))
      /\ UNCHANGED <<names, content, chunks, upload, recycled, index, fileMishaps, given, mixed>>
  BY DEF AsksFile, ClerkAt, BinKinds
<1>2. clerk' \in [Clerks -> ClerkRec] /\ clerk'[c] = r /\ \A b \in Clerks : b # c => clerk'[b] = clerk[b]
  BY <1>0, <1>1, ClerkMoves DEF FileTypes
<1>3. /\ crowded' \in BOOLEAN /\ (crowded' \/ (~crowded /\ Asking = {} /\ Assembling = {}))
      /\ unlisted' \in BOOLEAN /\ (unlisted' \/ (~unlisted /\ (OnBin = {} \/ r.kind \notin BinKinds)))
      /\ mixed' \in BOOLEAN /\ (mixed' \/ ~mixed)
  BY <1>0, <1>1, Zenon DEF FileTypes
<1>4. fileAsked' \in 0..MaxFileAsked
  BY <1>0, <1>1, FileNumbers DEF FileTypes
<1>5. FileTypes'
  BY <1>0, <1>1, <1>2, <1>3, <1>4 DEF FileTypes
<1>6. HoldsOpen' /\ \A b \in Clerks : KindOK(clerk'[b])
  BY <1>0, <1>1, ClerkHolds
<1>7. \A b \in Clerks : KindOK(clerk[b])'
  BY <1>6 DEF KindOK
<1>8. Linked' = Linked /\ InBin' = InBin /\ OneName'
  BY <1>0, <1>1, NamesStay
<1>9. \A b \in Clerks : clerk'[b].fd = clerk[b].fd
  <2>1. clerk[c].fd = 0
    BY <1>0, <1>1 DEF HoldsOpen
  <2> QED
    BY <1>2, <2>1
<1>10. WholeInv'
  BY <1>0, <1>1, <1>3, <1>8, <1>9, WholeRests
<1>11. BinInv'
  <2>1. CASE r.kind \notin BinKinds
    <3>1. OnBin' = OnBin /\ \A b \in OnBin : clerk'[b] = clerk[b]
      BY <1>1, <1>2, <2>1 DEF OnBin, Asking, ClerkAt, BinKinds
    <3> QED
      BY <1>0, <1>1, <1>3, <3>1, BinStays
  <2>2. CASE r.kind \in BinKinds
    <3> SUFFICES ASSUME ~unlisted' PROVE BinInv'
      BY Zenon DEF BinInv
    <3>1. OnBin = {} /\ ~unlisted
      BY <1>3, <2>2
    <3>2. index = InBin
      BY <1>0, <3>1 DEF BinInv, BinIsListed, InBin
    <3>3. \A b \in OnBin' : b = c
      BY <1>2, <3>1 DEF OnBin, Asking, ClerkAt
    <3>4. BinOK(r)
      BY <2>2, <3>2
    <3>5. BinOK(clerk[c])'
      BY <1>1, <1>2, <1>8, <3>4 DEF BinOK
    <3>6. BinIsListed'
      BY <1>1, <3>2 DEF BinIsListed, InBin
    <3> QED
      BY <3>3, <3>5, <3>6 DEF BinInv
  <2> QED
    BY <2>1, <2>2
<1>12. LostInv'
  <2> SUFFICES ASSUME ~mixed', ~crowded' PROVE LostInv'
    BY Zenon DEF LostInv
  <2>1. ~mixed /\ ~crowded /\ Asking = {} /\ Assembling = {}
    BY <1>3
  <2>2. Kept(Original) /\ \A v \in Uploads : UpAt(v, "done") => Kept(v)
    BY <1>0, <2>1, Zenon DEF LostInv
  <2>3. \A v : Kept(v) => Kept(v)'
    BY <1>1, <1>8, KeptFilesStay
  <2>4. Kept(Original)' /\ \A v \in Uploads : UpAt(v, "done")' => Kept(v)'
    BY <1>1, <2>2, <2>3 DEF UpAt
  <2>5. Assembling' = {} /\ \A b \in Asking' : b = c
    BY <1>1, <1>2, <2>1 DEF Assembling, Asking, ClerkAt
  <2>6. PasteOK(clerk[c])'
    BY <1>1, <1>2 DEF PasteOK
  <2> QED
    BY <2>4, <2>5, <2>6 DEF LostInv
<1> QED
  BY <1>5, <1>6, <1>7, <1>8, <1>10, <1>11, <1>12 DEF FilesInv

LEMMA RecycleKeeps ==
  ASSUME FilesInv, NEW c \in Clerks, NEW n \in Names, Recycle(c, n)
  PROVE  FilesInv'
<1>1. PICK r : r = [Waiting EXCEPT !.pc = "bin", !.kind = "recycle", !.to = n]
  OBVIOUS
<1>2. r \in ClerkRec /\ r.pc = "bin" /\ r.kind = "recycle" /\ r.fd = 0
  BY <1>1, Zenon DEF Waiting, ClerkRec, Steps, FileKinds
<1>3. KindOK(r) /\ PasteOK(r) /\ (index = InBin => BinOK(r))
  BY <1>2 DEF KindOK, BinKinds, PasteOK, BinOK
<1>4. AsksFile(c, r)
  BY <1>1 DEF Recycle
<1> QED
  BY <1>2, <1>3, <1>4, FileAsksKeep
LEMMA AskBinKeeps ==
  ASSUME FilesInv, NEW c \in Clerks, Restore(c) \/ Purge(c) \/ Empty(c)
  PROVE  FilesInv'
<1>0. index \subseteq Items
  BY DEF FilesInv, FileTypes
<1>1. CASE Restore(c)
  <2>1. PICK k \in index : AsksFile(c, [Waiting EXCEPT !.pc = "probe", !.kind = "restore", !.item = k, !.view = index])
    BY <1>1, Zenon DEF Restore
  <2>2. PICK r : r = [Waiting EXCEPT !.pc = "probe", !.kind = "restore", !.item = k, !.view = index]
    OBVIOUS
  <2>3. r \in ClerkRec /\ r.pc = "probe" /\ r.kind = "restore" /\ r.fd = 0 /\ r.view = index /\ r.item \in Items
    BY <1>0, <2>2, Zenon DEF Waiting, ClerkRec, Steps, FileKinds, Names
  <2>4. KindOK(r) /\ PasteOK(r) /\ (index = InBin => BinOK(r)) /\ AsksFile(c, r)
    BY <2>1, <2>2, <2>3 DEF KindOK, BinKinds, PasteOK, BinOK
  <2> QED
    BY <2>3, <2>4, FileAsksKeep
<1>2. CASE Purge(c)
  <2>1. PICK k \in index : AsksFile(c, [Waiting EXCEPT !.pc = "erase", !.kind = "purge", !.item = k, !.view = index])
    BY <1>2, Zenon DEF Purge
  <2>2. PICK r : r = [Waiting EXCEPT !.pc = "erase", !.kind = "purge", !.item = k, !.view = index]
    OBVIOUS
  <2>3. r \in ClerkRec /\ r.pc = "erase" /\ r.kind = "purge" /\ r.fd = 0 /\ r.view = index /\ r.item \in Items
    BY <1>0, <2>2, Zenon DEF Waiting, ClerkRec, Steps, FileKinds, Names
  <2>4. KindOK(r) /\ PasteOK(r) /\ (index = InBin => BinOK(r)) /\ AsksFile(c, r)
    BY <2>1, <2>2, <2>3 DEF KindOK, BinKinds, PasteOK, BinOK
  <2> QED
    BY <2>3, <2>4, FileAsksKeep
<1>3. CASE Empty(c)
  <2>1. PICK r : r = [Waiting EXCEPT !.pc = "erase", !.kind = "empty", !.view = index]
    OBVIOUS
  <2>2. r \in ClerkRec /\ r.pc = "erase" /\ r.kind = "empty" /\ r.fd = 0 /\ r.view = index
    BY <1>0, <2>1, Zenon DEF Waiting, ClerkRec, Steps, FileKinds, Names
  <2>3. KindOK(r) /\ PasteOK(r) /\ (index = InBin => BinOK(r)) /\ AsksFile(c, r)
    BY <1>3, <2>1, <2>2 DEF KindOK, BinKinds, PasteOK, BinOK, Empty
  <2> QED
    BY <2>2, <2>3, FileAsksKeep
<1> QED
  BY <1>1, <1>2, <1>3
LEMMA PasteKeeps ==
  ASSUME FilesInv, NEW c \in Clerks, Paste(c)
  PROVE  FilesInv'
<1>1. PICK k \in {"cut", "far cut", "copy"} :
        AsksFile(c, [Waiting EXCEPT !.pc = IF k = "cut" THEN "rename" ELSE "measure", !.kind = k, !.to = "copy"])
  BY Zenon DEF Paste
<1>2. PICK pc : pc = IF k = "cut" THEN "rename" ELSE "measure"
  BY Zenon
<1>3. PICK r : r = [Waiting EXCEPT !.pc = pc, !.kind = k, !.to = "copy"]
  BY Zenon
<1>4. pc \in {"rename", "measure"}
  BY <1>2, Zenon
<1>5. r \in ClerkRec /\ r.pc = pc /\ r.kind = k /\ r.fd = 0
  BY <1>3, <1>4, Zenon DEF Waiting, ClerkRec, Steps, FileKinds, Names
<1>6. KindOK(r) /\ r.kind \notin BinKinds
  BY <1>4, <1>5, Zenon DEF KindOK, BinKinds
<1>7. names["doc"] # 0 /\ names["copy"] = 0
  BY Zenon DEF Paste
<1>8. PasteOK(r)
  BY <1>4, <1>5, <1>7, Zenon DEF PasteOK
<1>9. AsksFile(c, r)
  BY <1>1, <1>2, <1>3, Zenon
<1> QED
  BY <1>4, <1>5, <1>6, <1>8, <1>9, FileAsksKeep, Zenon

-----------------------------------------------------------------------------
(* Moves and copies *)

LEMMA UndoingIs ==
  ASSUME NEW i \in Inodes \cup {0}
  PROVE  Undoing(i) \in ClerkRec /\ KindOK(Undoing(i)) /\ Undoing(i).pc = "undo" /\ Undoing(i).fd = i
         /\ Undoing(i).kind = "none"
<1>1. Undoing(i) \in ClerkRec /\ Undoing(i).pc = "undo" /\ Undoing(i).fd = i /\ Undoing(i).kind = "none"
  BY Zenon DEF Undoing, Waiting, ClerkRec, Steps, FileKinds, Names
<1> QED
  BY <1>1 DEF KindOK, BinKinds
\* The requests that move and copy are none of the bin's, before their step and after it.
LEMMA OffBin ==
  ASSUME FilesInv, NEW c \in Clerks, clerk[c].pc \in {"rename", "measure", "fill", "unsource", "undo"},
         NEW r \in ClerkRec, KindOK(r), r.pc \in {"free", "measure", "fill", "unsource", "undo"},
         clerk' = [clerk EXCEPT ![c] = r], UNCHANGED <<recycled, index, unlisted>>
  PROVE  BinInv' /\ unlisted' \in BOOLEAN
<1>0. FileTypes /\ BinInv /\ KindOK(clerk[c])
  BY DEF FilesInv
<1>1. clerk'[c] = r /\ \A b \in Clerks : b # c => clerk'[b] = clerk[b]
  BY <1>0, ClerkMoves DEF FileTypes
<1>2. clerk[c].kind \notin BinKinds /\ r.kind \notin BinKinds
  BY <1>0 DEF KindOK
<1>3. OnBin' = OnBin /\ \A b \in OnBin : clerk'[b] = clerk[b]
  BY <1>1, <1>2 DEF OnBin, Asking, ClerkAt, BinKinds
<1>4. unlisted' \in BOOLEAN /\ (unlisted' \/ ~unlisted)
  BY <1>0, Zenon DEF FileTypes
<1> QED
  BY <1>0, <1>3, <1>4, BinStays

LEMMA RenamePastedKeeps ==
  ASSUME FilesInv, NEW c \in Clerks, RenamePasted(c)
  PROVE  FilesInv'
<1>0. /\ FileTypes /\ OneName /\ clerk[c].pc = "rename" /\ clerk[c].fd = 0 /\ "doc" \in Names /\ "copy" \in Names
  BY DEF FilesInv, RenamePasted, ClerkAt, HoldsOpen, Names
<1>1. UNCHANGED <<content, chunks, upload, recycled, index, fileAsked, fileMishaps, given, mixed, crowded, unlisted>>
  BY DEF RenamePasted, fileHistory
<1>2. CASE names["doc"] # 0 /\ names' = [names EXCEPT !["copy"] = names["doc"], !["doc"] = 0] /\ ClerkLeaves(c)
  <2>1. clerk' = [clerk EXCEPT ![c] = Waiting]
    BY <1>2 DEF ClerkLeaves
  <2>2. /\ names' \in [Names -> Inodes \cup {0}] /\ names'["copy"] = names["doc"] /\ names'["doc"] = 0
        /\ \A m \in Names : m \notin {"doc", "copy"} => names'[m] = names[m]
    BY <1>0, <1>2 DEF FileTypes
  <2>3. OneName'
    BY <1>0, <1>1, <1>2, <2>2 DEF OneName
  <2>4. Linked' \subseteq Linked /\ (names["copy"] = 0 => Linked' = Linked)
    BY <1>0, <1>1, <2>2 DEF Linked
  <2>5. BinInv' /\ unlisted' \in BOOLEAN
    BY <1>0, <1>1, <2>1, WaitingIs, OffBin
  <2>6. PasteOK(clerk[c]) => names["copy"] = 0
    BY <1>0 DEF PasteOK
  <2>7. PasteOK(Waiting)' /\ (PasteOK(clerk[c]) => \A v \in Contents : Kept(v) => Kept(v)')
    BY <1>1, <2>4, <2>6, KeptFilesStay, WaitingIs DEF PasteOK
  <2> QED
    BY <1>0, <1>1, <2>1, <2>2, <2>3, <2>4, <2>5, <2>7, WaitingIs, ClerkSteps DEF FileTypes
<1>3. CASE names["doc"] = 0 /\ clerk' = [clerk EXCEPT ![c] = Undoing(0)] /\ UNCHANGED names
  <2>1. PICK r : r = Undoing(0)
    OBVIOUS
  <2>2. r \in ClerkRec /\ KindOK(r) /\ r.pc = "undo" /\ r.fd = 0 /\ clerk' = [clerk EXCEPT ![c] = r]
    BY <1>3, <2>1, UndoingIs
  <2>3. Linked' = Linked /\ OneName'
    BY <1>0, <1>1, <1>3, NamesStay
  <2>4. BinInv' /\ unlisted' \in BOOLEAN
    BY <1>0, <1>1, <2>2, OffBin
  <2>5. ~PasteOK(clerk[c])
    BY <1>0, <1>3 DEF PasteOK
  <2> QED
    BY <1>0, <1>1, <1>3, <2>2, <2>3, <2>4, <2>5, ClerkSteps DEF FileTypes
<1> QED
  BY <1>2, <1>3 DEF RenamePasted

LEMMA RemoveSourceKeeps ==
  ASSUME FilesInv, NEW c \in Clerks, RemoveSource(c)
  PROVE  FilesInv'
<1>0. /\ FileTypes /\ OneName /\ clerk[c].pc = "unsource" /\ clerk[c].fd = 0 /\ "doc" \in Names /\ "copy" \in Names
  BY DEF FilesInv, RemoveSource, ClerkAt, HoldsOpen, Names
<1>1. /\ UNCHANGED <<content, chunks, upload, recycled, index, fileAsked, given, mixed, crowded, unlisted>>
      /\ clerk' = [clerk EXCEPT ![c] = Waiting] /\ (FileMishap \/ UNCHANGED fileMishaps)
  BY DEF RemoveSource, fileHistory, ClerkLeaves
<1>2. BinInv' /\ unlisted' \in BOOLEAN
  BY <1>0, <1>1, WaitingIs, OffBin
<1>3. PasteOK(Waiting)'
  BY WaitingIs DEF PasteOK
<1>4. CASE names' = [names EXCEPT !["doc"] = 0]
  <2>1. /\ names' \in [Names -> Inodes \cup {0}] /\ OneName' /\ Linked' = Linked \ {names["doc"]}
        /\ \A m \in Names : m # "doc" => names'[m] = names[m]
    BY <1>0, <1>1, <1>4, NameGoes
  <2>2. ASSUME PasteOK(clerk[c]), NEW v \in Contents, Kept(v) PROVE Kept(v)'
    <3>1. names["copy"] # 0 /\ content[names["copy"]] = content[names["doc"]] /\ names["doc"] # 0
      BY <1>0, <2>2 DEF PasteOK
    <3>2. names["copy"] \in Linked /\ names["copy"] # names["doc"]
      BY <1>0, <3>1 DEF OneName, Linked
    <3> QED
      BY <1>1, <2>1, <2>2, <3>1, <3>2 DEF Kept
  <2> QED
    BY <1>0, <1>1, <1>2, <1>3, <2>1, <2>2, WaitingIs, ClerkSteps DEF FileTypes
<1>5. CASE UNCHANGED names
  <2>1. Linked' = Linked /\ OneName'
    BY <1>0, <1>1, <1>5, NamesStay
  <2>2. \A v \in Contents : Kept(v) => Kept(v)'
    BY <1>1, <2>1, KeptFilesStay
  <2> QED
    BY <1>0, <1>1, <1>2, <1>3, <1>5, <2>1, <2>2, WaitingIs, ClerkSteps DEF FileTypes
<1> QED
  BY <1>4, <1>5 DEF RemoveSource

\* A request that writes to a file goes on.
LEMMA CopySteps ==
  ASSUME FilesInv, NEW c \in Clerks, clerk[c].pc \in {"measure", "fill", "undo"}, NEW r \in ClerkRec, KindOK(r),
         r.pc \in {"free", "fill", "unsource", "undo"},
         r.fd # 0 => r.pc \in {"fill", "undo"}, r.pc = "fill" => r.fd # 0 /\ r.src # 0,
         clerk' = [clerk EXCEPT ![c] = r],
         UNCHANGED <<chunks, upload, recycled, index, fileAsked, given, crowded, unlisted>>,
         content' \in [Inodes -> [Parts -> Contents \cup {0}]], names' \in [Names -> Inodes \cup {0}], OneName',
         FileMishap \/ UNCHANGED fileMishaps, mixed' \in BOOLEAN, mixed' \/ ~mixed, WholeInv',
         ~mixed' /\ ~mixed /\ ~crowded /\ PasteOK(clerk[c]) =>
            PasteOK(r)' /\ \A v \in Contents : Kept(v) => Kept(v)'
  PROVE  FilesInv'
<1>0. FileTypes /\ HoldsOpen /\ (\A b \in Clerks : KindOK(clerk[b])) /\ LostInv
  BY DEF FilesInv
<1>1. clerk' \in [Clerks -> ClerkRec] /\ clerk'[c] = r /\ \A b \in Clerks : b # c => clerk'[b] = clerk[b]
  BY <1>0, ClerkMoves DEF FileTypes
<1>2. crowded' \in BOOLEAN /\ (crowded' \/ ~crowded) /\ fileMishaps' \in 0..MaxFileMishaps
  BY <1>0, FileMishapIs, Zenon DEF FileTypes
<1>3. BinInv' /\ unlisted' \in BOOLEAN
  BY OffBin
<1>4. FileTypes'
  BY <1>0, <1>1, <1>2, <1>3 DEF FileTypes
<1>5. HoldsOpen' /\ \A b \in Clerks : KindOK(clerk'[b])
  BY <1>0, ClerkHolds
<1>6. \A b \in Clerks : KindOK(clerk[b])'
  BY <1>5 DEF KindOK
<1>7. clerk[c].pc # "free"
  OBVIOUS
<1>8. LostInv'
  BY <1>0, <1>2, <1>7, LostMoves
<1> QED
  BY <1>3, <1>4, <1>5, <1>6, <1>8 DEF FilesInv

LEMMA SizeIs == ASSUME NEW i PROVE SizeOf(i) \in Nat
<1>1. IsFiniteSet(Parts)
  <2>1. IsFiniteSet({} \cup {0})
    BY FS_EmptySet, FS_AddElement
  <2>2. IsFiniteSet(({} \cup {0}) \cup {1})
    BY <2>1, FS_AddElement
  <2>3. Parts = ({} \cup {0}) \cup {1}
    BY DEF Parts
  <2> QED
    BY <2>2, <2>3, Zenon
<1>2. IsFiniteSet({k \in Parts : content[i][k] # 0})
  BY <1>1, FS_Subset
<1> QED
  BY <1>2, FS_CardinalityType DEF SizeOf

\* A copy that fails before it has opened anything.
LEMMA UndoesNothing ==
  ASSUME FilesInv, NEW c \in Clerks, clerk[c].pc = "measure", names["doc"] = 0,
         clerk' = [clerk EXCEPT ![c] = Undoing(0)],
         UNCHANGED <<names, content, chunks, upload, recycled, index, fileAsked, fileMishaps, given, mixed, crowded, unlisted>>
  PROVE  FilesInv'
<1>0. FileTypes /\ OneName /\ clerk[c].fd = 0
  BY DEF FilesInv, HoldsOpen
<1>1. PICK r : r = Undoing(0)
  OBVIOUS
<1>2. r \in ClerkRec /\ KindOK(r) /\ r.pc = "undo" /\ r.fd = 0 /\ clerk' = [clerk EXCEPT ![c] = r]
  BY <1>1, UndoingIs
<1>3. Linked' = Linked /\ OneName'
  BY <1>0, NamesStay
<1>4. BinInv' /\ unlisted' \in BOOLEAN
  BY <1>2, OffBin
<1>5. ~PasteOK(clerk[c])
  BY DEF PasteOK
<1> QED
  BY <1>0, <1>2, <1>3, <1>4, <1>5, ClerkSteps DEF FileTypes

LEMMA OpenCopyKeeps ==
  ASSUME FilesInv, NEW c \in Clerks, OpenCopy(c)
  PROVE  FilesInv'
<1>0. /\ FileTypes /\ HoldsOpen /\ OneName /\ WholeInv /\ clerk[c].pc = "measure" /\ clerk[c].fd = 0
      /\ clerk[c] \in ClerkRec /\ KindOK(clerk[c]) /\ "doc" \in Names /\ "copy" \in Names
  BY ClerkIs DEF FilesInv, OpenCopy, ClerkAt, HoldsOpen, Names
<1>1. UNCHANGED <<chunks, upload, recycled, index, fileAsked, fileMishaps, given, crowded, unlisted>>
  BY DEF OpenCopy
<1>2. CASE names["doc"] = 0 /\ clerk' = [clerk EXCEPT ![c] = Undoing(0)] /\ UNCHANGED <<names, content, mixed>>
  BY <1>0, <1>1, <1>2, UndoesNothing
<1>3. CASE /\ names["doc"] # 0 /\ MayCreate("copy") /\ names' = [names EXCEPT !["copy"] = Creates("copy")]
           /\ Truncated(Creates("copy"))
           /\ clerk' = [clerk EXCEPT ![c].pc = "fill", ![c].src = names["doc"], ![c].fd = Creates("copy"),
                                     ![c].size = SizeOf(names["doc"])]
           /\ mixed' = (mixed \/ names["copy"] \in Written)
  <2>1. PICK i, d, s : i = Creates("copy") /\ d = names["doc"] /\ s = SizeOf(names["doc"])
    OBVIOUS
  <2>2. i \in Inodes /\ (names["copy"] # 0 => i = names["copy"]) /\ (names["copy"] = 0 => i \notin Linked \cup Open)
    BY <1>0, <1>3, <2>1, CreatesIs
  <2>3. d \in Inodes /\ s \in Nat /\ d # 0 /\ i # 0
    BY <1>0, <1>3, <2>1, <2>2, SizeIs, FileNumbers DEF FileTypes
  <2>4. PICK r : r = [clerk[c] EXCEPT !.pc = "fill", !.src = d, !.fd = i, !.size = s]
    OBVIOUS
  <2>5. r \in ClerkRec /\ r.pc = "fill" /\ r.src = d /\ r.fd = i /\ r.kind = clerk[c].kind /\ r.item = clerk[c].item
    BY <1>0, <2>2, <2>3, <2>4, Zenon DEF ClerkRec, Steps
  <2>6. KindOK(r)
    BY <1>0, <2>5 DEF KindOK, BinKinds
  <2>7. /\ clerk' = [clerk EXCEPT ![c] = r] /\ names' = [names EXCEPT !["copy"] = i]
        /\ content' = [content EXCEPT ![i] = Blank]
    BY <1>3, <2>1, <2>4 DEF Truncated
  <2>8. clerk'[c] = r /\ \A b \in Clerks : b # c => clerk'[b] = clerk[b]
    BY <1>0, <2>5, <2>7, ClerkMoves DEF FileTypes
  <2>9. /\ names' \in [Names -> Inodes \cup {0}] /\ OneName' /\ Linked' \subseteq Linked \cup {i}
        /\ Linked \ {names["copy"]} \subseteq Linked' /\ names'["copy"] = i /\ i \in Linked'
        /\ names'["doc"] = names["doc"]
    BY <1>0, <1>1, <2>2, <2>7, NameComes DEF FileTypes
  <2>10. /\ content' \in [Inodes -> [Parts -> Contents \cup {0}]] /\ content'[i] = Blank
         /\ \A j \in Inodes : j # i => content'[j] = content[j]
    BY <1>0, <2>2, <2>7 DEF FileTypes, Blank
  <2>11. mixed' \in BOOLEAN /\ (mixed' \/ (~mixed /\ names["copy"] \notin Written))
    BY <1>3, Zenon
  <2>12. WholeInv'
    <3> SUFFICES ASSUME ~mixed' PROVE WholeInv'
      BY Zenon DEF WholeInv
    <3>1. ~mixed /\ names["copy"] \notin Written
      BY <2>11
    <3>2. (\A v, w \in Uploading : v = w) /\ (\A v \in Uploading : UploadOK(v)) /\ OneWriter /\ FilesAreWhole
      BY <1>0, <3>1, Zenon DEF WholeInv
    <3>3. i \notin Written
      BY <2>2, <3>1 DEF Open
    <3>4. Uploading' = Uploading
      BY <1>1 DEF Uploading
    <3>5. ASSUME NEW v \in Uploading PROVE UploadOK(v)'
      <4>1. Joining(v) => upload[v].fd \in Written /\ upload[v].fd \in Inodes
        BY <1>0, UploadIs DEF HoldsOpen, Written, Uploading
      <4>2. Joining(v) => content'[upload[v].fd] = content[upload[v].fd]
        BY <2>10, <3>3, <4>1
      <4>3. UploadOK(v)
        BY <3>2
      <4> QED
        BY <1>1, <4>2, <4>3 DEF UploadOK, Joining
    <3>6. OneWriter'
      <4>1. /\ \A u \in Uploads : upload[u].fd # 0 => upload[u].fd # i
            /\ \A b \in Clerks : clerk[b].fd # 0 => clerk[b].fd # i
        BY <3>3, <2>3 DEF Written
      <4>2. \A u \in Uploads, b \in Clerks : clerk'[b].fd # 0 => clerk'[b].fd # upload[u].fd
        BY <2>3, <2>5, <2>8, <3>2, <4>1 DEF OneWriter
      <4>3. \A a, b \in Clerks : clerk'[a].fd = clerk'[b].fd /\ clerk'[a].fd # 0 => a = b
        BY <2>3, <2>5, <2>8, <3>2, <4>1 DEF OneWriter
      <4> QED
        BY <1>1, <4>2, <4>3 DEF OneWriter
    <3>7. Written' = Written \cup {i}
      BY <1>0, <1>1, <2>3, <2>5, <2>8 DEF Written
    <3>8. \A j \in Linked' \ Written' : Whole(j)'
      <4> SUFFICES ASSUME NEW j \in Linked' \ Written' PROVE Whole(j)'
        OBVIOUS
      <4>1. j \in Linked \ Written /\ j # i
        BY <2>9, <3>7
      <4>2. Whole(j) /\ j \in Inodes
        BY <1>0, <3>1, <3>2, <4>1 DEF FilesAreWhole, Linked, FileTypes
      <4> QED
        BY <2>10, <4>1, <4>2 DEF Whole
    <3> QED
      BY <3>2, <3>4, <3>5, <3>6, <3>8 DEF WholeInv, FilesAreWhole
  <2>13. ASSUME PasteOK(clerk[c]) PROVE PasteOK(r)' /\ \A v \in Contents : Kept(v) => Kept(v)'
    <3>1. names["copy"] = 0 /\ i \notin Linked
      BY <1>0, <2>2, <2>13 DEF PasteOK
    <3>2. PasteOK(r)'
      BY <1>3, <2>1, <2>3, <2>5, <2>9, <2>10 DEF PasteOK
    <3>3. ASSUME NEW v \in Contents, Kept(v) PROVE Kept(v)'
      <4>1. \A j \in Linked : j \in Inodes /\ j # i /\ j # 0
        BY <1>0, <3>1 DEF Linked, FileTypes
      <4> QED
        BY <1>1, <2>9, <2>10, <3>1, <3>3, <4>1 DEF Kept
    <3> QED
      BY <3>2, <3>3
  <2>14. mixed' \/ ~mixed
    BY <2>11
  <2> QED
    BY <1>0, <1>1, <2>3, <2>5, <2>6, <2>7, <2>9, <2>10, <2>11, <2>12, <2>13, <2>14, CopySteps
<1> QED
  BY <1>2, <1>3 DEF OpenCopy

\* Files stay whole when a request stops writing to one that has become whole, or has lost
\* its name.
LEMMA WriterLeaves ==
  ASSUME FileTypes, HoldsOpen, WholeInv, NEW c \in Clerks, NEW r \in ClerkRec, clerk' = [clerk EXCEPT ![c] = r],
         NEW i, i = clerk[c].fd, r.fd \in {0, i}, UNCHANGED <<chunks, upload>>, Linked' \subseteq Linked, mixed' \/ ~mixed,
         \A j \in Inodes : j # i => content'[j] = content[j],
         ~mixed' /\ r.fd = 0 /\ i \in Linked' => Whole(i)',
         i = 0 => UNCHANGED content
  PROVE  WholeInv'
<1> SUFFICES ASSUME ~mixed' PROVE WholeInv'
  BY Zenon DEF WholeInv
<1>1. ~mixed
  OBVIOUS
<1>2. (\A v, w \in Uploading : v = w) /\ (\A v \in Uploading : UploadOK(v)) /\ OneWriter /\ FilesAreWhole
  BY <1>1, Zenon DEF WholeInv
<1>3. clerk'[c] = r /\ \A b \in Clerks : b # c => clerk'[b] = clerk[b]
  BY ClerkMoves DEF FileTypes
<1>4. Uploading' = Uploading
  BY DEF Uploading
<1>5. ASSUME NEW v \in Uploading PROVE UploadOK(v)'
  <2>1. Joining(v) => upload[v].fd \in Inodes /\ (i # 0 => upload[v].fd # i)
    BY <1>2, UploadIs DEF HoldsOpen, Uploading, OneWriter
  <2>2. Joining(v) => content'[upload[v].fd] = content[upload[v].fd]
    BY <2>1
  <2>3. UploadOK(v)
    BY <1>2
  <2> QED
    BY <2>2, <2>3 DEF UploadOK, Joining
<1>6. OneWriter'
  <2>1. \A b \in Clerks : clerk'[b].fd # 0 => clerk'[b].fd = clerk[b].fd
    BY <1>3
  <2>2. \A u \in Uploads, b \in Clerks : clerk'[b].fd # 0 => clerk'[b].fd # upload[u].fd
    BY <1>2, <2>1 DEF OneWriter
  <2>3. \A a, b \in Clerks : clerk'[a].fd = clerk'[b].fd /\ clerk'[a].fd # 0 => a = b
    BY <1>2, <2>1 DEF OneWriter
  <2> QED
    BY <2>2, <2>3 DEF OneWriter
<1>7. Written \ {i} \subseteq Written' /\ (r.fd # 0 => i \in Written')
  BY <1>3 DEF Written
<1>8. \A j \in Linked' \ Written' : Whole(j)'
  <2> SUFFICES ASSUME NEW j \in Linked' \ Written' PROVE Whole(j)'
    OBVIOUS
  <2>1. CASE j = i
    <3>1. r.fd = 0 /\ i \in Linked'
      BY <1>7, <2>1
    <3>2. Whole(i)'
      BY <3>1
    <3> QED
      BY <2>1, <3>2
  <2>2. CASE j # i
    <3>0. j \in Linked \ Written
      BY <1>7, <2>2
    <3>1. j \in Linked \ Written /\ j \in Inodes
      BY <3>0 DEF Linked, FileTypes
    <3>2. Whole(j)
      BY <1>1, <1>2, <3>1 DEF FilesAreWhole
    <3> QED
      BY <2>2, <3>1, <3>2 DEF Whole
  <2> QED
    BY <2>1, <2>2
<1> QED
  BY <1>2, <1>4, <1>5, <1>6, <1>8 DEF WholeInv, FilesAreWhole

\* A file without content has none of a user's.
LEMMA BlankIsNobodys == ASSUME NEW v \in Contents PROVE Blank # FileOf(v)
BY FileNumbers DEF Blank, FileOf, Parts

LEMMA FillCopyKeeps ==
  ASSUME FilesInv, NEW c \in Clerks, FillCopy(c)
  PROVE  FilesInv'
<1> PICK i, s : i = clerk[c].fd /\ s = clerk[c].src
  OBVIOUS
<1>0. /\ FileTypes /\ HoldsOpen /\ OneName /\ WholeInv /\ clerk[c].pc = "fill" /\ i \in Inodes /\ s \in Inodes
      /\ i # 0 /\ s # 0 /\ "doc" \in Names /\ "copy" \in Names
  <2>1. clerk[c].pc = "fill"
    BY DEF FillCopy, ClerkAt
  <2> QED
    BY <2>1, ClerkIs DEF FilesInv, HoldsOpen, Names
<1>1. UNCHANGED <<names, chunks, upload, recycled, index, fileAsked, given, crowded, unlisted>>
  BY DEF FillCopy
<1>2. Linked' = Linked /\ OneName' /\ names' \in [Names -> Inodes \cup {0}]
  BY <1>0, <1>1, NamesStay DEF FileTypes
<1>3. CASE FileMishap /\ clerk' = [clerk EXCEPT ![c] = Undoing(i)] /\ UNCHANGED <<content, mixed>>
  <2>1. PICK r : r = Undoing(i)
    OBVIOUS
  <2>2. r \in ClerkRec /\ KindOK(r) /\ r.pc = "undo" /\ r.fd = i /\ clerk' = [clerk EXCEPT ![c] = r]
    BY <1>0, <1>3, <2>1, UndoingIs
  <2>3. mixed' \in BOOLEAN /\ (mixed' \/ ~mixed)
    BY <1>0, <1>3, Zenon DEF FileTypes
  <2>4. WholeInv'
    BY <1>0, <1>1, <1>2, <1>3, <2>2, <2>3, WriterLeaves, Zenon
  <2>5. PasteOK(clerk[c]) => PasteOK(r)' /\ \A v \in Contents : Kept(v) => Kept(v)'
    BY <1>0, <1>1, <1>2, <1>3, <2>2, KeptFilesStay DEF PasteOK
  <2>6. content' \in [Inodes -> [Parts -> Contents \cup {0}]]
    BY <1>0, <1>3 DEF FileTypes
  <2> QED
    BY <1>0, <1>1, <1>2, <1>3, <2>2, <2>3, <2>4, <2>5, <2>6, CopySteps
<1>4. CASE /\ content' = [content EXCEPT ![i] = content[s]] /\ UNCHANGED fileMishaps
           /\ mixed' = (mixed \/ ~Whole(s))
           /\ clerk' = [clerk EXCEPT ![c] = IF SizeOf(s) # clerk[c].size THEN Undoing(i)
                                            ELSE IF clerk[c].kind = "copy" THEN Waiting
                                            ELSE [Waiting EXCEPT !.pc = "unsource"]]
  <2>1. PICK r : r = IF SizeOf(s) # clerk[c].size THEN Undoing(i)
                     ELSE IF clerk[c].kind = "copy" THEN Waiting
                     ELSE [Waiting EXCEPT !.pc = "unsource"]
    OBVIOUS
  <2>2. LET w == [Waiting EXCEPT !.pc = "unsource"]
        IN  w \in ClerkRec /\ KindOK(w) /\ w.pc = "unsource" /\ w.fd = 0
    <3> DEFINE w == [Waiting EXCEPT !.pc = "unsource"]
    <3>1. w \in ClerkRec /\ w.pc = "unsource" /\ w.fd = 0 /\ w.kind = "none"
      BY Zenon DEF Waiting, ClerkRec, Steps, FileKinds, Names
    <3> QED
      BY <3>1 DEF KindOK, BinKinds
  <2>3. /\ r \in ClerkRec /\ KindOK(r) /\ r.pc \in {"free", "unsource", "undo"}
        /\ r.pc = "undo" => r.fd = i
        /\ r.pc # "undo" => r.fd = 0
    BY <1>0, <2>1, <2>2, WaitingIs, UndoingIs
  <2>4. clerk' = [clerk EXCEPT ![c] = r]
    BY <1>4, <2>1
  <2>5. mixed' \in BOOLEAN /\ (mixed' \/ (~mixed /\ Whole(s)))
    BY <1>4, Zenon
  <2>6. /\ content' \in [Inodes -> [Parts -> Contents \cup {0}]] /\ content'[i] = content[s]
        /\ \A j \in Inodes : j # i => content'[j] = content[j]
    BY <1>0, <1>4 DEF FileTypes
  <2>7. WholeInv'
    <3>1. ~mixed' => Whole(i)'
      BY <2>5, <2>6 DEF Whole
    <3>2. mixed' \/ ~mixed
      BY <2>5
    <3>3. r.fd \in {0, i} /\ r \in ClerkRec /\ UNCHANGED <<chunks, upload>> /\ Linked' \subseteq Linked
      BY <1>1, <1>2, <2>3
    <3>4. ~mixed' /\ r.fd = 0 /\ i \in Linked' => Whole(i)'
      BY <3>1
    <3>5. i = 0 => UNCHANGED content
      BY <1>0
    <3> QED
      BY <1>0, <2>4, <2>6, <3>2, <3>3, <3>4, <3>5, WriterLeaves, ZenonT(30)
  <2>8. ASSUME PasteOK(clerk[c]) PROVE PasteOK(r)' /\ \A v \in Contents : Kept(v) => Kept(v)'
    <3>1. names["doc"] = s /\ names["copy"] = i /\ content[i] = Blank
      BY <1>0, <2>8 DEF PasteOK
    <3>2. s # i /\ content'[s] = content[s]
      BY <1>0, <2>6, <3>1 DEF OneName
    <3>3. PasteOK(r)'
      BY <1>0, <1>1, <2>3, <2>6, <3>1, <3>2 DEF PasteOK
    <3>4. ASSUME NEW v \in Contents, Kept(v) PROVE Kept(v)'
      <4>1. \A j \in Linked : j \in Inodes
        BY <1>0 DEF Linked, FileTypes
      <4> QED
        BY <1>1, <1>2, <2>6, <3>1, <3>4, <4>1, BlankIsNobodys DEF Kept
    <3> QED
      BY <3>3, <3>4
  <2>9. mixed' \/ ~mixed
    BY <2>5
  <2> QED
    BY <1>0, <1>1, <1>2, <1>4, <2>3, <2>4, <2>5, <2>6, <2>7, <2>8, <2>9, CopySteps
<1> QED
  BY <1>3, <1>4 DEF FillCopy

LEMMA UndoPasteKeeps ==
  ASSUME FilesInv, NEW c \in Clerks, UndoPaste(c)
  PROVE  FilesInv'
<1> PICK i : i = clerk[c].fd
  OBVIOUS
<1>0. /\ FileTypes /\ HoldsOpen /\ OneName /\ WholeInv /\ clerk[c].pc = "undo" /\ "doc" \in Names /\ "copy" \in Names
      /\ i \in Inodes \cup {0}
  BY ClerkIs DEF FilesInv, UndoPaste, ClerkAt, Names
<1>1. /\ UNCHANGED <<content, chunks, upload, recycled, index, fileAsked, fileMishaps, given, crowded, unlisted>>
      /\ names' = [names EXCEPT !["copy"] = 0] /\ clerk' = [clerk EXCEPT ![c] = Waiting]
      /\ mixed' = (mixed \/ i \notin {0, names["copy"]})
  BY DEF UndoPaste, ClerkLeaves
<1>2. /\ names' \in [Names -> Inodes \cup {0}] /\ OneName' /\ Linked' = Linked \ {names["copy"]}
      /\ \A m \in Names : m # "copy" => names'[m] = names[m]
  BY <1>0, <1>1, NameGoes
<1>3. mixed' \in BOOLEAN /\ (mixed' \/ (~mixed /\ i \in {0, names["copy"]}))
  BY <1>1, Zenon
<1>4. WholeInv'
  <2>1. ~mixed' => i \notin Linked'
    BY <1>2, <1>3 DEF Linked
  <2>2. mixed' \/ ~mixed
    BY <1>3
  <2>3. Waiting \in ClerkRec /\ Waiting.fd \in {0, i} /\ Linked' \subseteq Linked /\ UNCHANGED <<chunks, upload>>
    BY <1>1, <1>2, WaitingIs
  <2>4. /\ \A j \in Inodes : j # i => content'[j] = content[j]
        /\ ~mixed' /\ Waiting.fd = 0 /\ i \in Linked' => Whole(i)'
        /\ i = 0 => UNCHANGED content
    BY <1>1, <2>1
  <2> QED
    BY <1>0, <1>1, <2>2, <2>3, <2>4, WriterLeaves
<1>5. ASSUME PasteOK(clerk[c]), NEW v \in Contents, Kept(v) PROVE Kept(v)'
  <2>1. names["doc"] # 0 /\ names["copy"] # 0 /\ content[names["copy"]] \in {Blank, content[names["doc"]]}
    BY <1>0, <1>5 DEF PasteOK
  <2>2. names["doc"] \in Linked' /\ names["doc"] # names["copy"]
    BY <1>0, <1>2, <2>1 DEF OneName, Linked
  <2> QED
    BY <1>1, <1>2, <1>5, <2>1, <2>2, BlankIsNobodys DEF Kept
<1>6. PasteOK(Waiting)'
  BY WaitingIs DEF PasteOK
<1>7. content' \in [Inodes -> [Parts -> Contents \cup {0}]] /\ (mixed' \/ ~mixed)
  BY <1>0, <1>1, <1>3 DEF FileTypes
<1> QED
  BY <1>0, <1>1, <1>2, <1>3, <1>4, <1>5, <1>6, <1>7, WaitingIs, CopySteps

LEMMA RenameFileKeeps ==
  ASSUME FilesInv, NEW c \in Clerks, RenameFile(c)
  PROVE  FilesInv'
<1>0. FileTypes /\ HoldsOpen /\ OneName /\ WholeInv /\ BinInv /\ LostInv /\ "doc" \in Names /\ "copy" \in Names
  BY DEF FilesInv, Names
<1>1. /\ UNCHANGED <<content, chunks, upload, recycled, index, clerk, fileMishaps, mixed, unlisted>>
      /\ names' = [names EXCEPT !["doc"] = names["copy"], !["copy"] = 0]
      /\ given' = given \cup VersionsOf(names["doc"])
      /\ crowded' = (crowded \/ Asking # {} \/ Assembling # {})
      /\ fileAsked < MaxFileAsked /\ fileAsked' = fileAsked + 1 /\ names["copy"] # 0
  BY DEF RenameFile
<1>2. /\ names' \in [Names -> Inodes \cup {0}] /\ names'["doc"] = names["copy"] /\ names'["copy"] = 0
      /\ \A m \in Names : m \notin {"doc", "copy"} => names'[m] = names[m]
  BY <1>0, <1>1 DEF FileTypes
<1>3. OneName'
  BY <1>0, <1>1, <1>2 DEF OneName
<1>4. Linked' \subseteq Linked /\ Linked \ {names["doc"]} \subseteq Linked'
  BY <1>0, <1>1, <1>2 DEF Linked
<1>5. /\ mixed' \in BOOLEAN /\ (mixed' \/ ~mixed) /\ unlisted' \in BOOLEAN /\ (unlisted' \/ ~unlisted)
      /\ crowded' \in BOOLEAN /\ (crowded' \/ (~crowded /\ Asking = {} /\ Assembling = {}))
  BY <1>0, <1>1, Zenon DEF FileTypes
<1>6. fileAsked' \in 0..MaxFileAsked /\ given' \subseteq Contents
  <2>1. VersionsOf(names["doc"]) \subseteq Contents
    BY DEF VersionsOf
  <2>2. given' \subseteq Contents
    BY <1>0, <1>1, <2>1 DEF FileTypes
  <2>3. fileAsked \in 0..MaxFileAsked /\ MaxFileAsked \in Nat
    BY <1>0, FileNumbers DEF FileTypes
  <2>4. fileAsked' \in 0..MaxFileAsked
    BY <1>1, <2>3
  <2> QED
    BY <2>2, <2>4
<1>7. FileTypes'
  BY <1>0, <1>1, <1>2, <1>5, <1>6 DEF FileTypes
<1>8. HoldsOpen' /\ \A b \in Clerks : KindOK(clerk[b])'
  BY <1>0, <1>1 DEF FilesInv, HoldsOpen, Joining, KindOK
<1>9. WholeInv'
  BY <1>0, <1>1, <1>4, <1>5, WholeRests
<1>10. BinInv'
  BY <1>0, <1>1, <1>5, BinStays DEF OnBin, Asking, ClerkAt
<1>11. LostInv'
  <2> SUFFICES ASSUME ~mixed', ~crowded' PROVE LostInv'
    BY Zenon DEF LostInv
  <2>1. ~mixed /\ ~crowded /\ Asking = {} /\ Assembling = {}
    BY <1>5
  <2>2. Kept(Original) /\ \A v \in Uploads : UpAt(v, "done") => Kept(v)
    BY <1>0, <2>1, Zenon DEF LostInv
  <2>3. ASSUME NEW v \in Contents, Kept(v) PROVE Kept(v)'
    <3>1. ASSUME names["doc"] # 0, content[names["doc"]] = FileOf(v) PROVE v \in given'
      BY <1>1, <3>1 DEF VersionsOf
    <3> QED
      BY <1>1, <1>4, <2>3, <3>1 DEF Kept, Linked
  <2>4. Kept(Original)' /\ \A v \in Uploads : UpAt(v, "done")' => Kept(v)'
    BY <1>1, <2>2, <2>3, FileNumbers DEF UpAt
  <2>5. Assembling' = {} /\ Asking' = {}
    BY <1>1, <2>1 DEF Assembling, Asking, ClerkAt
  <2> QED
    BY <2>4, <2>5 DEF LostInv
<1> QED
  BY <1>3, <1>7, <1>8, <1>9, <1>10, <1>11 DEF FilesInv

LEMMA CrashFilesKeeps ==
  ASSUME FilesInv, CrashFiles
  PROVE  FilesInv'
<1>0. FileTypes /\ HoldsOpen /\ OneName /\ WholeInv /\ BinInv /\ LostInv
  BY DEF FilesInv
<1>1. /\ UNCHANGED <<names, content, chunks, recycled, index, fileAsked, given, crowded>>
      /\ upload' = [u \in Uploads |-> IF u \in Uploading THEN [NewUpload EXCEPT !.pc = "failed"] ELSE upload[u]]
      /\ clerk' = [c \in Clerks |-> Waiting]
      /\ mixed' = (mixed \/ Assembling # {} \/ \E c \in Clerks : clerk[c].fd # 0)
      /\ unlisted' = (unlisted \/ OnBin # {})
  BY DEF CrashFiles
<1>2. /\ mixed' \in BOOLEAN /\ (mixed' \/ (~mixed /\ Assembling = {} /\ \A c \in Clerks : clerk[c].fd = 0))
      /\ unlisted' \in BOOLEAN /\ (unlisted' \/ (~unlisted /\ OnBin = {}))
  BY <1>1, Zenon
<1>3. fileMishaps' \in 0..MaxFileMishaps
  BY <1>0, FileMishapIs DEF CrashFiles
<1>4. PICK f : f = [NewUpload EXCEPT !.pc = "failed"]
  OBVIOUS
<1>5. f \in UploadRec /\ f.pc = "failed" /\ f.fd = 0
  BY <1>4 DEF NewUpload, UploadRec, Parts
<1>6. \A u \in Uploads : upload'[u] = IF u \in Uploading THEN f ELSE upload[u]
  BY <1>1, <1>4
<1>7. upload' \in [Uploads -> UploadRec]
  <2>1. upload' = [u \in Uploads |-> IF u \in Uploading THEN f ELSE upload[u]]
    BY <1>1, <1>4
  <2> QED
    BY <1>0, <1>5, <2>1 DEF FileTypes
<1>8. clerk' \in [Clerks -> ClerkRec] /\ \A b \in Clerks : clerk'[b] = Waiting
  BY <1>1, WaitingIs
<1>9. FileTypes'
  BY <1>0, <1>1, <1>2, <1>3, <1>7, <1>8 DEF FileTypes
<1>10. \A u \in Uploads : upload'[u].fd = 0 /\ upload'[u].pc \in {"new", "done", "failed"}
                          /\ (upload'[u].pc \in {"new", "done"} => upload'[u] = upload[u])
  <2> SUFFICES ASSUME NEW u \in Uploads
      PROVE  upload'[u].fd = 0 /\ upload'[u].pc \in {"new", "done", "failed"}
             /\ (upload'[u].pc \in {"new", "done"} => upload'[u] = upload[u])
    OBVIOUS
  <2>1. CASE u \in Uploading
    BY <1>5, <1>6, <2>1
  <2>2. CASE u \notin Uploading
    BY <1>0, <1>6, <2>2, UploadIs DEF Uploading, HoldsOpen, Joining
  <2> QED
    BY <2>1, <2>2
<1>11. HoldsOpen'
  BY <1>0, <1>8, <1>10, WaitingIs DEF HoldsOpen, Joining
<1>12. \A b \in Clerks : KindOK(clerk[b])'
  <2>1. \A b \in Clerks : KindOK(clerk'[b])
    BY <1>8, WaitingIs
  <2> QED
    BY <2>1 DEF KindOK
<1>13. OneName' /\ Linked' = Linked /\ InBin' = InBin
  BY <1>0, <1>1, NamesStay
<1>14. Uploading' = {} /\ Assembling' = {} /\ Asking' = {} /\ OnBin' = {}
  <2>1. Uploading' = {} /\ Assembling' = {}
    BY <1>10 DEF Uploading, Assembling
  <2>2. Asking' = {}
    BY <1>8, WaitingIs DEF Asking, ClerkAt
  <2> QED
    BY <2>1, <2>2 DEF OnBin
<1>15. WholeInv'
  <2> SUFFICES ASSUME ~mixed' PROVE WholeInv'
    BY Zenon DEF WholeInv
  <2>1. ~mixed /\ Assembling = {} /\ \A c \in Clerks : clerk[c].fd = 0
    BY <1>2
  <2>2. Written = {}
    BY <1>0, <2>1 DEF Written, Assembling, HoldsOpen, Joining
  <2>3. \A j \in Linked' : Whole(j)'
    BY <1>0, <1>1, <1>13, <2>1, <2>2 DEF WholeInv, FilesAreWhole, Whole
  <2>4. OneWriter'
    BY <1>8, WaitingIs DEF OneWriter
  <2> QED
    BY <1>14, <2>3, <2>4 DEF WholeInv, FilesAreWhole
<1>16. BinInv'
  <2> SUFFICES ASSUME ~unlisted' PROVE BinInv'
    BY Zenon DEF BinInv
  <2>1. ~unlisted /\ OnBin = {}
    BY <1>2
  <2>2. index = {k \in Items : recycled[k] # 0}
    BY <1>0, <2>1 DEF BinInv, BinIsListed
  <2>3. BinIsListed'
    BY <1>1, <2>2 DEF BinIsListed
  <2> QED
    BY <1>14, <2>3 DEF BinInv
<1>17. LostInv'
  <2> SUFFICES ASSUME ~mixed', ~crowded' PROVE LostInv'
    BY Zenon DEF LostInv
  <2>1. ~mixed /\ ~crowded
    BY <1>1, <1>2
  <2>2. Kept(Original) /\ \A u \in Uploads : UpAt(u, "done") => Kept(u)
    BY <1>0, <2>1, Zenon DEF LostInv
  <2>3. \A v : Kept(v) => Kept(v)'
    BY <1>1, <1>13 DEF Kept
  <2>4. \A u \in Uploads : UpAt(u, "done")' => UpAt(u, "done")
    BY <1>10 DEF UpAt
  <2> QED
    BY <1>14, <2>2, <2>3, <2>4 DEF LostInv
<1> QED
  BY <1>9, <1>11, <1>12, <1>13, <1>15, <1>16, <1>17 DEF FilesInv

LEMMA FilesRest == ASSUME FilesInv, UNCHANGED fileVars PROVE FilesInv'
<1>0. FileTypes /\ HoldsOpen /\ (\A c \in Clerks : KindOK(clerk[c])) /\ OneName /\ WholeInv /\ BinInv /\ LostInv
  BY DEF FilesInv
<1>1. UNCHANGED <<names, content, chunks, upload, recycled, index, clerk, fileAsked, fileMishaps,
                  given, mixed, crowded, unlisted>>
  BY DEF fileVars
<1>2. FileTypes' /\ HoldsOpen' /\ (\A c \in Clerks : KindOK(clerk[c])')
  BY <1>0, <1>1 DEF FileTypes, HoldsOpen, Joining, KindOK
<1>3. OneName' /\ Linked' = Linked /\ InBin' = InBin
  BY <1>0, <1>1, NamesStay
<1>4. mixed' \/ ~mixed
  BY <1>0, <1>1 DEF FileTypes
<1>5. WholeInv'
  BY <1>0, <1>1, <1>3, <1>4, WholeRests
<1>6. unlisted' \/ ~unlisted
  BY <1>0, <1>1 DEF FileTypes
<1>7. OnBin' = OnBin
  BY <1>1 DEF OnBin, Asking, ClerkAt
<1>8. BinInv'
  BY <1>0, <1>1, <1>3, <1>6, <1>7, BinStays
<1>9. LostInv'
  BY <1>0, <1>1, <1>4, LostRests DEF Joining, UpAt
<1> QED
  BY <1>2, <1>3, <1>5, <1>8, <1>9 DEF FilesInv

\* What a request does to the files keeps their invariant.
LEMMA FilesStep ==
  ASSUME FilesInv, FileNext \/ UNCHANGED fileVars
  PROVE  FilesInv'
<1>1. ASSUME NEW u \in Uploads,
             \/ StartUpload(u) \/ ChunkArrives(u) \/ CreateFinal(u) \/ AppendChunk(u)
             \/ Assembled(u) \/ DropPartial(u) \/ CancelUpload(u)
      PROVE  FilesInv'
  BY <1>1, StartUploadKeeps, ChunkArrivesKeeps, CreateFinalKeeps, AppendChunkKeeps, AssembledKeeps, DropPartialKeeps,
     CancelUploadKeeps
<1>2. ASSUME NEW c \in Clerks, NEW n \in Names, Recycle(c, n) PROVE FilesInv'
  BY <1>2, RecycleKeeps
<1>3. ASSUME NEW c \in Clerks,
             \/ MoveToBin(c) \/ LoadToAdd(c) \/ Probe(c) \/ MoveBack(c) \/ EraseItems(c) \/ TruncateIndex(c)
             \/ WriteIndex(c)
      PROVE  FilesInv'
  BY <1>3, MoveToBinKeeps, LoadToAddKeeps, ProbeKeeps, MoveBackKeeps, EraseItemsKeeps, TruncateIndexKeeps, WriteIndexKeeps
<1>4. ASSUME NEW c \in Clerks, Restore(c) \/ Purge(c) \/ Empty(c) PROVE FilesInv'
  BY <1>4, AskBinKeeps
<1>5. ASSUME NEW c \in Clerks,
             \/ Paste(c) \/ RenamePasted(c) \/ OpenCopy(c) \/ FillCopy(c) \/ RemoveSource(c)
             \/ UndoPaste(c) \/ RenameFile(c)
      PROVE  FilesInv'
  BY <1>5, PasteKeeps, RenamePastedKeeps, OpenCopyKeeps, FillCopyKeeps, RemoveSourceKeeps, UndoPasteKeeps, RenameFileKeeps
<1> QED
  BY <1>1, <1>2, <1>3, <1>4, <1>5, CrashFilesKeeps, FilesRest, Zenon DEF FileNext

\* What the invariant says of the property and of the types.
\* What the run checks, from the invariant.
LEMMA FilesInvSays == ASSUME FilesInv PROVE FilesConsistent /\ FileTypeOK
<1>0. FileTypes /\ WholeInv /\ BinInv /\ LostInv
  BY DEF FilesInv
<1>1. FilesAreWhole
  BY <1>0, Zenon DEF WholeInv, FilesAreWhole
<1>2. BinIsListed
  BY <1>0, Zenon DEF BinInv, BinIsListed
<1>3. NothingIsLost
  <2> SUFFICES ASSUME ~mixed, ~crowded PROVE NothingIsLost
    BY Zenon DEF NothingIsLost
  <2>1. Kept(Original) /\ \A u \in Uploads : UpAt(u, "done") => Kept(u)
    BY <1>0, Zenon DEF LostInv
  <2> QED
    BY <2>1 DEF NothingIsLost, Kept
<1>4. FileTypeOK
  <2>1. \A c \in Clerks : clerk[c].view \subseteq Items /\ clerk[c].to \in Names
    BY <1>0, ClerkIs
  <2>2. upload \in [Uploads -> [pc : {"new", "open", "create", "join", "sweep", "drop", "done", "failed"},
                                next : Parts, fd : Inodes \cup {0}, quit : BOOLEAN]]
    BY <1>0 DEF FileTypes, UploadRec
  <2>3. \A i \in Inodes : content[i] \in [Parts -> Contents \cup {0}]
    BY <1>0 DEF FileTypes
  <2> QED
    BY <1>0, <2>1, <2>2, <2>3 DEF FileTypeOK, FileTypes
<1> QED
  BY <1>1, <1>2, <1>3, <1>4 DEF FilesConsistent

-----------------------------------------------------------------------------
(* Shares.  The invariant gives every number one owner, and says which      *)
(* request is still to make good what one place has and another has not.    *)

ShareSteps == {"free", "volume", "group", "row", "grant", "join", "diff", "save", "switch", "render", "install",
               "rollback", "ungroup", "destroy", "unrow", "useradd", "smbpasswd", "userdel",
               "fcreate", "facl", "frow", "fedit", "fsave", "fdelete", "funrow"}
Listing == (SUBSET Everyone) \cup {Unlisted}
DeskRec == [pc : ShareSteps, no : Nat, add : SUBSET (Everyone \cup BOOLEAN), drop : SUBSET Everyone, smb : BOOLEAN,
            who : Everyone \cup {"switch"}, view : Listing, old : Listing]
Rows == [no : Nat, smb : BOOLEAN]
FolderRows == [id : Nat, state : {"none", "active", "deleting"}]
ShareTypes ==
  /\ share \in Rows /\ (share.no = 0 => share = NoShare) /\ grants \subseteq Everyone
  /\ accounts \in [Everyone -> {"absent", "user", "admin"}] /\ unix \subseteq Everyone
  /\ volume \in {"none", "plain", "subvol"} /\ group \in BOOLEAN /\ members \subseteq Everyone /\ smbConf \in Listing
  /\ folderRow \in FolderRows /\ (folderRow.id = 0 <=> folderRow = NoFolder)
  /\ (folderRow = NoFolder => folderRights = {}) /\ folderRights \subseteq Guests /\ folderAcl \subseteq Guests
  /\ folderVol \in BOOLEAN /\ folderFull \in BOOLEAN
  /\ desk \in [Desks -> DeskRec] /\ shareAsked \in 0..MaxShareAsked /\ shareMishaps \in 0..MaxShareMishaps
  /\ (share.no = 0 => grants = {})

\* What a request brings to each of its steps.
UserSteps == {"save", "useradd", "smbpasswd", "userdel"}
FolderSteps == {"fcreate", "facl", "frow", "fedit", "fsave", "fdelete", "funrow"}
DeskOK(r) ==
  /\ r.pc \in UserSteps => r.who \in Everyone
  /\ r.pc \in FolderSteps => r.no # 0 /\ r.add \subseteq Guests
  /\ r.pc \in {"volume", "group", "row", "grant", "join"} => r.no # 0 /\ r.add \subseteq Everyone
  /\ r.pc \in {"diff", "save"} => r.add \subseteq Everyone
\* A number is given once: what a request is still to make has no row, and no other request
\* knows of it.
YetToMake == {"volume", "group", "row", "fcreate", "facl", "frow"}
NumbersOnce ==
  /\ share.no <= shareAsked /\ folderRow.id <= shareAsked /\ \A d \in Desks : desk[d].no <= shareAsked
  /\ \A d \in Desks : desk[d].pc \in YetToMake =>
       /\ desk[d].no \notin {0, share.no, folderRow.id}
       /\ \A e \in Desks : desk[e].no = desk[d].no => e = d
JoinsGranted == \A d \in Desks : At(d, "join") /\ desk[d].no = share.no => Owner \in grants

\* Whoever has a grant and is a Linux user, or is about to be one, is a member, or a request
\* is still to see to it.
Claims(u) == u \in unix \/ \E d \in Desks : desk[d].pc \in {"useradd", "smbpasswd"} /\ desk[d].who = u
Covered(u) ==
  \/ u \in members \cup unserved \/ InHand({"destroy", "unrow"}) \/ (u = Owner /\ InHand({"join"}))
GrantsHold == \A u \in grants : Claims(u) => Covered(u)
\* A folder is being made, or it goes.
Making == {d \in Desks : desk[d].pc \in {"facl", "frow"}}
Leaving == folderRow.id = 0 \/ \E d \in Desks : At(d, "funrow") /\ desk[d].no = folderRow.id
FolderInv ==
  \/ "folder" \in torn
  \/ /\ \A d, e \in Making : d = e
     /\ Leaving => (folderVol <=> Making # {})
     /\ ~Leaving => folderVol /\ Making = {}
RightsInv == Leaving \/ folderRights = folderAcl \/ InHand({"fsave"}) \/ torn \cap {"rights", "folder"} # {}
ShareInv ==
  /\ ShareTypes /\ (\A d \in Desks : DeskOK(desk[d])) /\ NumbersOnce /\ JoinsGranted
  /\ MembersHaveGrants /\ GrantsHold /\ SharesHaveData /\ SmbSaysSo /\ FolderInv /\ RightsInv

-----------------------------------------------------------------------------
\* What a step of a request may do to each part of the invariant: request d goes on with r.
Moves(d, r) == r \in DeskRec /\ DeskOK(r) /\ desk' = [desk EXCEPT ![d] = r]
NumbersMay(d, r) ==
  /\ shareAsked' \in {shareAsked, shareAsked + 1}
  /\ share'.no \in {share.no, 0, desk[d].no} /\ folderRow'.id \in {folderRow.id, 0, desk[d].no}
  /\ r.no \in {0, desk[d].no, share.no, folderRow.id} \/ (r.no = shareAsked + 1 /\ shareAsked' = shareAsked + 1)
  /\ r.pc \in YetToMake => /\ r.no \notin {share'.no, folderRow'.id}
                           /\ r.no = shareAsked + 1 \/ (r.no = desk[d].no /\ desk[d].pc \in YetToMake)
JoinsMay(d, r) ==
  /\ grants \subseteq grants' \/ share'.no = 0
  /\ share'.no \in {share.no, 0} \/ (share'.no = desk[d].no /\ desk[d].pc \in YetToMake)
  /\ r.pc = "join" => Owner \in grants'
MembersMay(d, r) ==
  \A u \in members' : \/ u \in grants' \cup strays' \/ (r.pc = "save" /\ r.who = u)
                      \/ /\ u \in members /\ u \notin grants \cup strays
                         /\ desk[d].pc = "save" => desk[d].who # u
GrantsMay(d, r) ==
  \A u \in grants' :
    \/ u \in members' \cup unserved' \/ r.pc \in {"destroy", "unrow"} \/ (u = Owner /\ r.pc = "join")
    \/ /\ u \in grants /\ u \notin members \cup unserved
       /\ u \in unix' => u \in unix \/ (desk[d].pc \in {"useradd", "smbpasswd"} /\ desk[d].who = u)
       /\ r.pc \in {"useradd", "smbpasswd"} /\ r.who = u =>
            desk[d].pc \in {"useradd", "smbpasswd"} /\ desk[d].who = u
       /\ desk[d].pc \notin {"destroy", "unrow"} /\ (u = Owner => desk[d].pc # "join")
DataMay(d, r) ==
  share'.no # 0 => \/ volume' = "subvol" \/ r.pc = "unrow" \/ "volume" \in torn'
                   \/ /\ share.no # 0 /\ volume # "subvol" /\ "volume" \notin torn /\ desk[d].pc # "unrow"
SmbSteps == {"render", "install", "rollback"}
SmbMay(d, r) ==
  \/ SmbRight' \/ "smb" \in torn' \/ r.pc \in SmbSteps
  \/ ~SmbRight /\ "smb" \notin torn /\ desk[d].pc \notin SmbSteps
FolderMay(d, r) ==
  /\ folderVol' = folderVol /\ folderRow'.id = folderRow.id /\ ("folder" \in torn => "folder" \in torn')
  /\ desk[d].pc # "funrow" /\ r.pc # "funrow"
  /\ desk[d].pc \in {"facl", "frow"} <=> r.pc \in {"facl", "frow"}
RightsMay(d, r) ==
  \/ Leaving' \/ folderRights' = folderAcl' \/ r.pc = "fsave" \/ torn' \cap {"rights", "folder"} # {}
  \/ /\ ~Leaving /\ folderRights # folderAcl /\ torn \cap {"rights", "folder"} = {} /\ desk[d].pc # "fsave"

LEMMA DeskMoves ==
  ASSUME ShareTypes, NEW d \in Desks, NEW r, Moves(d, r)
  PROVE  desk' \in [Desks -> DeskRec] /\ desk'[d] = r /\ \A e \in Desks : e # d => desk'[e] = desk[e]
BY DEF Moves, ShareTypes
LEMMA HandMoves ==
  ASSUME ShareTypes, NEW d \in Desks, NEW r, Moves(d, r), NEW S
  PROVE  /\ r.pc \in S => InHand(S)'
         /\ desk[d].pc \notin S /\ InHand(S) => InHand(S)'
         /\ r.pc \notin S /\ InHand(S)' => InHand(S)
BY DeskMoves DEF InHand
LEMMA DeskIs ==
  ASSUME ShareTypes, NEW d \in Desks
  PROVE  /\ desk[d] \in DeskRec /\ desk[d].pc \in ShareSteps /\ desk[d].no \in Nat
         /\ desk[d].add \subseteq Everyone \cup BOOLEAN /\ desk[d].drop \subseteq Everyone /\ desk[d].smb \in BOOLEAN
         /\ desk[d].who \in Everyone \cup {"switch"} /\ desk[d].view \in Listing /\ desk[d].old \in Listing
<1>1. desk[d] \in DeskRec
  BY DEF ShareTypes
<1> QED
  BY <1>1 DEF DeskRec
LEMMA ShareNumbers ==
  ASSUME ShareTypes
  PROVE  share.no \in Nat /\ folderRow.id \in Nat /\ shareAsked \in Nat /\ MaxShareAsked \in Nat /\ MaxShareMishaps \in Nat
BY ShareAssumption DEF ShareTypes, Rows, FolderRows

LEMMA NumbersMove ==
  ASSUME ShareTypes, NumbersOnce, NEW d \in Desks, NEW r, Moves(d, r), NumbersMay(d, r), ShareTypes'
  PROVE  NumbersOnce'
<1>1. desk'[d] = r /\ \A e \in Desks : e # d => desk'[e] = desk[e]
  BY DeskMoves
<1>2. /\ share.no \in Nat /\ folderRow.id \in Nat /\ shareAsked \in Nat /\ share'.no \in Nat /\ folderRow'.id \in Nat
      /\ \A e \in Desks : desk[e].no \in Nat
  BY ShareNumbers, DeskIs DEF ShareTypes, Rows, FolderRows
<1>3. r.no \in Nat
  BY DEF Moves, DeskRec
<1>4. /\ share'.no <= shareAsked' /\ folderRow'.id <= shareAsked' /\ r.no <= shareAsked'
      /\ \A e \in Desks : desk[e].no <= shareAsked'
  BY <1>2, <1>3 DEF NumbersMay, NumbersOnce
<1>5. \A e \in Desks : desk'[e].no <= shareAsked'
  BY <1>1, <1>4
<1>6. ASSUME NEW e \in Desks, desk'[e].pc \in YetToMake
      PROVE  desk'[e].no \notin {0, share'.no, folderRow'.id} /\ \A f \in Desks : desk'[f].no = desk'[e].no => f = e
  <2>1. CASE e = d
    <3>1. r.pc \in YetToMake /\ desk'[e] = r
      BY <1>1, <1>6, <2>1
    <3>2. r.no # 0 /\ r.no \notin {share'.no, folderRow'.id}
      BY <1>2, <3>1 DEF NumbersMay, NumbersOnce
    <3>3. \A f \in Desks : f # d => desk[f].no # r.no
      BY <1>2, <3>1 DEF NumbersMay, NumbersOnce
    <3> QED
      BY <1>1, <2>1, <3>1, <3>2, <3>3
  <2>2. CASE e # d
    <3>1. desk[e].pc \in YetToMake /\ desk'[e] = desk[e]
      BY <1>1, <1>6, <2>2
    <3>2. desk[e].no \notin {0, share.no, folderRow.id} /\ \A f \in Desks : desk[f].no = desk[e].no => f = e
      BY <3>1 DEF NumbersOnce
    <3>3. desk[e].no \notin {0, share'.no, folderRow'.id}
      BY <2>2, <3>2 DEF NumbersMay
    <3>4. desk[e].no # r.no
      <4>1. desk[e].no <= shareAsked /\ desk[e].no \in Nat
        BY <1>2 DEF NumbersOnce
      <4> QED
        BY <1>2, <2>2, <3>2, <4>1 DEF NumbersMay
    <3> QED
      BY <1>1, <2>2, <3>1, <3>2, <3>3, <3>4
  <2> QED
    BY <2>1, <2>2
<1> QED
  BY <1>4, <1>5, <1>6 DEF NumbersOnce

LEMMA JoinsMove ==
  ASSUME ShareTypes, \A e \in Desks : DeskOK(desk[e]), NumbersOnce, JoinsGranted,
         NEW d \in Desks, NEW r, Moves(d, r), JoinsMay(d, r)
  PROVE  JoinsGranted'
<1>1. desk'[d] = r /\ \A e \in Desks : e # d => desk'[e] = desk[e]
  BY DeskMoves
<1> SUFFICES ASSUME NEW e \in Desks, desk'[e].pc = "join", desk'[e].no = share'.no PROVE Owner \in grants'
  BY DEF JoinsGranted, At
<1>2. CASE e = d
  BY <1>1, <1>2 DEF JoinsMay
<1>3. CASE e # d
  <2>1. desk[e].pc = "join" /\ desk[e].no = share'.no /\ desk[e].no # 0
    BY <1>1, <1>3 DEF DeskOK
  <2>2. share'.no = share.no
    BY <1>3, <2>1 DEF JoinsMay, NumbersOnce
  <2> QED
    BY <2>1, <2>2 DEF JoinsMay, JoinsGranted, At
<1> QED
  BY <1>2, <1>3

LEMMA MembersMove ==
  ASSUME ShareTypes, MembersHaveGrants, NEW d \in Desks, NEW r, Moves(d, r), MembersMay(d, r)
  PROVE  MembersHaveGrants'
<1>1. desk'[d] = r /\ \A e \in Desks : e # d => desk'[e] = desk[e]
  BY DeskMoves
<1> SUFFICES ASSUME NEW u \in members', u \notin grants' \cup strays'
    PROVE  \E e \in Desks : desk'[e].pc = "save" /\ desk'[e].who = u
  BY DEF MembersHaveGrants, At
<1>2. CASE r.pc = "save" /\ r.who = u
  BY <1>1, <1>2
<1>3. CASE u \in members /\ u \notin grants \cup strays /\ (desk[d].pc = "save" => desk[d].who # u)
  <2>1. PICK e \in Desks : desk[e].pc = "save" /\ desk[e].who = u
    BY <1>3 DEF MembersHaveGrants, At
  <2> QED
    BY <1>1, <1>3, <2>1
<1> QED
  BY <1>2, <1>3 DEF MembersMay

LEMMA GrantsMove ==
  ASSUME ShareTypes, GrantsHold, NEW d \in Desks, NEW r, Moves(d, r), GrantsMay(d, r)
  PROVE  GrantsHold'
<1>1. desk'[d] = r /\ \A e \in Desks : e # d => desk'[e] = desk[e]
  BY DeskMoves
<1> SUFFICES ASSUME NEW u \in grants', Claims(u)' PROVE Covered(u)'
  BY DEF GrantsHold
<1>2. CASE u \in members' \cup unserved'
  BY <1>2 DEF Covered
<1>3. CASE r.pc \in {"destroy", "unrow"}
  <2>1. InHand({"destroy", "unrow"})'
    BY <1>3, HandMoves
  <2> QED
    BY <2>1 DEF Covered
<1>4. CASE u = Owner /\ r.pc = "join"
  <2>1. InHand({"join"})'
    BY <1>4, HandMoves
  <2> QED
    BY <1>4, <2>1 DEF Covered
<1>5. CASE /\ u \in grants /\ u \notin members \cup unserved
           /\ u \in unix' => u \in unix \/ (desk[d].pc \in {"useradd", "smbpasswd"} /\ desk[d].who = u)
           /\ r.pc \in {"useradd", "smbpasswd"} /\ r.who = u =>
                desk[d].pc \in {"useradd", "smbpasswd"} /\ desk[d].who = u
           /\ desk[d].pc \notin {"destroy", "unrow"} /\ (u = Owner => desk[d].pc # "join")
  <2>1. Claims(u)
    BY <1>1, <1>5 DEF Claims
  <2>2. InHand({"destroy", "unrow"}) \/ (u = Owner /\ InHand({"join"}))
    BY <1>5, <2>1 DEF GrantsHold, Covered
  <2>3. InHand({"destroy", "unrow"}) => InHand({"destroy", "unrow"})'
    BY <1>5, HandMoves
  <2>4. u = Owner /\ InHand({"join"}) => InHand({"join"})'
    BY <1>5, HandMoves
  <2> QED
    BY <2>2, <2>3, <2>4 DEF Covered
<1> QED
  BY <1>2, <1>3, <1>4, <1>5 DEF GrantsMay

LEMMA DataMoves ==
  ASSUME ShareTypes, SharesHaveData, NEW d \in Desks, NEW r, Moves(d, r), DataMay(d, r)
  PROVE  SharesHaveData'
<1> SUFFICES ASSUME share'.no # 0, volume' # "subvol", "volume" \notin torn' PROVE InHand({"unrow"})'
  BY DEF SharesHaveData, Exists
<1>1. CASE r.pc = "unrow"
  BY <1>1, HandMoves
<1>2. CASE share.no # 0 /\ volume # "subvol" /\ "volume" \notin torn /\ desk[d].pc # "unrow"
  <2>1. InHand({"unrow"})
    BY <1>2 DEF SharesHaveData, Exists
  <2> QED
    BY <1>2, <2>1, HandMoves
<1> QED
  BY <1>1, <1>2 DEF DataMay

LEMMA SmbMoves ==
  ASSUME ShareTypes, SmbSaysSo, NEW d \in Desks, NEW r, Moves(d, r), SmbMay(d, r)
  PROVE  SmbSaysSo'
<1>1. CASE SmbRight' \/ "smb" \in torn'
  BY <1>1 DEF SmbSaysSo
<1>2. CASE r.pc \in SmbSteps
  <2>1. InHand(SmbSteps)'
    BY <1>2, HandMoves
  <2> QED
    BY <2>1 DEF SmbSaysSo, SmbSteps
<1>3. CASE ~SmbRight /\ "smb" \notin torn /\ desk[d].pc \notin SmbSteps
  <2>1. InHand(SmbSteps)
    BY <1>3 DEF SmbSaysSo, SmbSteps
  <2>2. InHand(SmbSteps)'
    BY <1>3, <2>1, HandMoves
  <2> QED
    BY <2>2 DEF SmbSaysSo, SmbSteps
<1> QED
  BY <1>1, <1>2, <1>3 DEF SmbMay

\* The folder is as it was.
LEMMA FolderRests ==
  ASSUME ShareTypes, FolderInv, NEW d \in Desks, NEW r, Moves(d, r), FolderMay(d, r)
  PROVE  FolderInv' /\ (Leaving' <=> Leaving)
<1>1. desk'[d] = r /\ \A e \in Desks : e # d => desk'[e] = desk[e]
  BY DeskMoves
<1>2. Leaving' <=> Leaving
  BY <1>1 DEF Leaving, At, FolderMay
<1>3. Making' = Making
  BY <1>1 DEF Making, FolderMay
<1>4. folderVol' = folderVol /\ ("folder" \in torn => "folder" \in torn')
  BY DEF FolderMay
<1> QED
  BY <1>2, <1>3, <1>4 DEF FolderInv

LEMMA RightsMove ==
  ASSUME ShareTypes, RightsInv, NEW d \in Desks, NEW r, Moves(d, r), RightsMay(d, r)
  PROVE  RightsInv'
<1>1. CASE Leaving' \/ folderRights' = folderAcl' \/ torn' \cap {"rights", "folder"} # {}
  BY <1>1 DEF RightsInv
<1>2. CASE r.pc = "fsave"
  <2>1. InHand({"fsave"})'
    BY <1>2, HandMoves
  <2> QED
    BY <2>1 DEF RightsInv
<1>3. CASE ~Leaving /\ folderRights # folderAcl /\ torn \cap {"rights", "folder"} = {} /\ desk[d].pc # "fsave"
  <2>1. InHand({"fsave"})
    BY <1>3 DEF RightsInv
  <2>2. InHand({"fsave"})'
    BY <1>3, <2>1, HandMoves
  <2> QED
    BY <2>2 DEF RightsInv
<1> QED
  BY <1>1, <1>2, <1>3 DEF RightsMay

\* A step that does to each part what it may keeps the invariant.
LEMMA ShareMoves ==
  ASSUME ShareInv, NEW d \in Desks, NEW r, Moves(d, r), ShareTypes', NumbersMay(d, r), JoinsMay(d, r),
         MembersMay(d, r), GrantsMay(d, r), DataMay(d, r), SmbMay(d, r), FolderInv', RightsMay(d, r)
  PROVE  ShareInv'
<1>1. desk'[d] = r /\ \A e \in Desks : e # d => desk'[e] = desk[e]
  BY DeskMoves DEF ShareInv
<1>2. \A e \in Desks : DeskOK(desk'[e])
  BY <1>1 DEF ShareInv, Moves
<1>3. \A e \in Desks : DeskOK(desk[e])'
  BY <1>2 DEF DeskOK
<1>4. NumbersOnce' /\ JoinsGranted'
  BY NumbersMove, JoinsMove DEF ShareInv
<1>5. MembersHaveGrants' /\ GrantsHold'
  BY MembersMove, GrantsMove DEF ShareInv
<1>6. SharesHaveData' /\ SmbSaysSo' /\ RightsInv'
  BY DataMoves, SmbMoves, RightsMove DEF ShareInv
<1> QED
  BY <1>3, <1>4, <1>5, <1>6 DEF ShareInv

-----------------------------------------------------------------------------
\* What leaves and what goes on, and the failures.
LEMMA MishapIs ==
  ASSUME ShareTypes, ShareMishap \/ UNCHANGED shareMishaps
  PROVE  shareMishaps' \in 0..MaxShareMishaps
BY ShareNumbers DEF ShareTypes, ShareMishap
LEMMA FreeIs ==
  /\ Free \in DeskRec /\ DeskOK(Free) /\ Free.pc = "free" /\ Free.no = 0 /\ Free.add = {} /\ Free.drop = {}
  /\ Free.smb = FALSE /\ Free.who = Owner /\ Free.view = {} /\ Free.old = Unlisted
<1>1. PICK none : none = Unlisted
  OBVIOUS
<1>2. none \in Listing /\ {} \in Listing /\ Owner \in Everyone
  <2>1. none \in Listing /\ {} \in Listing
    BY <1>1 DEF Listing
  <2> QED
    BY <2>1 DEF Everyone
<1>3. Free = [pc |-> "free", no |-> 0, add |-> {}, drop |-> {}, smb |-> FALSE, who |-> Owner, view |-> {}, old |-> none]
  BY <1>1 DEF Free
<1>4. /\ Free.pc = "free" /\ Free.no = 0 /\ Free.add = {} /\ Free.drop = {} /\ Free.smb = FALSE /\ Free.who = Owner
      /\ Free.view = {} /\ Free.old = none
  BY <1>3
<1>5. Free \in DeskRec
  BY <1>2, <1>3 DEF DeskRec, ShareSteps
<1>6. DeskOK(Free)
  BY <1>4 DEF DeskOK, UserSteps, FolderSteps
<1> QED
  BY <1>1, <1>4, <1>5, <1>6
LEMMA LeavesIs ==
  ASSUME NEW d, Leaves(d)
  PROVE  Moves(d, Free)
BY FreeIs DEF Leaves, Moves
LEMMA GoesIs ==
  ASSUME ShareTypes, NEW d \in Desks, NEW pc \in ShareSteps, Goes(d, pc)
  PROVE  \E r \in DeskRec : /\ desk' = [desk EXCEPT ![d] = r] /\ r.pc = pc
                            /\ r.no = desk[d].no /\ r.add = desk[d].add /\ r.drop = desk[d].drop /\ r.smb = desk[d].smb
                            /\ r.who = desk[d].who /\ r.view = desk[d].view /\ r.old = desk[d].old
<1>1. PICK r : r = [desk[d] EXCEPT !.pc = pc]
  OBVIOUS
<1>2. desk[d] \in DeskRec
  BY DeskIs
<1>3. r \in DeskRec /\ r.pc = pc /\ r.no = desk[d].no /\ r.add = desk[d].add /\ r.drop = desk[d].drop
      /\ r.smb = desk[d].smb /\ r.who = desk[d].who /\ r.view = desk[d].view /\ r.old = desk[d].old
  BY <1>1, <1>2 DEF DeskRec
<1>4. desk' = [desk EXCEPT ![d] = r]
  BY <1>1 DEF Goes
<1> QED
  BY <1>3, <1>4

\* A step that changes no more than where its request is, whether there is a directory, and
\* who has an account.
Quiet == {"free", "volume", "group", "row", "grant", "diff", "switch", "ungroup", "userdel", "fcreate", "fedit", "fdelete"}
LEMMA ShareRests ==
  ASSUME ShareInv, NEW d \in Desks, NEW r, Moves(d, r), ShareTypes', NumbersMay(d, r),
         UNCHANGED <<share, grants, unix, members, smbConf, folderVol, folderRights, folderAcl, strays, torn>>,
         folderRow'.id = folderRow.id, unserved \subseteq unserved', volume = "subvol" => volume' = "subvol",
         desk[d].pc \in Quiet, r.pc \in Quiet \cup {"useradd", "render"}, r.pc = "useradd" => r.who \notin grants \/ r.who \in unserved'
  PROVE  ShareInv'
<1>1. desk[d].pc \notin {"join", "save", "destroy", "unrow", "facl", "frow", "funrow", "fsave"} \cup SmbSteps
  BY DEF Quiet, SmbSteps
<1>2. r.pc \notin {"join", "facl", "frow", "funrow", "smbpasswd"}
  BY DEF Quiet
<1>3. JoinsMay(d, r) /\ MembersMay(d, r)
  BY <1>1, <1>2 DEF JoinsMay, MembersMay
<1>4. GrantsMay(d, r)
  BY <1>1, <1>2 DEF GrantsMay
<1>5. DataMay(d, r)
  BY <1>1 DEF DataMay
<1>6. SmbMay(d, r)
  BY <1>1, Zenon DEF SmbMay, SmbRight
<1>7. FolderMay(d, r)
  BY <1>1, <1>2 DEF FolderMay
<1>8. FolderInv' /\ (Leaving' <=> Leaving)
  BY <1>7, FolderRests DEF ShareInv
<1>9. RightsMay(d, r)
  BY <1>1, <1>8, Zenon DEF RightsMay
<1> QED
  BY <1>3, <1>4, <1>5, <1>6, <1>8, <1>9, ShareMoves

\* A request is taken.
LEMMA TakesKeeps ==
  ASSUME ShareInv, NEW d \in Desks, NEW r \in DeskRec, DeskOK(r), Takes(d, r),
         UNCHANGED <<share, grants, unix, volume, group, members, smbConf, folderVol, folderRights, folderAcl, folderFull,
                     shareMishaps, strays, torn>>,
         folderRow' \in FolderRows, folderRow'.id = folderRow.id, folderRow'.id = 0 => folderRow' = NoFolder,
         accounts' \in [Everyone -> {"absent", "user", "admin"}],
         unserved \subseteq unserved', r.pc \in Quiet \cup {"useradd", "render"},
         r.pc = "useradd" => r.who \notin grants \/ r.who \in unserved',
         r.no = shareAsked + 1 \/ (r.no \in {0, share.no, folderRow.id} /\ r.pc \notin YetToMake)
  PROVE  ShareInv'
<1>0. ShareTypes /\ desk[d].pc = "free" /\ desk[d].pc \in Quiet
  BY DEF ShareInv, Takes, At, Quiet
<1>1. Moves(d, r)
  BY DEF Moves, Takes
<1>2. shareAsked' = shareAsked + 1 /\ shareAsked' \in 0..MaxShareAsked
  BY <1>0, ShareNumbers DEF Takes, ShareTypes
<1>3. desk' \in [Desks -> DeskRec]
  BY <1>0, <1>1, DeskMoves
<1>4. folderRow'.id = 0 <=> folderRow' = NoFolder
  BY DEF NoFolder
<1>5. folderRow' = NoFolder => folderRow = NoFolder
  BY <1>0, <1>4 DEF ShareTypes
<1>6. ShareTypes'
  BY <1>0, <1>2, <1>3, <1>4, <1>5 DEF ShareTypes
<1>7. NumbersMay(d, r)
  <2>1. share.no <= shareAsked /\ folderRow.id <= shareAsked /\ share.no \in Nat /\ folderRow.id \in Nat /\ shareAsked \in Nat
    BY <1>0, ShareNumbers DEF ShareInv, NumbersOnce
  <2> QED
    BY <1>2, <2>1 DEF NumbersMay
<1> QED
  BY <1>0, <1>1, <1>6, <1>7, ShareRests

\* A request that has changed nothing leaves, or goes on.
LEMMA QuietKeeps ==
  ASSUME ShareInv, NEW d \in Desks, NEW r, Moves(d, r), desk[d].pc \in Quiet, r.pc \in Quiet \cup {"render"},
         r.no = 0 \/ r.no = desk[d].no, r.pc \in YetToMake => r.no = desk[d].no /\ desk[d].pc \in YetToMake,
         UNCHANGED <<share, grants, unix, members, smbConf, folderVol, folderRights, folderAcl, folderFull,
                     shareAsked, strays, torn, unserved>>,
         group' \in BOOLEAN, volume' \in {"none", "plain", "subvol"}, volume = "subvol" => volume' = "subvol",
         folderRow' \in FolderRows, folderRow'.id = folderRow.id, folderRow'.id = 0 => folderRow' = NoFolder,
         accounts' \in [Everyone -> {"absent", "user", "admin"}], ShareMishap \/ UNCHANGED shareMishaps
  PROVE  ShareInv'
<1>0. ShareTypes
  BY DEF ShareInv
<1>1. desk' \in [Desks -> DeskRec] /\ shareMishaps' \in 0..MaxShareMishaps
  BY <1>0, DeskMoves, MishapIs
<1>2. folderRow'.id = 0 <=> folderRow' = NoFolder
  BY DEF NoFolder
<1>3. folderRow' = NoFolder => folderRow = NoFolder
  BY <1>0, <1>2 DEF ShareTypes
<1>4. ShareTypes'
  BY <1>0, <1>1, <1>2, <1>3 DEF ShareTypes
<1>5. NumbersMay(d, r)
  BY <1>0, DeskIs DEF NumbersMay, ShareInv, NumbersOnce
<1> QED
  BY <1>4, <1>5, ShareRests DEF Quiet

\* A step of a request that leaves the folder alone.
LEMMA FolderQuiet ==
  ASSUME ShareInv, NEW d \in Desks, NEW r, Moves(d, r), UNCHANGED <<folderRow, folderVol, folderRights, folderAcl>>,
         torn \cap {"rights", "folder"} \subseteq torn',
         desk[d].pc \notin FolderSteps, r.pc \notin FolderSteps
  PROVE  FolderInv' /\ RightsMay(d, r)
<1>1. ShareTypes /\ FolderInv
  BY DEF ShareInv
<1>2. FolderMay(d, r)
  BY DEF FolderMay, FolderSteps
<1>3. FolderInv' /\ (Leaving' <=> Leaving)
  BY <1>1, <1>2, FolderRests
<1>4. (folderRights = folderAcl => folderRights' = folderAcl') /\ desk[d].pc # "fsave"
  BY DEF FolderSteps
<1>5. torn \cap {"rights", "folder"} # {} => torn' \cap {"rights", "folder"} # {}
  OBVIOUS
<1>6. RightsMay(d, r)
  BY <1>3, <1>4, <1>5, Zenon DEF RightsMay
<1> QED
  BY <1>3, <1>6
LEMMA NumbersQuiet ==
  ASSUME ShareTypes, NEW d \in Desks, NEW r, UNCHANGED <<shareAsked, folderRow>>, share'.no \in {share.no, 0},
         r.no \in {0, desk[d].no}, r.pc \notin YetToMake
  PROVE  NumbersMay(d, r)
BY DEF NumbersMay

LEMMA CreateShareKeeps ==
  ASSUME ShareInv, NEW d \in Desks, NEW keep \in BOOLEAN, NEW users \in SUBSET Everyone, CreateShare(d, keep, users)
  PROVE  ShareInv'
<1>1. PICK r : r = [Free EXCEPT !.pc = "volume", !.no = shareAsked + 1, !.smb = keep, !.add = users \ {Owner},
                                !.drop = IF users \subseteq {Owner} THEN {} ELSE {Owner} \ users]
  BY Zenon
<1>2. r \in DeskRec /\ r.pc = "volume" /\ r.no = shareAsked + 1 /\ r.no # 0 /\ r.add \subseteq Everyone
  <2>1. shareAsked + 1 \in Nat /\ shareAsked + 1 # 0
    BY ShareNumbers DEF ShareInv
  <2>2. (IF users \subseteq {Owner} THEN {} ELSE {Owner} \ users) \subseteq Everyone
    BY DEF Everyone
  <2> QED
    BY <1>1, <2>1, <2>2, FreeIs, ZenonT(30) DEF DeskRec, ShareSteps
<1>3. DeskOK(r) /\ r.pc \in Quiet
  BY <1>2 DEF DeskOK, UserSteps, FolderSteps, Quiet
<1>4. Takes(d, r) /\ UNCHANGED <<shareRows, people, kernelShare, smbConf, folder, shareMishaps, shareHistory>>
  BY <1>1 DEF CreateShare
<1> QED
  BY <1>2, <1>3, <1>4, TakesKeeps
     DEF shareRows, people, kernelShare, folder, shareHistory, ShareInv, ShareTypes
LEMMA UpdateShareKeeps ==
  ASSUME ShareInv, NEW d \in Desks, NEW users \in SUBSET Everyone, UpdateShare(d, users)
  PROVE  ShareInv'
<1>0. ShareTypes
  BY DEF ShareInv
<1>1. PICK r : r = [Free EXCEPT !.pc = "diff", !.no = share.no, !.add = users \ grants, !.drop = grants \ users,
                                !.smb = share.smb]
  OBVIOUS
<1>2. r \in DeskRec /\ r.pc = "diff" /\ r.no = share.no /\ r.add \subseteq Everyone
  <2>1. share.smb \in BOOLEAN /\ share.no \in Nat /\ grants \subseteq Everyone
    BY <1>0 DEF ShareTypes, Rows
  <2> QED
    BY <1>1, <2>1, FreeIs DEF DeskRec, ShareSteps
<1>3. DeskOK(r) /\ r.pc \in Quiet /\ r.pc \notin YetToMake
  BY <1>2 DEF DeskOK, UserSteps, FolderSteps, Quiet, YetToMake
<1>4. Takes(d, r) /\ UNCHANGED <<shareRows, people, kernelShare, smbConf, folder, shareMishaps, shareHistory>>
  BY <1>1 DEF UpdateShare
<1> QED
  BY <1>0, <1>2, <1>3, <1>4, TakesKeeps
     DEF shareRows, people, kernelShare, folder, shareHistory, ShareTypes
LEMMA SwitchReadKeeps ==
  ASSUME ShareInv, NEW d \in Desks, NEW on \in BOOLEAN, SwitchRead(d, on)
  PROVE  ShareInv'
<1>0. ShareTypes
  BY DEF ShareInv
<1>1. PICK r : r = [Free EXCEPT !.pc = "switch", !.no = share.no, !.smb = share.smb, !.add = {on}]
  OBVIOUS
<1>2. r \in DeskRec /\ r.pc = "switch" /\ r.no = share.no
  <2>1. share.smb \in BOOLEAN /\ share.no \in Nat
    BY <1>0 DEF ShareTypes, Rows
  <2>2. {on} \in SUBSET (Everyone \cup BOOLEAN)
    BY Zenon
  <2> QED
    BY <1>1, <2>1, <2>2, FreeIs DEF DeskRec, ShareSteps
<1>3. DeskOK(r) /\ r.pc \in Quiet /\ r.pc \notin YetToMake
  BY <1>2 DEF DeskOK, UserSteps, FolderSteps, Quiet, YetToMake
<1>4. Takes(d, r) /\ UNCHANGED <<shareRows, people, kernelShare, smbConf, folder, shareMishaps, shareHistory>>
  BY <1>1 DEF SwitchRead
<1> QED
  BY <1>0, <1>2, <1>3, <1>4, TakesKeeps
     DEF shareRows, people, kernelShare, folder, shareHistory, ShareTypes
LEMMA ApplySMBKeeps ==
  ASSUME ShareInv, NEW d \in Desks, ApplySMB(d)
  PROVE  ShareInv'
<1>0. ShareTypes
  BY DEF ShareInv
<1>1. PICK r : r = [Free EXCEPT !.pc = "render"]
  OBVIOUS
<1>2. r \in DeskRec /\ r.pc = "render" /\ r.no = 0
  BY <1>1, FreeIs DEF DeskRec, ShareSteps
<1>3. DeskOK(r) /\ r.pc \notin YetToMake
  BY <1>2 DEF DeskOK, UserSteps, FolderSteps, YetToMake
<1>4. Takes(d, r) /\ UNCHANGED <<shareRows, people, kernelShare, smbConf, folder, shareMishaps, shareHistory>>
  BY <1>1 DEF ApplySMB
<1> QED
  BY <1>0, <1>2, <1>3, <1>4, TakesKeeps
     DEF shareRows, people, kernelShare, folder, shareHistory, ShareTypes
LEMMA DeleteShareKeeps ==
  ASSUME ShareInv, NEW d \in Desks, DeleteShare(d)
  PROVE  ShareInv'
<1>0. ShareTypes
  BY DEF ShareInv
<1>1. PICK r : r = [Free EXCEPT !.pc = "ungroup", !.no = share.no, !.smb = share.smb]
  OBVIOUS
<1>2. r \in DeskRec /\ r.pc = "ungroup" /\ r.no = share.no
  <2>1. share.smb \in BOOLEAN /\ share.no \in Nat
    BY <1>0 DEF ShareTypes, Rows
  <2> QED
    BY <1>1, <2>1, FreeIs DEF DeskRec, ShareSteps
<1>3. DeskOK(r) /\ r.pc \in Quiet /\ r.pc \notin YetToMake
  BY <1>2 DEF DeskOK, UserSteps, FolderSteps, Quiet, YetToMake
<1>4. Takes(d, r) /\ UNCHANGED <<shareRows, people, kernelShare, smbConf, folder, shareMishaps, shareHistory>>
  BY <1>1 DEF DeleteShare
<1> QED
  BY <1>0, <1>2, <1>3, <1>4, TakesKeeps
     DEF shareRows, people, kernelShare, folder, shareHistory, ShareTypes
LEMMA AskUserKeeps ==
  ASSUME ShareInv, NEW d \in Desks, NEW u \in Everyone, CreateUser(d, u) \/ DeleteUser(d, u)
  PROVE  ShareInv'
<1>0. ShareTypes
  BY DEF ShareInv
<1>1. PICK pc \in {"useradd", "userdel"} :
        /\ Takes(d, [Free EXCEPT !.pc = pc, !.who = u])
        /\ accounts' \in [Everyone -> {"absent", "user", "admin"}]
        /\ pc = "useradd" => u \notin grants \/ u \in unserved'
        /\ unserved \subseteq unserved'
        /\ UNCHANGED <<shareRows, unix, kernelShare, smbConf, folder, shareMishaps, strays, torn>>
  <2>1. ASSUME NEW a \in {"absent", "user"} PROVE [accounts EXCEPT ![u] = a] \in [Everyone -> {"absent", "user", "admin"}]
    BY <1>0 DEF ShareTypes
  <2>2. CASE CreateUser(d, u)
    BY <2>1, <2>2 DEF CreateUser
  <2>3. CASE DeleteUser(d, u)
    BY <2>1, <2>3 DEF DeleteUser, shareHistory
  <2> QED
    BY <2>2, <2>3
<1>2. PICK r : r = [Free EXCEPT !.pc = pc, !.who = u]
  OBVIOUS
<1>3. r \in DeskRec /\ r.pc = pc /\ r.who = u /\ r.no = 0
  BY <1>2, FreeIs DEF DeskRec, ShareSteps
<1>4. DeskOK(r) /\ r.pc \in Quiet \cup {"useradd"} /\ r.pc \notin YetToMake
  BY <1>3 DEF DeskOK, UserSteps, FolderSteps, Quiet, YetToMake
<1>5. Takes(d, r)
  BY <1>1, <1>2
<1> QED
  BY <1>0, <1>1, <1>3, <1>4, <1>5, TakesKeeps
     DEF shareRows, kernelShare, folder, ShareTypes
LEMMA AskFolderKeeps ==
  ASSUME ShareInv, NEW d \in Desks, NEW users \in SUBSET Guests,
         CreateManagedFolder(d, users) \/ UpdateManagedFolder(d, users)
  PROVE  ShareInv'
<1>0. ShareTypes /\ folderRow.id \in Nat /\ shareAsked + 1 \in Nat /\ shareAsked + 1 # 0
  BY ShareNumbers DEF ShareInv
<1>1. CASE CreateManagedFolder(d, users)
  <2>1. PICK r : r = [Free EXCEPT !.pc = "fcreate", !.no = shareAsked + 1, !.add = users]
    OBVIOUS
  <2>2. r \in DeskRec /\ r.pc = "fcreate" /\ r.no = shareAsked + 1 /\ r.add = users
    BY <1>0, <2>1, FreeIs, ZenonT(30) DEF DeskRec, ShareSteps, Everyone
  <2>3. DeskOK(r) /\ r.pc \in Quiet
    BY <1>0, <2>2 DEF DeskOK, UserSteps, FolderSteps, Quiet
  <2>4. Takes(d, r) /\ UNCHANGED <<shareRows, people, kernelShare, smbConf, folder, shareMishaps, shareHistory>>
    BY <1>1, <2>1 DEF CreateManagedFolder
  <2> QED
    BY <1>0, <2>2, <2>3, <2>4, TakesKeeps DEF shareRows, people, kernelShare, folder, shareHistory, ShareTypes
<1>2. CASE UpdateManagedFolder(d, users)
  <2>1. PICK r : r = [Free EXCEPT !.pc = "fedit", !.no = folderRow.id, !.add = users, !.drop = folderRights]
    OBVIOUS
  <2>2. r \in DeskRec /\ r.pc = "fedit" /\ r.no = folderRow.id /\ r.add = users
    <3>1. folderRights \subseteq Everyone /\ users \subseteq Everyone
      BY <1>0 DEF ShareTypes, Everyone
    <3> QED
      BY <1>0, <2>1, <3>1, FreeIs DEF DeskRec, ShareSteps
  <2>3. folderRow.id # 0
    BY <1>0, <1>2 DEF UpdateManagedFolder, ShareTypes
  <2>4. DeskOK(r) /\ r.pc \in Quiet /\ r.pc \notin YetToMake
    BY <2>2, <2>3 DEF DeskOK, UserSteps, FolderSteps, Quiet, YetToMake
  <2>5. Takes(d, r) /\ UNCHANGED <<shareRows, people, kernelShare, smbConf, folder, shareMishaps, shareHistory>>
    BY <1>2, <2>1 DEF UpdateManagedFolder
  <2> QED
    BY <1>0, <2>2, <2>4, <2>5, TakesKeeps DEF shareRows, people, kernelShare, folder, shareHistory, ShareTypes
<1> QED
  BY <1>1, <1>2
LEMMA DeleteManagedFolderKeeps ==
  ASSUME ShareInv, NEW d \in Desks, DeleteManagedFolder(d)
  PROVE  ShareInv'
<1>0. ShareTypes /\ folderRow.id \in Nat /\ folderRow.id # 0 /\ folderRow \in FolderRows
  BY ShareNumbers DEF ShareInv, DeleteManagedFolder, ShareTypes
<1>1. PICK r : r = [Free EXCEPT !.pc = "fdelete", !.no = folderRow.id]
  OBVIOUS
<1>2. r \in DeskRec /\ r.pc = "fdelete" /\ r.no = folderRow.id /\ r.add = {}
  BY <1>0, <1>1, FreeIs DEF DeskRec, ShareSteps
<1>3. DeskOK(r) /\ r.pc \in Quiet /\ r.pc \notin YetToMake
  BY <1>0, <1>2 DEF DeskOK, UserSteps, FolderSteps, Quiet, YetToMake
<1>4. folderRow' \in FolderRows /\ folderRow'.id = folderRow.id
  BY <1>0 DEF DeleteManagedFolder, FolderRows
<1>5. Takes(d, r) /\ UNCHANGED <<shareRows, people, kernelShare, smbConf, folderRights, folderVol, folderAcl, folderFull,
                                 shareMishaps, shareHistory>>
  BY <1>1 DEF DeleteManagedFolder
<1> QED
  BY <1>0, <1>2, <1>3, <1>4, <1>5, TakesKeeps DEF shareRows, people, kernelShare, shareHistory, ShareTypes

-----------------------------------------------------------------------------
\* The steps of a share that is made.
LEMMA CreateSubvolKeeps ==
  ASSUME ShareInv, NEW d \in Desks, CreateSubvolIfMissing(d)
  PROVE  ShareInv'
<1>0. ShareTypes /\ desk[d].pc = "volume" /\ desk[d].pc \in Quiet
  BY DEF ShareInv, CreateSubvolIfMissing, At, Quiet
<1>1. UNCHANGED <<shareRows, people, group, members, smbConf, folder, shareAsked, shareHistory>>
  BY DEF CreateSubvolIfMissing
<1>2. CASE /\ volume # "plain" /\ volume' = "subvol"
           /\ Goes(d, IF desk[d].smb THEN "row" ELSE "group") /\ UNCHANGED shareMishaps
  <2>1. PICK pc : pc = IF desk[d].smb THEN "row" ELSE "group"
    OBVIOUS
  <2>2. pc \in {"row", "group"} /\ pc \in ShareSteps /\ Goes(d, pc)
    BY <1>2, <2>1 DEF ShareSteps
  <2>3. PICK r \in DeskRec : desk' = [desk EXCEPT ![d] = r] /\ r.pc = pc /\ r.no = desk[d].no /\ r.add = desk[d].add
    BY <1>0, <2>2, GoesIs
  <2>4. r.no # 0 /\ r.add \subseteq Everyone
    BY <1>0, <2>3 DEF ShareInv, DeskOK
  <2>5. Moves(d, r) /\ r.pc \in Quiet /\ desk[d].pc \in YetToMake
    BY <1>0, <2>2, <2>3, <2>4 DEF Moves, DeskOK, UserSteps, FolderSteps, Quiet, YetToMake
  <2> QED
    BY <1>0, <1>1, <1>2, <2>3, <2>5, QuietKeeps DEF shareRows, people, folder, shareHistory, ShareTypes
<1>3. CASE volume # "subvol" /\ Leaves(d) /\ UNCHANGED volume /\ (ShareMishap \/ UNCHANGED shareMishaps)
  <2>1. Moves(d, Free) /\ Free.pc \in Quiet /\ Free.pc \notin YetToMake
    BY <1>3, LeavesIs, FreeIs DEF Quiet, YetToMake
  <2> QED
    BY <1>0, <1>1, <1>3, <2>1, FreeIs, QuietKeeps DEF shareRows, people, folder, shareHistory, ShareTypes
<1> QED
  BY <1>2, <1>3 DEF CreateSubvolIfMissing
LEMMA CreateGroupKeeps ==
  ASSUME ShareInv, NEW d \in Desks, CreateGroup(d)
  PROVE  ShareInv'
<1>0. ShareTypes /\ desk[d].pc = "group" /\ desk[d].pc \in Quiet /\ desk[d].pc \in YetToMake
  BY DEF ShareInv, CreateGroup, At, Quiet, YetToMake
<1>1. UNCHANGED <<shareRows, people, members, smbConf, folder, shareBounds, shareHistory>> /\ group' = TRUE
      /\ volume' = (IF volume = "none" THEN "plain" ELSE volume) /\ Goes(d, "row")
  BY DEF CreateGroup
<1>2. PICK r \in DeskRec : desk' = [desk EXCEPT ![d] = r] /\ r.pc = "row" /\ r.no = desk[d].no /\ r.add = desk[d].add
  BY <1>0, <1>1, GoesIs DEF ShareSteps
<1>3. r.no # 0 /\ r.add \subseteq Everyone
  BY <1>0, <1>2 DEF ShareInv, DeskOK
<1>4. Moves(d, r) /\ r.pc \in Quiet
  BY <1>2, <1>3 DEF Moves, DeskOK, UserSteps, FolderSteps, Quiet
<1> QED
  BY <1>0, <1>1, <1>2, <1>4, QuietKeeps DEF shareRows, people, folder, shareBounds, shareHistory, ShareTypes
LEMMA CreateRowKeeps ==
  ASSUME ShareInv, NEW d \in Desks, CreateRow(d)
  PROVE  ShareInv'
<1>0. ShareTypes /\ desk[d].pc = "row" /\ desk[d].pc \in Quiet /\ desk[d].pc \in YetToMake
  BY DEF ShareInv, CreateRow, At, Quiet, YetToMake
<1>1. UNCHANGED <<grants, people, kernelShare, smbConf, folder, shareAsked, strays, unserved>>
  BY DEF CreateRow
<1>2. CASE /\ ~Exists /\ share' = [no |-> desk[d].no, smb |-> FALSE]
           /\ desk' = [desk EXCEPT ![d].pc = "grant", ![d].smb = FALSE]
           /\ TornIf(volume # "subvol", "volume") /\ UNCHANGED shareMishaps
  <2>1. PICK r : r = [desk[d] EXCEPT !.pc = "grant", !.smb = FALSE]
    OBVIOUS
  <2>2. r \in DeskRec /\ r.pc = "grant" /\ r.no = desk[d].no /\ r.add = desk[d].add /\ desk' = [desk EXCEPT ![d] = r]
    BY <1>0, <1>2, <2>1, DeskIs, ZenonT(30) DEF DeskRec, ShareSteps
  <2>3. r.no # 0 /\ r.add \subseteq Everyone
    BY <1>0, <2>2 DEF ShareInv, DeskOK
  <2>4. Moves(d, r)
    BY <2>2, <2>3 DEF Moves, DeskOK, UserSteps, FolderSteps
  <2>5. share.no = 0 /\ share = NoShare /\ grants = {}
    BY <1>0, <1>2 DEF Exists, ShareTypes
  <2>6. share' \in Rows /\ share'.no = desk[d].no /\ share'.no # 0 /\ share'.smb = FALSE
    BY <1>0, <1>2, <2>2, <2>3, DeskIs DEF Rows
  <2>7. desk' \in [Desks -> DeskRec]
    BY <1>0, <2>4, DeskMoves
  <2>8. ShareTypes'
    BY <1>0, <1>1, <1>2, <2>5, <2>6, <2>7 DEF ShareTypes, people, kernelShare, folder
  <2>9. torn \subseteq torn' /\ (volume # "subvol" => "volume" \in torn')
    BY <1>2 DEF TornIf
  <2>10. NumbersMay(d, r) /\ JoinsMay(d, r)
    BY <1>0, <1>1, <2>2, <2>6 DEF NumbersMay, JoinsMay, YetToMake, folder
  <2>11. MembersMay(d, r) /\ GrantsMay(d, r)
    BY <1>0, <1>1, <2>2, <2>5 DEF MembersMay, GrantsMay, kernelShare
  <2>12. DataMay(d, r)
    BY <1>0, <1>1, <2>9 DEF DataMay, kernelShare
  <2>13. SmbMay(d, r)
    <3>1. SmbRight => SmbRight'
      BY <1>1, <2>5, <2>6 DEF SmbRight, NoShare
    <3> QED
      BY <1>0, <2>9, <3>1 DEF SmbMay, SmbSteps
  <2>14. FolderInv' /\ RightsMay(d, r)
    BY <1>0, <1>1, <2>2, <2>4, <2>9, FolderQuiet DEF folder, FolderSteps
  <2> QED
    BY <2>4, <2>8, <2>10, <2>11, <2>12, <2>13, <2>14, ShareMoves
<1>3. CASE Leaves(d) /\ UNCHANGED <<share, torn>> /\ (ShareMishap \/ UNCHANGED shareMishaps)
  <2>1. Moves(d, Free) /\ Free.pc \in Quiet /\ Free.pc \notin YetToMake
    BY <1>3, LeavesIs, FreeIs DEF Quiet, YetToMake
  <2> QED
    BY <1>0, <1>1, <1>3, <2>1, FreeIs, QuietKeeps DEF people, kernelShare, folder, ShareTypes
<1> QED
  BY <1>2, <1>3 DEF CreateRow
LEMMA GrantCreatorKeeps ==
  ASSUME ShareInv, NEW d \in Desks, GrantCreator(d)
  PROVE  ShareInv'
<1>0. ShareTypes /\ desk[d].pc = "grant" /\ desk[d].pc \in Quiet
  BY DEF ShareInv, GrantCreator, At, Quiet
<1>1. UNCHANGED <<share, people, kernelShare, smbConf, folder, shareAsked, shareHistory>>
  BY DEF GrantCreator
<1>2. CASE Exists /\ grants' = grants \cup {Owner} /\ Goes(d, "join") /\ UNCHANGED shareMishaps
  <2>1. PICK r \in DeskRec : desk' = [desk EXCEPT ![d] = r] /\ r.pc = "join" /\ r.no = desk[d].no /\ r.add = desk[d].add
    BY <1>0, <1>2, GoesIs DEF ShareSteps
  <2>2. r.no # 0 /\ r.add \subseteq Everyone
    BY <1>0, <2>1 DEF ShareInv, DeskOK
  <2>3. Moves(d, r)
    BY <2>1, <2>2 DEF Moves, DeskOK, UserSteps, FolderSteps
  <2>4. ShareTypes'
    <3>1. grants' \subseteq Everyone /\ share.no # 0
      BY <1>0, <1>2 DEF ShareTypes, Everyone, Exists
    <3>2. desk' \in [Desks -> DeskRec]
      BY <1>0, <2>3, DeskMoves
    <3> QED
      BY <1>0, <1>1, <1>2, <3>1, <3>2 DEF ShareTypes, people, kernelShare, folder
  <2>5. NumbersMay(d, r)
    BY <1>0, <1>1, <2>1, NumbersQuiet DEF YetToMake, folder
  <2>6. JoinsMay(d, r) /\ MembersMay(d, r)
    BY <1>0, <1>1, <1>2, <2>1 DEF JoinsMay, MembersMay, kernelShare, shareHistory
  <2>7. GrantsMay(d, r)
    BY <1>0, <1>1, <1>2, <2>1 DEF GrantsMay, kernelShare, shareHistory, people
  <2>8. DataMay(d, r)
    BY <1>0, <1>1 DEF DataMay, kernelShare, shareHistory
  <2>9. SmbMay(d, r)
    <3>1. SmbRight => SmbRight'
      BY <1>1, <1>2 DEF SmbRight
    <3> QED
      BY <1>0, <1>1, <3>1 DEF SmbMay, SmbSteps, shareHistory
  <2>10. FolderInv' /\ RightsMay(d, r)
    BY <1>0, <1>1, <2>1, <2>3, FolderQuiet DEF folder, FolderSteps, shareHistory
  <2> QED
    BY <2>3, <2>4, <2>5, <2>6, <2>7, <2>8, <2>9, <2>10, ShareMoves
<1>3. CASE Leaves(d) /\ UNCHANGED grants /\ (ShareMishap \/ UNCHANGED shareMishaps)
  <2>1. Moves(d, Free) /\ Free.pc \in Quiet /\ Free.pc \notin YetToMake
    BY <1>3, LeavesIs, FreeIs DEF Quiet, YetToMake
  <2> QED
    BY <1>0, <1>1, <1>3, <2>1, FreeIs, QuietKeeps DEF people, kernelShare, folder, shareHistory, ShareTypes
<1> QED
  BY <1>2, <1>3 DEF GrantCreator
LEMMA JoinCreatorKeeps ==
  ASSUME ShareInv, NEW d \in Desks, JoinCreator(d)
  PROVE  ShareInv'
<1>0. ShareTypes /\ desk[d].pc = "join" /\ JoinsGranted /\ "diff" \in ShareSteps
  BY DEF ShareInv, JoinCreator, At, ShareSteps
<1>1. UNCHANGED <<shareRows, people, volume, group, smbConf, folder, shareAsked, torn>>
  BY DEF JoinCreator
<1>2. ASSUME NEW r, Moves(d, r), r.pc \in {"diff", "free"}, r.no \in {0, desk[d].no},
             members \subseteq members', members' \subseteq Everyone, members' \ members \subseteq grants \cup strays',
             Owner \in members' \cup unserved', unserved \subseteq unserved', strays \subseteq strays',
             ShareMishap \/ UNCHANGED shareMishaps
      PROVE  ShareInv'
  <2>1. ShareTypes'
    <3>1. desk' \in [Desks -> DeskRec] /\ shareMishaps' \in 0..MaxShareMishaps
      BY <1>0, <1>2, DeskMoves, MishapIs
    <3> QED
      BY <1>0, <1>1, <1>2, <3>1 DEF ShareTypes, shareRows, people, folder
  <2>2. NumbersMay(d, r)
    BY <1>0, <1>1, <1>2, NumbersQuiet DEF YetToMake, shareRows, folder
  <2>3. JoinsMay(d, r) /\ MembersMay(d, r)
    BY <1>0, <1>1, <1>2 DEF JoinsMay, MembersMay, shareRows
  <2>4. GrantsMay(d, r)
    BY <1>0, <1>1, <1>2 DEF GrantsMay, shareRows, people
  <2>5. DataMay(d, r)
    BY <1>0, <1>1 DEF DataMay, shareRows
  <2>6. SmbMay(d, r)
    <3>1. SmbRight => SmbRight'
      BY <1>1 DEF SmbRight, shareRows
    <3> QED
      BY <1>0, <1>1, <3>1 DEF SmbMay, SmbSteps
  <2>7. FolderInv' /\ RightsMay(d, r)
    BY <1>0, <1>1, <1>2, FolderQuiet DEF folder, FolderSteps
  <2> QED
    BY <1>2, <2>1, <2>2, <2>3, <2>4, <2>5, <2>6, <2>7, ShareMoves
<1>3. CASE Joins(d, Owner) /\ Goes(d, "diff") /\ UNCHANGED <<unserved, shareMishaps>>
  <2>1. PICK r \in DeskRec : desk' = [desk EXCEPT ![d] = r] /\ r.pc = "diff" /\ r.no = desk[d].no /\ r.add = desk[d].add
    BY <1>0, <1>3, GoesIs
  <2>2. Moves(d, r)
    BY <1>0, <2>1 DEF Moves, DeskOK, UserSteps, FolderSteps, ShareInv
  <2>3. members' = members \cup {Owner} /\ strays \subseteq strays' /\ (Late(d) => Owner \in strays')
    BY <1>3 DEF Joins
  <2>4. ~Late(d) => Owner \in grants
    BY <1>0 DEF Late, JoinsGranted, At
  <2>5. members' \subseteq Everyone
    BY <1>0, <2>3 DEF ShareTypes, Everyone
  <2> QED
    BY <1>2, <1>3, <2>1, <2>2, <2>3, <2>4, <2>5
<1>4. CASE /\ Leaves(d) /\ unserved' = unserved \cup {Owner} /\ UNCHANGED <<members, strays>>
           /\ ShareMishap \/ UNCHANGED shareMishaps
  <2>1. Moves(d, Free)
    BY <1>4, LeavesIs
  <2>2. members' \subseteq Everyone
    BY <1>0, <1>4 DEF ShareTypes
  <2> QED
    BY <1>2, <1>4, <2>1, <2>2, FreeIs
<1> QED
  BY <1>3, <1>4 DEF JoinCreator

-----------------------------------------------------------------------------
\* The steps of permissions that change.
LEMMA RemoveUserKeeps ==
  ASSUME ShareInv, NEW d \in Desks, RemoveUser(d)
  PROVE  ShareInv'
<1>0. ShareTypes /\ desk[d].pc = "diff" /\ desk[d].pc \in Quiet
  BY DEF ShareInv, RemoveUser, At, Quiet
<1>1. UNCHANGED <<shareRows, people, kernelShare, smbConf, folder, shareBounds, shareHistory>> /\ Leaves(d)
  BY DEF RemoveUser
<1>2. Moves(d, Free) /\ Free.pc \in Quiet /\ Free.pc \notin YetToMake
  BY <1>1, LeavesIs, FreeIs DEF Quiet, YetToMake
<1> QED
  BY <1>0, <1>1, <1>2, FreeIs, QuietKeeps
     DEF shareRows, people, kernelShare, folder, shareBounds, shareHistory, ShareTypes
LEMMA AddUserKeeps ==
  ASSUME ShareInv, NEW d \in Desks, NEW u \in Everyone, AddUser(d, u)
  PROVE  ShareInv'
<1>0. ShareTypes /\ desk[d].pc = "diff" /\ desk[d].pc \in Quiet
  BY DEF ShareInv, AddUser, At, Quiet
<1>1. UNCHANGED <<shareRows, people, volume, group, smbConf, folder, shareAsked, unserved, torn>>
  BY DEF AddUser
<1>2. CASE /\ Joins(d, u) /\ UNCHANGED shareMishaps
           /\ desk' = [desk EXCEPT ![d].pc = "save", ![d].who = u, ![d].add = @ \ {u}]
  <2>1. PICK r : r = [desk[d] EXCEPT !.pc = "save", !.who = u, !.add = @ \ {u}]
    OBVIOUS
  <2>2. r \in DeskRec /\ r.pc = "save" /\ r.who = u /\ r.no = desk[d].no /\ r.add \subseteq Everyone
    <3>1. desk[d].add \ {u} \in SUBSET (Everyone \cup BOOLEAN) /\ desk[d].add \ {u} \subseteq Everyone
      BY <1>0, DeskIs DEF ShareInv, DeskOK
    <3> QED
      BY <1>0, <2>1, <3>1, DeskIs, ZenonT(30) DEF DeskRec, ShareSteps
  <2>3. desk' = [desk EXCEPT ![d] = r]
    BY <1>2, <2>1
  <2>4. Moves(d, r)
    BY <2>2, <2>3 DEF Moves, DeskOK, UserSteps, FolderSteps
  <2>5. members' = members \cup {u} /\ strays \subseteq strays'
    BY <1>2 DEF Joins
  <2>6. ShareTypes'
    <3>1. desk' \in [Desks -> DeskRec]
      BY <1>0, <2>4, DeskMoves
    <3>2. members' \subseteq Everyone
      BY <1>0, <2>5 DEF ShareTypes
    <3> QED
      BY <1>0, <1>1, <1>2, <3>1, <3>2 DEF ShareTypes, shareRows, people, folder
  <2>7. NumbersMay(d, r)
    BY <1>0, <1>1, <2>2, NumbersQuiet DEF YetToMake, shareRows, folder
  <2>8. JoinsMay(d, r) /\ MembersMay(d, r)
    BY <1>0, <1>1, <2>2, <2>5 DEF JoinsMay, MembersMay, shareRows
  <2>9. GrantsMay(d, r)
    BY <1>0, <1>1, <2>2, <2>5 DEF GrantsMay, shareRows, people
  <2>10. DataMay(d, r)
    BY <1>0, <1>1 DEF DataMay, shareRows
  <2>11. SmbMay(d, r)
    <3>1. SmbRight => SmbRight'
      BY <1>1 DEF SmbRight, shareRows
    <3> QED
      BY <1>0, <1>1, <3>1 DEF SmbMay, SmbSteps
  <2>12. FolderInv' /\ RightsMay(d, r)
    BY <1>0, <1>1, <2>2, <2>4, FolderQuiet DEF folder, FolderSteps
  <2> QED
    BY <2>4, <2>6, <2>7, <2>8, <2>9, <2>10, <2>11, <2>12, ShareMoves
<1>3. CASE Leaves(d) /\ UNCHANGED <<members, strays>> /\ (ShareMishap \/ UNCHANGED shareMishaps)
  <2>1. Moves(d, Free) /\ Free.pc \in Quiet /\ Free.pc \notin YetToMake
    BY <1>3, LeavesIs, FreeIs DEF Quiet, YetToMake
  <2> QED
    BY <1>0, <1>1, <1>3, <2>1, FreeIs, QuietKeeps DEF shareRows, people, folder, ShareTypes
<1> QED
  BY <1>2, <1>3 DEF AddUser
LEMMA SetPermissionKeeps ==
  ASSUME ShareInv, NEW d \in Desks, SetPermission(d)
  PROVE  ShareInv'
<1> PICK u : u = desk[d].who
  OBVIOUS
<1>0. ShareTypes /\ desk[d].pc = "save" /\ u \in Everyone /\ "diff" \in ShareSteps
  BY DEF ShareInv, SetPermission, At, ShareSteps, DeskOK, UserSteps
<1>1. UNCHANGED <<share, people, kernelShare, smbConf, folder, shareAsked, torn>>
  BY DEF SetPermission
<1>2. ASSUME NEW r, Moves(d, r), r.pc \in {"diff", "free"}, r.no \in {0, desk[d].no},
             grants \subseteq grants', grants' \subseteq grants \cup {u}, grants' # grants => Exists,
             u \in grants' => u \in members \cup unserved' \cup grants,
             unserved \subseteq unserved', strays \subseteq strays', u \in members => u \in grants' \cup strays',
             ShareMishap \/ UNCHANGED shareMishaps
      PROVE  ShareInv'
  <2>1. ShareTypes'
    <3>1. desk' \in [Desks -> DeskRec] /\ shareMishaps' \in 0..MaxShareMishaps
      BY <1>0, <1>2, DeskMoves, MishapIs
    <3>2. grants' \subseteq Everyone /\ (share.no = 0 => grants' = {})
      BY <1>0, <1>2 DEF ShareTypes, Exists
    <3> QED
      BY <1>0, <1>1, <1>2, <3>1, <3>2 DEF ShareTypes, people, kernelShare, folder
  <2>2. NumbersMay(d, r)
    BY <1>0, <1>1, <1>2, NumbersQuiet DEF YetToMake, folder
  <2>3. JoinsMay(d, r) /\ MembersMay(d, r)
    BY <1>0, <1>1, <1>2 DEF JoinsMay, MembersMay, kernelShare
  <2>4. GrantsMay(d, r)
    BY <1>0, <1>1, <1>2 DEF GrantsMay, kernelShare, people
  <2>5. DataMay(d, r)
    BY <1>0, <1>1 DEF DataMay, kernelShare
  <2>6. SmbMay(d, r)
    <3>1. SmbRight => SmbRight'
      BY <1>1, <1>2 DEF SmbRight
    <3> QED
      BY <1>0, <1>1, <3>1 DEF SmbMay, SmbSteps
  <2>7. FolderInv' /\ RightsMay(d, r)
    BY <1>0, <1>1, <1>2, FolderQuiet DEF folder, FolderSteps
  <2> QED
    BY <1>2, <2>1, <2>2, <2>3, <2>4, <2>5, <2>6, <2>7, ShareMoves
<1>3. CASE /\ Exists /\ grants' = grants \cup {u} /\ Goes(d, "diff")
           /\ unserved' = (IF u \in members THEN unserved ELSE unserved \cup {u}) /\ UNCHANGED <<strays, shareMishaps>>
  <2>1. PICK r \in DeskRec : desk' = [desk EXCEPT ![d] = r] /\ r.pc = "diff" /\ r.no = desk[d].no /\ r.add = desk[d].add
    BY <1>0, <1>3, GoesIs
  <2>2. Moves(d, r)
    BY <1>0, <2>1 DEF Moves, DeskOK, UserSteps, FolderSteps, ShareInv
  <2> QED
    BY <1>2, <1>3, <2>1, <2>2
<1>4. CASE /\ Leaves(d) /\ strays' = strays \cup ({u} \cap members) /\ UNCHANGED <<grants, unserved>>
           /\ ShareMishap \/ UNCHANGED shareMishaps
  <2>1. Moves(d, Free)
    BY <1>4, LeavesIs
  <2> QED
    BY <1>2, <1>4, <2>1, FreeIs
<1> QED
  BY <1>3, <1>4 DEF SetPermission

\* A step that ends with a look at smb.conf, or goes on to it.
LEMMA SmbEnds ==
  ASSUME ShareInv, NEW d \in Desks, NEW r, Moves(d, r), desk[d].pc \in {"diff", "switch"} \cup SmbSteps,
         r.pc \in {"free"} \cup SmbSteps, r.no \in {0, desk[d].no},
         UNCHANGED <<grants, people, kernelShare, folder, shareAsked, strays, unserved>>,
         share' \in Rows, share'.no = share.no, share.no = 0 => share' = share, smbConf' \in Listing,
         SmbRight' \/ "smb" \in torn' \/ r.pc \in SmbSteps, torn \ {"smb"} \subseteq torn',
         ShareMishap \/ UNCHANGED shareMishaps
  PROVE  ShareInv'
<1>0. ShareTypes /\ desk[d].pc \notin {"join", "save", "destroy", "unrow", "fsave"} \cup FolderSteps
      /\ r.pc \notin {"join", "useradd", "smbpasswd"} \cup FolderSteps \cup YetToMake
  BY DEF ShareInv, SmbSteps, FolderSteps, YetToMake
<1>1. ShareTypes'
  <2>1. desk' \in [Desks -> DeskRec] /\ shareMishaps' \in 0..MaxShareMishaps
    BY <1>0, DeskMoves, MishapIs
  <2> QED
    BY <1>0, <2>1 DEF ShareTypes, people, kernelShare, folder
<1>2. NumbersMay(d, r)
  BY <1>0, NumbersQuiet DEF folder
<1>3. JoinsMay(d, r) /\ MembersMay(d, r)
  BY <1>0 DEF JoinsMay, MembersMay, kernelShare
<1>4. GrantsMay(d, r)
  BY <1>0 DEF GrantsMay, kernelShare, people
<1>5. DataMay(d, r)
  BY <1>0 DEF DataMay, kernelShare
<1>6. SmbMay(d, r)
  BY DEF SmbMay
<1>7. FolderInv' /\ RightsMay(d, r)
  BY <1>0, FolderQuiet DEF folder
<1> QED
  BY <1>1, <1>2, <1>3, <1>4, <1>5, <1>6, <1>7, ShareMoves
LEMMA SmbNotedIs == ASSUME SmbNoted PROVE (SmbRight' \/ "smb" \in torn') /\ torn \ {"smb"} \subseteq torn'
BY DEF SmbNoted
LEMMA SmbFailsIs ==
  ASSUME ShareTypes, NEW d \in Desks, SmbFails(d)
  PROVE  \E r : Moves(d, r) /\ r.pc \in {"free", "rollback"} /\ r.no \in {0, desk[d].no}
<1>1. CASE Leaves(d)
  BY <1>1, LeavesIs, FreeIs
<1>2. CASE Goes(d, "rollback")
  <2>1. PICK r \in DeskRec : desk' = [desk EXCEPT ![d] = r] /\ r.pc = "rollback" /\ r.no = desk[d].no
    BY <1>2, GoesIs DEF ShareSteps
  <2>2. Moves(d, r)
    BY <2>1 DEF Moves, DeskOK, UserSteps, FolderSteps
  <2> QED
    BY <2>1, <2>2
<1> QED
  BY <1>1, <1>2 DEF SmbFails

LEMMA PermissionsDoneKeeps ==
  ASSUME ShareInv, NEW d \in Desks, PermissionsDone(d)
  PROVE  ShareInv'
<1>0. ShareTypes /\ desk[d].pc = "diff" /\ share \in Rows /\ smbConf \in Listing
  BY DEF ShareInv, PermissionsDone, At, ShareTypes
<1>1. UNCHANGED <<shareRows, people, kernelShare, smbConf, folder, shareBounds, strays, unserved>>
  BY DEF PermissionsDone
<1>2. CASE Goes(d, "render") /\ UNCHANGED torn
  <2>1. PICK r \in DeskRec : desk' = [desk EXCEPT ![d] = r] /\ r.pc = "render" /\ r.no = desk[d].no
    BY <1>0, <1>2, GoesIs DEF ShareSteps
  <2>2. Moves(d, r) /\ r.pc \in SmbSteps
    BY <2>1 DEF Moves, DeskOK, UserSteps, FolderSteps, SmbSteps
  <2> QED
    BY <1>0, <1>1, <1>2, <2>1, <2>2, SmbEnds DEF shareRows, shareBounds
<1>3. CASE Leaves(d) /\ SmbNoted
  <2>1. Moves(d, Free)
    BY <1>3, LeavesIs
  <2> QED
    BY <1>0, <1>1, <1>3, <2>1, FreeIs, SmbNotedIs, SmbEnds DEF shareRows, shareBounds
<1> QED
  BY <1>2, <1>3 DEF PermissionsDone
LEMMA SetSMBEnabledKeeps ==
  ASSUME ShareInv, NEW d \in Desks, SetSMBEnabled(d)
  PROVE  ShareInv'
<1>0. ShareTypes /\ desk[d].pc = "switch" /\ desk[d].pc \in Quiet
  BY DEF ShareInv, SetSMBEnabled, At, Quiet
<1>1. UNCHANGED <<grants, people, kernelShare, smbConf, folder, shareBounds, shareHistory>>
  BY DEF SetSMBEnabled
<1>2. CASE /\ Exists /\ share' = [share EXCEPT !.smb = TRUE \in desk[d].add]
           /\ desk' = [desk EXCEPT ![d].pc = "render", ![d].who = "switch"]
  <2>1. PICK r : r = [desk[d] EXCEPT !.pc = "render", !.who = "switch"]
    OBVIOUS
  <2>2. r \in DeskRec /\ r.pc = "render" /\ r.no = desk[d].no /\ desk' = [desk EXCEPT ![d] = r]
    BY <1>0, <1>2, <2>1, DeskIs, ZenonT(30) DEF DeskRec, ShareSteps
  <2>3. Moves(d, r) /\ r.pc \in SmbSteps
    BY <2>2 DEF Moves, DeskOK, UserSteps, FolderSteps, SmbSteps
  <2>4. PICK b \in BOOLEAN : share' = [share EXCEPT !.smb = b]
    <3>1. (TRUE \in desk[d].add) \in BOOLEAN
      BY SMT
    <3> QED
      BY <1>2, <3>1, Zenon
  <2>5. share' \in Rows /\ share'.no = share.no /\ share.no # 0 /\ smbConf \in Listing
    BY <1>0, <1>2, <2>4 DEF ShareTypes, Rows, Exists
  <2> QED
    BY <1>0, <1>1, <2>2, <2>3, <2>5, SmbEnds DEF shareBounds, shareHistory
<1>3. CASE Leaves(d) /\ UNCHANGED share
  <2>1. Moves(d, Free) /\ Free.pc \in Quiet /\ Free.pc \notin YetToMake
    BY <1>3, LeavesIs, FreeIs DEF Quiet, YetToMake
  <2> QED
    BY <1>0, <1>1, <1>3, <2>1, FreeIs, QuietKeeps DEF people, kernelShare, folder, shareBounds, shareHistory, ShareTypes
<1> QED
  BY <1>2, <1>3 DEF SetSMBEnabled
LEMMA RenderSMBKeeps ==
  ASSUME ShareInv, NEW d \in Desks, RenderSMB(d)
  PROVE  ShareInv'
<1>0. ShareTypes /\ desk[d].pc = "render" /\ desk[d].pc \in SmbSteps /\ share \in Rows /\ smbConf \in Listing
  BY DEF ShareInv, RenderSMB, At, ShareTypes, SmbSteps
<1>1. UNCHANGED <<shareRows, people, kernelShare, smbConf, folder, shareBounds, strays, unserved>>
  BY DEF RenderSMB
<1>2. CASE SmbFails(d) /\ SmbNoted
  <2>1. PICK r : Moves(d, r) /\ r.pc \in {"free", "rollback"} /\ r.no \in {0, desk[d].no}
    BY <1>0, <1>2, SmbFailsIs
  <2>2. r.pc \in {"free"} \cup SmbSteps
    BY <2>1 DEF SmbSteps
  <2> QED
    BY <1>0, <1>1, <1>2, <2>1, <2>2, SmbNotedIs, SmbEnds DEF shareRows, shareBounds
<1>3. CASE /\ desk' = [desk EXCEPT ![d].pc = "install", ![d].old = smbConf,
                                   ![d].view = IF share.smb THEN grants ELSE Unlisted]
           /\ UNCHANGED torn
  <2>1. PICK v : v = IF share.smb THEN grants ELSE Unlisted
    OBVIOUS
  <2>2. v \in Listing
    BY <1>0, <2>1 DEF Listing, ShareTypes
  <2>3. PICK r : r = [desk[d] EXCEPT !.pc = "install", !.old = smbConf, !.view = v]
    OBVIOUS
  <2>4. r \in DeskRec /\ r.pc = "install" /\ r.no = desk[d].no
    BY <1>0, <2>2, <2>3, DeskIs, ZenonT(30) DEF DeskRec, ShareSteps
  <2>5. desk' = [desk EXCEPT ![d] = r]
    BY <1>3, <2>1, <2>3
  <2>6. Moves(d, r) /\ r.pc \in SmbSteps
    BY <2>4, <2>5 DEF Moves, DeskOK, UserSteps, FolderSteps, SmbSteps
  <2> QED
    BY <1>0, <1>1, <1>3, <2>4, <2>6, SmbEnds DEF shareRows, shareBounds
<1> QED
  BY <1>2, <1>3 DEF RenderSMB
LEMMA InstallSMBKeeps ==
  ASSUME ShareInv, NEW d \in Desks, InstallSMB(d)
  PROVE  ShareInv'
<1>0. ShareTypes /\ desk[d].pc = "install" /\ desk[d].pc \in SmbSteps /\ share \in Rows
  BY DEF ShareInv, InstallSMB, At, ShareTypes, SmbSteps
<1>1. UNCHANGED <<shareRows, people, kernelShare, folder, shareAsked, strays, unserved>> /\ SmbNoted
  BY DEF InstallSMB
<1>2. {desk[d].view, desk[d].old, smbConf} \subseteq Listing
  BY <1>0, DeskIs DEF ShareTypes
<1>3. PICK r : Moves(d, r) /\ r.pc \in {"free", "rollback"} /\ r.no \in {0, desk[d].no}
  <2>1. CASE Leaves(d)
    BY <2>1, LeavesIs, FreeIs
  <2>2. CASE SmbFails(d)
    BY <1>0, <2>2, SmbFailsIs
  <2> QED
    BY <2>1, <2>2 DEF InstallSMB
<1>4. smbConf' \in Listing /\ (ShareMishap \/ UNCHANGED shareMishaps)
  BY <1>2 DEF InstallSMB
<1>5. r.pc \in {"free"} \cup SmbSteps
  BY <1>3 DEF SmbSteps
<1> QED
  BY <1>0, <1>1, <1>3, <1>4, <1>5, SmbNotedIs, SmbEnds DEF shareRows
LEMMA RollbackSwitchKeeps ==
  ASSUME ShareInv, NEW d \in Desks, RollbackSwitch(d)
  PROVE  ShareInv'
<1>0. ShareTypes /\ desk[d].pc = "rollback" /\ desk[d].pc \in SmbSteps /\ smbConf \in Listing /\ share \in Rows
  BY DEF ShareInv, RollbackSwitch, At, ShareTypes, SmbSteps
<1>1. UNCHANGED <<grants, people, kernelShare, smbConf, folder, shareBounds, strays, unserved>> /\ SmbNoted /\ Leaves(d)
  BY DEF RollbackSwitch
<1>2. Moves(d, Free)
  BY <1>1, LeavesIs
<1>3. share' \in Rows /\ share'.no = share.no /\ (share.no = 0 => share' = share)
  <2>1. PICK b : b = desk[d].smb
    OBVIOUS
  <2>2. b \in BOOLEAN
    BY <1>0, <2>1, DeskIs
  <2>3. share' = share \/ (share.no # 0 /\ share' = [share EXCEPT !.smb = b])
    BY <2>1 DEF RollbackSwitch, Exists
  <2> QED
    BY <1>0, <2>2, <2>3 DEF Rows
<1> QED
  BY <1>0, <1>1, <1>2, <1>3, FreeIs, SmbNotedIs, SmbEnds DEF shareBounds

-----------------------------------------------------------------------------
\* The steps of a share that is deleted.
LEMMA DeleteGroupKeeps ==
  ASSUME ShareInv, NEW d \in Desks, DeleteGroup(d)
  PROVE  ShareInv'
<1>0. ShareTypes /\ desk[d].pc = "ungroup"
  BY DEF ShareInv, DeleteGroup, At
<1>1. /\ UNCHANGED <<shareRows, people, volume, smbConf, folder, shareBounds, unserved, torn>>
      /\ group' = FALSE /\ members' = {} /\ strays' = {} /\ Goes(d, "destroy")
  BY DEF DeleteGroup
<1>2. PICK r \in DeskRec : desk' = [desk EXCEPT ![d] = r] /\ r.pc = "destroy" /\ r.no = desk[d].no
  BY <1>0, <1>1, GoesIs DEF ShareSteps
<1>3. Moves(d, r)
  BY <1>2 DEF Moves, DeskOK, UserSteps, FolderSteps
<1>4. ShareTypes'
  <2>1. desk' \in [Desks -> DeskRec]
    BY <1>0, <1>3, DeskMoves
  <2> QED
    BY <1>0, <1>1, <2>1 DEF ShareTypes, shareRows, people, folder, shareBounds
<1>5. NumbersMay(d, r)
  BY <1>0, <1>1, <1>2, NumbersQuiet DEF YetToMake, shareRows, folder, shareBounds
<1>6. JoinsMay(d, r) /\ MembersMay(d, r) /\ GrantsMay(d, r)
  BY <1>0, <1>1, <1>2 DEF JoinsMay, MembersMay, GrantsMay, shareRows
<1>7. DataMay(d, r)
  BY <1>0, <1>1 DEF DataMay, shareRows
<1>8. SmbMay(d, r)
  <2>1. SmbRight => SmbRight'
    BY <1>1 DEF SmbRight, shareRows
  <2> QED
    BY <1>0, <1>1, <2>1 DEF SmbMay, SmbSteps
<1>9. FolderInv' /\ RightsMay(d, r)
  BY <1>0, <1>1, <1>2, <1>3, FolderQuiet DEF folder, FolderSteps
<1> QED
  BY <1>3, <1>4, <1>5, <1>6, <1>7, <1>8, <1>9, ShareMoves
LEMMA DestroySubvolKeeps ==
  ASSUME ShareInv, NEW d \in Desks, DestroySubvol(d)
  PROVE  ShareInv'
<1>0. ShareTypes /\ desk[d].pc = "destroy"
  BY DEF ShareInv, DestroySubvol, At
<1>1. /\ UNCHANGED <<shareRows, people, group, members, smbConf, folder, shareAsked, shareHistory>> /\ Goes(d, "unrow")
      /\ ShareMishap \/ UNCHANGED shareMishaps
      /\ volume' \in {"none", volume}
  BY DEF DestroySubvol
<1>2. PICK r \in DeskRec : desk' = [desk EXCEPT ![d] = r] /\ r.pc = "unrow" /\ r.no = desk[d].no
  BY <1>0, <1>1, GoesIs DEF ShareSteps
<1>3. Moves(d, r)
  BY <1>2 DEF Moves, DeskOK, UserSteps, FolderSteps
<1>4. ShareTypes'
  <2>1. desk' \in [Desks -> DeskRec] /\ shareMishaps' \in 0..MaxShareMishaps
    BY <1>0, <1>1, <1>3, DeskMoves, MishapIs
  <2> QED
    BY <1>0, <1>1, <2>1 DEF ShareTypes, shareRows, people, folder
<1>5. NumbersMay(d, r)
  BY <1>0, <1>1, <1>2, NumbersQuiet DEF YetToMake, shareRows, folder
<1>6. JoinsMay(d, r) /\ MembersMay(d, r) /\ GrantsMay(d, r)
  BY <1>0, <1>1, <1>2 DEF JoinsMay, MembersMay, GrantsMay, shareRows, shareHistory
<1>7. DataMay(d, r)
  BY <1>2 DEF DataMay
<1>8. SmbMay(d, r)
  <2>1. SmbRight => SmbRight'
    BY <1>1 DEF SmbRight, shareRows
  <2> QED
    BY <1>0, <1>1, <2>1 DEF SmbMay, SmbSteps, shareHistory
<1>9. FolderInv' /\ RightsMay(d, r)
  BY <1>0, <1>1, <1>2, <1>3, FolderQuiet DEF folder, FolderSteps, shareHistory
<1> QED
  BY <1>3, <1>4, <1>5, <1>6, <1>7, <1>8, <1>9, ShareMoves
LEMMA DeleteRowKeeps ==
  ASSUME ShareInv, NEW d \in Desks, DeleteRow(d)
  PROVE  ShareInv'
<1>0. ShareTypes /\ desk[d].pc = "unrow" /\ "render" \in ShareSteps
  BY DEF ShareInv, DeleteRow, At, ShareSteps
<1>1. UNCHANGED <<people, kernelShare, smbConf, folderVol, folderAcl, folderFull, shareAsked>>
  BY DEF DeleteRow
<1>2. CASE /\ share' = NoShare /\ grants' = {} /\ CascadeFolder
           /\ IF desk[d].smb THEN Goes(d, "render") ELSE Leaves(d)
           /\ torn' = torn \cup {f \in {"folder"} : folderVol} \cup {f \in {"smb"} : ~desk[d].smb /\ ~SmbRight'}
           /\ unserved' = {} /\ strays' = members /\ UNCHANGED shareMishaps
  <2>1. PICK r : Moves(d, r) /\ r.no \in {0, desk[d].no} /\ r.pc \in {"free", "render"} /\ (desk[d].smb => r.pc = "render")
    <3>1. CASE desk[d].smb
      <4>1. PICK r \in DeskRec : desk' = [desk EXCEPT ![d] = r] /\ r.pc = "render" /\ r.no = desk[d].no
        BY <1>0, <1>2, <3>1, GoesIs
      <4>2. Moves(d, r)
        BY <4>1 DEF Moves, DeskOK, UserSteps, FolderSteps
      <4> QED
        BY <4>1, <4>2
    <3>2. CASE ~desk[d].smb
      <4>1. Moves(d, Free)
        BY <1>2, <3>2, LeavesIs
      <4> QED
        BY <3>2, <4>1, FreeIs
    <3> QED
      BY <3>1, <3>2
  <2>2. share' = NoShare /\ share'.no = 0 /\ share' \in Rows /\ grants' = {}
    BY <1>2 DEF NoShare, Rows
  <2>3. folderRow' = NoFolder /\ folderRow'.id = 0 /\ folderRow' \in FolderRows /\ folderRights' = {}
    BY <1>2 DEF CascadeFolder, NoFolder, FolderRows
  <2>4. ShareTypes'
    <3>1. desk' \in [Desks -> DeskRec]
      BY <1>0, <2>1, DeskMoves
    <3> QED
      BY <1>0, <1>1, <1>2, <2>2, <2>3, <3>1 DEF ShareTypes, people, kernelShare
  <2>5. torn \subseteq torn' /\ (folderVol => "folder" \in torn')
    BY <1>2
  <2>6. SmbMay(d, r)
    <3>1. CASE desk[d].smb
      BY <2>1, <3>1 DEF SmbMay, SmbSteps
    <3>2. CASE ~desk[d].smb
      <4>1. ASSUME ~SmbRight' PROVE "smb" \in torn'
        BY <1>2, <3>2, <4>1
      <4> QED
        BY <4>1 DEF SmbMay
    <3> QED
      BY <3>1, <3>2
  <2>7. NumbersMay(d, r)
    BY <1>0, <1>1, <2>1, <2>2, <2>3 DEF NumbersMay, YetToMake
  <2>8. JoinsMay(d, r) /\ MembersMay(d, r) /\ GrantsMay(d, r) /\ DataMay(d, r)
    BY <1>0, <1>1, <1>2, <2>1, <2>2 DEF JoinsMay, MembersMay, GrantsMay, DataMay, kernelShare
  <2>9. Leaving'
    BY <2>3 DEF Leaving
  <2>10. RightsMay(d, r)
    BY <2>9 DEF RightsMay
  <2>11. FolderInv'
    <3> SUFFICES ASSUME "folder" \notin torn' PROVE FolderInv'
      BY DEF FolderInv
    <3>1. ~folderVol /\ "folder" \notin torn
      BY <2>5
    <3>2. Making = {}
      BY <3>1 DEF ShareInv, FolderInv
    <3>3. Making' = {}
      BY <1>0, <2>1, <3>2, DeskMoves DEF Making
    <3>4. ~folderVol'
      BY <1>1, <3>1
    <3> QED
      BY <2>9, <3>3, <3>4 DEF FolderInv
  <2> QED
    BY <2>1, <2>4, <2>6, <2>7, <2>8, <2>10, <2>11, ShareMoves
<1>3. CASE /\ ShareMishap /\ Leaves(d) /\ UNCHANGED <<shareRows, folderRow, folderRights>>
           /\ unserved' = unserved \cup grants /\ torn' = torn \cup {"volume"} /\ UNCHANGED strays
  <2>1. Moves(d, Free) /\ Free.pc \notin YetToMake /\ Free.pc \notin FolderSteps
    BY <1>3, LeavesIs, FreeIs DEF YetToMake, FolderSteps
  <2>2. ShareTypes'
    <3>1. desk' \in [Desks -> DeskRec] /\ shareMishaps' \in 0..MaxShareMishaps
      BY <1>0, <1>3, <2>1, DeskMoves, MishapIs
    <3> QED
      BY <1>0, <1>1, <1>3, <3>1 DEF ShareTypes, people, kernelShare, shareRows
  <2>3. NumbersMay(d, Free)
    BY <1>0, <1>1, <1>3, <2>1, FreeIs, NumbersQuiet DEF shareRows
  <2>4. JoinsMay(d, Free) /\ MembersMay(d, Free) /\ GrantsMay(d, Free) /\ DataMay(d, Free)
    BY <1>0, <1>1, <1>3, FreeIs DEF JoinsMay, MembersMay, GrantsMay, DataMay, kernelShare, shareRows
  <2>5. SmbMay(d, Free)
    <3>1. SmbRight => SmbRight'
      BY <1>1, <1>3 DEF SmbRight, shareRows
    <3> QED
      BY <1>0, <1>3, <3>1 DEF SmbMay, SmbSteps
  <2>6. FolderInv' /\ RightsMay(d, Free)
    BY <1>0, <1>1, <1>3, <2>1, FolderQuiet DEF FolderSteps
  <2> QED
    BY <2>1, <2>2, <2>3, <2>4, <2>5, <2>6, ShareMoves
<1> QED
  BY <1>2, <1>3 DEF DeleteRow

-----------------------------------------------------------------------------
\* The steps of users who are made and deleted.
LEMMA UserMoves ==
  ASSUME ShareInv, NEW d \in Desks, NEW r, Moves(d, r), desk[d].pc \in {"useradd", "smbpasswd", "userdel"},
         r.pc \in {"free", "smbpasswd"}, r.no \in {0, desk[d].no}, NEW u, u = desk[d].who,
         UNCHANGED <<shareRows, volume, group, smbConf, folder, shareAsked, torn>>,
         ShareMishap \/ UNCHANGED shareMishaps, accounts' \in [Everyone -> {"absent", "user", "admin"}],
         unix' \subseteq unix \cup {u}, u \in unix' /\ u \notin unix => desk[d].pc # "userdel",
         members' \subseteq members, members \ {u} \subseteq members', strays \cap members' \subseteq strays',
         unserved \subseteq unserved', u \in grants /\ u \in members => u \in members' \cup unserved',
         r.pc = "smbpasswd" => r.who = u /\ desk[d].pc # "userdel"
  PROVE  ShareInv'
<1>0. ShareTypes /\ u \in Everyone
  BY DEF ShareInv, DeskOK, UserSteps
<1>1. ShareTypes'
  <2>1. desk' \in [Desks -> DeskRec] /\ shareMishaps' \in 0..MaxShareMishaps
    BY <1>0, DeskMoves, MishapIs
  <2>2. unix' \subseteq Everyone /\ members' \subseteq Everyone
    BY <1>0 DEF ShareTypes
  <2> QED
    BY <1>0, <2>1, <2>2 DEF ShareTypes, shareRows, folder
<1>2. NumbersMay(d, r)
  BY <1>0, NumbersQuiet DEF YetToMake, shareRows, folder
<1>3. JoinsMay(d, r) /\ MembersMay(d, r)
  BY DEF JoinsMay, MembersMay, shareRows
<1>4. GrantsMay(d, r)
  BY DEF GrantsMay, shareRows
<1>5. DataMay(d, r)
  BY DEF DataMay, shareRows
<1>6. SmbMay(d, r)
  <2>1. SmbRight => SmbRight'
    BY DEF SmbRight, shareRows
  <2> QED
    BY <2>1 DEF SmbMay, SmbSteps
<1>7. FolderInv' /\ RightsMay(d, r)
  BY FolderQuiet DEF folder, FolderSteps
<1> QED
  BY <1>1, <1>2, <1>3, <1>4, <1>5, <1>6, <1>7, ShareMoves
LEMMA CreateUnixUserKeeps ==
  ASSUME ShareInv, NEW d \in Desks, CreateUnixUser(d)
  PROVE  ShareInv'
<1> PICK u : u = desk[d].who
  OBVIOUS
<1>0. ShareTypes /\ desk[d].pc = "useradd" /\ u \in Everyone
  BY DEF ShareInv, CreateUnixUser, At, DeskOK, UserSteps
<1>1. UNCHANGED <<shareRows, kernelShare, smbConf, folder, shareAsked, shareHistory>>
  BY DEF CreateUnixUser
<1>2. CASE /\ unix' = unix \cup {u} /\ UNCHANGED <<accounts, shareMishaps>>
           /\ desk' = [desk EXCEPT ![d].pc = "smbpasswd", ![d].smb = u \in unix]
  <2>1. PICK b : b = (u \in unix)
    OBVIOUS
  <2>2. b \in BOOLEAN
    BY <2>1, SMT
  <2>3. PICK r : r = [desk[d] EXCEPT !.pc = "smbpasswd", !.smb = b]
    OBVIOUS
  <2>4. r \in DeskRec /\ r.pc = "smbpasswd" /\ r.who = u /\ r.no = desk[d].no
    BY <1>0, <2>2, <2>3, DeskIs, ZenonT(30) DEF DeskRec, ShareSteps
  <2>5. desk' = [desk EXCEPT ![d] = r]
    BY <1>2, <2>1, <2>3, Zenon
  <2>6. Moves(d, r)
    BY <1>0, <2>4, <2>5 DEF Moves, DeskOK, UserSteps, FolderSteps
  <2> QED
    BY <1>0, <1>1, <1>2, <2>4, <2>6, UserMoves DEF kernelShare, shareHistory, ShareTypes
<1>3. CASE ShareMishap /\ Leaves(d) /\ accounts' = [accounts EXCEPT ![u] = "absent"] /\ UNCHANGED unix
  <2>1. Moves(d, Free)
    BY <1>3, LeavesIs
  <2>2. accounts' \in [Everyone -> {"absent", "user", "admin"}]
    BY <1>0, <1>3 DEF ShareTypes
  <2> QED
    BY <1>0, <1>1, <1>3, <2>1, <2>2, FreeIs, UserMoves DEF kernelShare, shareHistory
<1> QED
  BY <1>2, <1>3 DEF CreateUnixUser
LEMMA SetSmbPasswordKeeps ==
  ASSUME ShareInv, NEW d \in Desks, SetSmbPassword(d)
  PROVE  ShareInv'
<1> PICK u : u = desk[d].who
  OBVIOUS
<1>0. ShareTypes /\ desk[d].pc = "smbpasswd" /\ u \in Everyone
  BY DEF ShareInv, SetSmbPassword, At, DeskOK, UserSteps
<1>1. UNCHANGED <<shareRows, volume, group, smbConf, folder, shareAsked, torn>> /\ Leaves(d) /\ Moves(d, Free)
  BY LeavesIs DEF SetSmbPassword
<1>2. CASE /\ unix' = unix \cup {u} /\ unserved' = unserved \cup (({u} \cap grants) \ members)
           /\ UNCHANGED <<accounts, members, shareMishaps, strays>>
  BY <1>0, <1>1, <1>2, FreeIs, UserMoves DEF ShareTypes
<1>3. CASE /\ ShareMishap /\ accounts' = [accounts EXCEPT ![u] = "absent"]
           /\ unix' = unix \cup {u} /\ UNCHANGED <<members, strays, unserved>>
  <2>1. accounts' \in [Everyone -> {"absent", "user", "admin"}]
    BY <1>0, <1>3 DEF ShareTypes
  <2> QED
    BY <1>0, <1>1, <1>3, <2>1, FreeIs, UserMoves
<1>4. CASE ShareMishap /\ accounts' = [accounts EXCEPT ![u] = "absent"] /\ Evicted(u)
  <2>1. accounts' \in [Everyone -> {"absent", "user", "admin"}]
    BY <1>0, <1>4 DEF ShareTypes
  <2> QED
    BY <1>0, <1>1, <1>4, <2>1, FreeIs, UserMoves DEF Evicted
<1> QED
  BY <1>2, <1>3, <1>4 DEF SetSmbPassword
LEMMA DeleteUnixUserKeeps ==
  ASSUME ShareInv, NEW d \in Desks, DeleteUnixUser(d)
  PROVE  ShareInv'
<1> PICK u : u = desk[d].who
  OBVIOUS
<1>0. ShareTypes /\ desk[d].pc = "userdel" /\ u \in Everyone
  BY DEF ShareInv, DeleteUnixUser, At, DeskOK, UserSteps
<1>1. /\ UNCHANGED <<shareRows, accounts, volume, group, smbConf, folder, shareBounds, torn>>
      /\ Moves(d, Free) /\ Evicted(u)
  BY LeavesIs DEF DeleteUnixUser
<1> QED
  BY <1>0, <1>1, FreeIs, UserMoves DEF Evicted, shareBounds, ShareTypes

-----------------------------------------------------------------------------
\* The steps of managed folders.
FolderTyped ==
  /\ folderRow \in FolderRows /\ (folderRow.id = 0 <=> folderRow = NoFolder)
  /\ (folderRow = NoFolder => folderRights = {}) /\ folderRights \subseteq Guests /\ folderAcl \subseteq Guests
  /\ folderVol \in BOOLEAN /\ folderFull \in BOOLEAN
LEMMA FolderMoves ==
  ASSUME ShareInv, NEW d \in Desks, NEW r, Moves(d, r), desk[d].pc \in FolderSteps, r.pc \in FolderSteps \cup {"free"},
         UNCHANGED <<shareRows, people, kernelShare, smbConf, shareAsked, strays, unserved>>,
         ShareMishap \/ UNCHANGED shareMishaps, FolderTyped', torn \subseteq torn',
         folderRow'.id \in {folderRow.id, 0, desk[d].no}, r.no \in {0, desk[d].no},
         r.pc \in YetToMake => r.no = desk[d].no /\ desk[d].pc \in YetToMake /\ folderRow'.id = folderRow.id,
         FolderInv', RightsMay(d, r)
  PROVE  ShareInv'
<1>0. ShareTypes
  BY DEF ShareInv
<1>1. ShareTypes'
  <2>1. desk' \in [Desks -> DeskRec] /\ shareMishaps' \in 0..MaxShareMishaps
    BY <1>0, DeskMoves, MishapIs
  <2> QED
    BY <1>0, <2>1 DEF ShareTypes, FolderTyped, shareRows, people, kernelShare
<1>2. NumbersMay(d, r)
  BY DEF NumbersMay, shareRows, ShareInv, NumbersOnce
<1>3. JoinsMay(d, r) /\ MembersMay(d, r) /\ GrantsMay(d, r)
  BY DEF JoinsMay, MembersMay, GrantsMay, shareRows, kernelShare, people, FolderSteps
<1>4. DataMay(d, r)
  BY DEF DataMay, shareRows, kernelShare, FolderSteps
<1>5. SmbMay(d, r)
  <2>1. SmbRight => SmbRight'
    BY DEF SmbRight, shareRows
  <2> QED
    BY <2>1 DEF SmbMay, SmbSteps, FolderSteps
<1> QED
  BY <1>1, <1>2, <1>3, <1>4, <1>5, ShareMoves
LEMMA FolderTypes == ASSUME ShareInv PROVE FolderTyped /\ ShareTypes
BY DEF ShareInv, ShareTypes, FolderTyped
LEMMA RequestGoesOn ==
  ASSUME ShareInv, NEW d \in Desks, desk[d].pc \in FolderSteps, NEW pc \in FolderSteps, Goes(d, pc)
  PROVE  \E r : Moves(d, r) /\ r.pc = pc /\ r.no = desk[d].no /\ r.add = desk[d].add
<1>1. PICK r \in DeskRec : desk' = [desk EXCEPT ![d] = r] /\ r.pc = pc /\ r.no = desk[d].no /\ r.add = desk[d].add
  BY GoesIs DEF ShareInv, FolderSteps, ShareSteps
<1>2. DeskOK(desk[d])
  BY DEF ShareInv
<1>3. DeskOK(r)
  BY <1>1, <1>2 DEF DeskOK, FolderSteps, UserSteps
<1> QED
  BY <1>1, <1>3 DEF Moves
LEMMA SetsAclIs ==
  ASSUME ShareInv, NEW d \in Desks, desk[d].pc \in FolderSteps, SetsAcl(d)
  PROVE  folderAcl' \subseteq Guests /\ (ShareMishap \/ UNCHANGED shareMishaps)
<1>1. folderAcl \subseteq Guests /\ desk[d].add \subseteq Guests
  BY DEF ShareInv, ShareTypes, DeskOK
<1>2. ChangedAcl(d) \subseteq Guests
  BY <1>1 DEF ChangedAcl
<1> QED
  BY <1>1, <1>2 DEF SetsAcl
\* Where a folder is being made its row is gone, or goes.
LEMMA MakingIs ==
  ASSUME ShareInv, NEW d \in Desks, desk[d].pc \in {"facl", "frow"}, "folder" \notin torn
  PROVE  Making = {d} /\ Leaving /\ folderVol
<1>1. d \in Making
  BY DEF Making
<1> QED
  BY <1>1 DEF ShareInv, FolderInv

LEMMA FolderSubvolKeeps ==
  ASSUME ShareInv, NEW d \in Desks, FolderSubvol(d)
  PROVE  ShareInv'
<1>0. ShareTypes /\ FolderTyped /\ desk[d].pc = "fcreate" /\ desk[d].pc \in Quiet /\ desk[d].pc \in FolderSteps
  BY FolderTypes DEF FolderSubvol, At, Quiet, FolderSteps
<1>1. UNCHANGED <<shareRows, people, kernelShare, smbConf, folderRow, folderRights, shareAsked, shareHistory>>
  BY DEF FolderSubvol
<1>2. CASE /\ ~folderVol /\ folderVol' = TRUE /\ folderAcl' = {} /\ folderFull' = FALSE
           /\ Goes(d, "facl") /\ UNCHANGED shareMishaps
  <2>1. PICK r : Moves(d, r) /\ r.pc = "facl" /\ r.no = desk[d].no /\ r.add = desk[d].add
    BY <1>0, <1>2, RequestGoesOn DEF FolderSteps
  <2>2. desk'[d] = r /\ \A e \in Desks : e # d => desk'[e] = desk[e]
    BY <1>0, <2>1, DeskMoves
  <2>3. Leaving' <=> Leaving
    BY <1>0, <1>1, <2>1, <2>2 DEF Leaving, At
  <2>4. "folder" \notin torn => Leaving /\ Making = {}
    BY <1>2 DEF ShareInv, FolderInv
  <2>5. Making' = Making \cup {d}
    BY <1>0, <2>1, <2>2 DEF Making
  <2>6. FolderInv'
    BY <1>1, <1>2, <2>3, <2>4, <2>5 DEF FolderInv, shareHistory
  <2>7. RightsMay(d, r)
    <3>1. CASE "folder" \in torn
      BY <1>1, <3>1 DEF RightsMay, shareHistory
    <3>2. CASE "folder" \notin torn
      BY <2>3, <2>4, <3>2 DEF RightsMay
    <3> QED
      BY <3>1, <3>2
  <2>8. FolderTyped'
    BY <1>0, <1>1, <1>2 DEF FolderTyped
  <2>9. r.pc \in FolderSteps \cup {"free"} /\ desk[d].pc \in YetToMake
    BY <1>0, <2>1 DEF FolderSteps, YetToMake
  <2> QED
    BY <1>0, <1>1, <1>2, <2>1, <2>6, <2>7, <2>8, <2>9, FolderMoves DEF shareHistory
<1>3. CASE Leaves(d) /\ UNCHANGED <<folderVol, folderAcl, folderFull>> /\ (ShareMishap \/ UNCHANGED shareMishaps)
  <2>1. Moves(d, Free) /\ Free.pc \in Quiet /\ Free.pc \notin YetToMake
    BY <1>3, LeavesIs, FreeIs DEF Quiet, YetToMake
  <2> QED
    BY <1>0, <1>1, <1>3, <2>1, FreeIs, QuietKeeps DEF shareRows, people, kernelShare, shareHistory, ShareTypes
<1> QED
  BY <1>2, <1>3 DEF FolderSubvol

\* The request that fails to make a folder removes what has its name.
LEMMA UnmakesKeeps ==
  ASSUME ShareInv, NEW d \in Desks, desk[d].pc \in {"facl", "frow"}, Unmakes(d), ShareMishap \/ UNCHANGED shareMishaps,
         UNCHANGED <<shareRows, people, kernelShare, smbConf, folderRow, folderRights, folderFull, shareAsked,
                     strays, unserved>>
  PROVE  ShareInv'
<1>0. ShareTypes /\ FolderTyped /\ desk[d].pc \in FolderSteps /\ Free.pc \in FolderSteps \cup {"free"}
      /\ Free.pc \notin YetToMake
  BY FolderTypes, FreeIs DEF FolderSteps, YetToMake
<1>1. Moves(d, Free)
  BY LeavesIs DEF Unmakes
<1>2. desk'[d] = Free /\ \A e \in Desks : e # d => desk'[e] = desk[e]
  BY <1>0, <1>1, DeskMoves
<1>3. /\ folderVol' \in BOOLEAN /\ torn \subseteq torn' /\ (folderVol' => "folder" \in torn')
      /\ folderAcl' = (IF folderVol' THEN folderAcl ELSE {})
  <2>1. folderVol' \in BOOLEAN
    BY Zenon DEF Unmakes
  <2> QED
    BY <2>1 DEF Unmakes, TornIf
<1>4. Leaving' <=> Leaving
  BY <1>2, FreeIs DEF Leaving, At
<1>5. Making' = Making \ {d}
  BY <1>2, FreeIs DEF Making
<1>6. FolderInv' /\ RightsMay(d, Free)
  <2>1. CASE "folder" \in torn'
    BY <2>1 DEF FolderInv, RightsMay
  <2>2. CASE "folder" \notin torn'
    <3>1. Making = {d} /\ Leaving
      BY <1>3, <2>2, MakingIs
    <3>2. Making' = {} /\ Leaving' /\ ~folderVol'
      BY <1>3, <1>4, <1>5, <2>2, <3>1
    <3> QED
      BY <3>2 DEF FolderInv, RightsMay
  <2> QED
    BY <2>1, <2>2
<1>7. FolderTyped'
  BY <1>0, <1>3 DEF FolderTyped
<1> QED
  BY <1>0, <1>1, <1>3, <1>6, <1>7, FreeIs, FolderMoves
LEMMA FolderAclKeeps ==
  ASSUME ShareInv, NEW d \in Desks, FolderAcl(d)
  PROVE  ShareInv'
<1>0. ShareTypes /\ FolderTyped /\ desk[d].pc = "facl" /\ desk[d].pc \in FolderSteps
  BY FolderTypes DEF FolderAcl, At, FolderSteps
<1>1. UNCHANGED <<shareRows, people, kernelShare, smbConf, folderRow, folderRights, folderFull, shareAsked,
                  strays, unserved>>
  BY DEF FolderAcl
<1>2. CASE SetsAcl(d) /\ Goes(d, "frow") /\ UNCHANGED <<folderVol, torn>>
  <2>1. PICK r : Moves(d, r) /\ r.pc = "frow" /\ r.no = desk[d].no /\ r.add = desk[d].add
    BY <1>0, <1>2, RequestGoesOn DEF FolderSteps
  <2>2. FolderMay(d, r)
    BY <1>0, <1>1, <1>2, <2>1 DEF FolderMay
  <2>3. FolderInv' /\ (Leaving' <=> Leaving)
    BY <1>0, <2>1, <2>2, FolderRests DEF ShareInv
  <2>4. RightsMay(d, r)
    <3>1. CASE "folder" \in torn
      BY <1>2, <3>1 DEF RightsMay
    <3>2. CASE "folder" \notin torn
      BY <1>0, <2>3, <3>2, MakingIs DEF RightsMay
    <3> QED
      BY <3>1, <3>2
  <2>5. folderAcl' \subseteq Guests /\ (ShareMishap \/ UNCHANGED shareMishaps)
    BY <1>0, <1>2, SetsAclIs
  <2>6. FolderTyped'
    BY <1>0, <1>1, <1>2, <2>5 DEF FolderTyped
  <2>7. r.pc \in FolderSteps \cup {"free"} /\ desk[d].pc \in YetToMake
    BY <1>0, <2>1 DEF FolderSteps, YetToMake
  <2> QED
    BY <1>0, <1>1, <1>2, <2>1, <2>3, <2>4, <2>5, <2>6, <2>7, FolderMoves
<1>3. CASE Unmakes(d) /\ UNCHANGED shareMishaps
  BY <1>0, <1>1, <1>3, UnmakesKeeps
<1> QED
  BY <1>2, <1>3 DEF FolderAcl
LEMMA FolderRowKeeps ==
  ASSUME ShareInv, NEW d \in Desks, FolderRow(d)
  PROVE  ShareInv'
<1>0. ShareTypes /\ FolderTyped /\ desk[d].pc = "frow" /\ desk[d].pc \in FolderSteps /\ desk[d].pc \in YetToMake
  BY FolderTypes DEF FolderRow, At, FolderSteps, YetToMake
<1>1. UNCHANGED <<shareRows, people, kernelShare, smbConf, folderFull, shareAsked, strays, unserved>>
  BY DEF FolderRow
<1>2. CASE /\ folderRow' = [id |-> desk[d].no, state |-> "active"] /\ folderRights' = desk[d].add
           /\ torn' = torn \cup {f \in {"folder"} : ~folderVol} \cup {f \in {"rights"} : folderAcl # desk[d].add}
           /\ Leaves(d) /\ UNCHANGED <<folderVol, folderAcl, shareMishaps>>
  <2>1. PICK n, a : n = desk[d].no /\ a = desk[d].add
    OBVIOUS
  <2>2. n \in Nat /\ n # 0 /\ a \subseteq Guests /\ \A e \in Desks : desk[e].no = n => e = d
    BY <1>0, <2>1, DeskIs DEF ShareInv, DeskOK, NumbersOnce
  <2>3. folderRow' = [id |-> n, state |-> "active"] /\ folderRights' = a
    BY <1>2, <2>1
  <2>4. folderRow' \in FolderRows /\ folderRow'.id = n /\ folderRow' # NoFolder
    BY <2>2, <2>3 DEF FolderRows, NoFolder
  <2>5. FolderTyped'
    BY <1>0, <1>1, <1>2, <2>2, <2>3, <2>4 DEF FolderTyped
  <2>6. Moves(d, Free)
    BY <1>2, LeavesIs
  <2>7. desk'[d] = Free /\ \A e \in Desks : e # d => desk'[e] = desk[e]
    BY <1>0, <2>6, DeskMoves
  <2>8. ~Leaving'
    BY <2>2, <2>4, <2>7, FreeIs DEF Leaving, At
  <2>9. Making' = Making \ {d}
    BY <2>7, FreeIs DEF Making
  <2>10. torn \subseteq torn' /\ (~folderVol => "folder" \in torn') /\ (folderAcl # a => "rights" \in torn')
    BY <1>2, <2>1
  <2>11. FolderInv'
    <3> SUFFICES ASSUME "folder" \notin torn' PROVE FolderInv'
      BY DEF FolderInv
    <3>1. folderVol /\ "folder" \notin torn
      BY <2>10
    <3>2. Making = {d}
      BY <1>0, <3>1, MakingIs
    <3>3. Making' = {} /\ folderVol'
      BY <1>2, <2>9, <3>1, <3>2
    <3> QED
      BY <2>8, <3>3 DEF FolderInv
  <2>12. RightsMay(d, Free)
    BY <1>2, <2>3, <2>10 DEF RightsMay
  <2>13. Free.pc \in FolderSteps \cup {"free"} /\ Free.pc \notin YetToMake
    BY FreeIs DEF YetToMake
  <2> QED
    BY <1>0, <1>1, <1>2, <2>1, <2>4, <2>5, <2>6, <2>10, <2>11, <2>12, <2>13, FreeIs, FolderMoves
<1>3. CASE Unmakes(d) /\ UNCHANGED <<folderRow, folderRights>> /\ (ShareMishap \/ UNCHANGED shareMishaps)
  BY <1>0, <1>1, <1>3, UnmakesKeeps
<1> QED
  BY <1>2, <1>3 DEF FolderRow
LEMMA ApplyFolderAclKeeps ==
  ASSUME ShareInv, NEW d \in Desks, ApplyFolderAcl(d)
  PROVE  ShareInv'
<1>0. ShareTypes /\ FolderTyped /\ desk[d].pc = "fedit" /\ desk[d].pc \in FolderSteps /\ desk[d].pc \in Quiet
  BY FolderTypes DEF ApplyFolderAcl, At, FolderSteps, Quiet
<1>1. UNCHANGED <<shareRows, people, kernelShare, smbConf, folderRow, folderRights, folderVol, folderFull,
                  shareAsked, shareHistory>>
  BY DEF ApplyFolderAcl
<1>2. CASE SetsAcl(d) /\ Goes(d, "fsave")
  <2>1. PICK r : Moves(d, r) /\ r.pc = "fsave" /\ r.no = desk[d].no /\ r.add = desk[d].add
    BY <1>0, <1>2, RequestGoesOn DEF FolderSteps
  <2>2. FolderMay(d, r)
    BY <1>0, <1>1, <2>1 DEF FolderMay, shareHistory
  <2>3. FolderInv'
    BY <1>0, <2>1, <2>2, FolderRests DEF ShareInv
  <2>4. RightsMay(d, r)
    BY <2>1 DEF RightsMay
  <2>5. folderAcl' \subseteq Guests /\ (ShareMishap \/ UNCHANGED shareMishaps)
    BY <1>0, <1>2, SetsAclIs
  <2>6. FolderTyped'
    BY <1>0, <1>1, <2>5 DEF FolderTyped
  <2>7. r.pc \in FolderSteps \cup {"free"} /\ r.pc \notin YetToMake
    BY <2>1 DEF FolderSteps, YetToMake
  <2> QED
    BY <1>0, <1>1, <2>1, <2>3, <2>4, <2>5, <2>6, <2>7, FolderMoves DEF shareHistory
<1>3. CASE Leaves(d) /\ UNCHANGED <<folderAcl, shareMishaps>>
  <2>1. Moves(d, Free) /\ Free.pc \in Quiet /\ Free.pc \notin YetToMake
    BY <1>3, LeavesIs, FreeIs DEF Quiet, YetToMake
  <2> QED
    BY <1>0, <1>1, <1>3, <2>1, FreeIs, QuietKeeps DEF shareRows, people, kernelShare, shareHistory, ShareTypes
<1> QED
  BY <1>2, <1>3 DEF ApplyFolderAcl
LEMMA SaveFolderRightsKeeps ==
  ASSUME ShareInv, NEW d \in Desks, SaveFolderRights(d)
  PROVE  ShareInv'
<1>0. ShareTypes /\ FolderTyped /\ desk[d].pc = "fsave" /\ desk[d].pc \in FolderSteps
  BY FolderTypes DEF SaveFolderRights, At, FolderSteps
<1>1. /\ UNCHANGED <<shareRows, people, kernelShare, smbConf, folderRow, folderVol, folderAcl, folderFull,
                     shareAsked, strays, unserved>>
      /\ Moves(d, Free) /\ TornIf(folderRights' # folderAcl, "rights")
  BY LeavesIs DEF SaveFolderRights
<1>2. desk[d].no # 0 /\ desk[d].add \subseteq Guests
  BY <1>0 DEF ShareInv, DeskOK
<1>3. (folderRights' \subseteq folderRights \cup desk[d].add /\ folderRow.id = desk[d].no) \/ folderRights' = folderRights
  BY DEF SaveFolderRights
<1>4. FolderTyped'
  BY <1>0, <1>1, <1>2, <1>3 DEF FolderTyped
<1>5. ShareMishap \/ UNCHANGED shareMishaps
  BY DEF SaveFolderRights
<1>6. torn \subseteq torn' /\ (folderRights' # folderAcl => "rights" \in torn')
  BY <1>1 DEF TornIf
<1>7. FolderMay(d, Free)
  BY <1>0, <1>1, <1>6, FreeIs DEF FolderMay
<1>8. FolderInv'
  BY <1>0, <1>1, <1>7, FolderRests DEF ShareInv
<1>9. RightsMay(d, Free)
  BY <1>1, <1>6 DEF RightsMay
<1>10. Free.pc \in FolderSteps \cup {"free"} /\ Free.pc \notin YetToMake
  BY FreeIs DEF YetToMake
<1> QED
  BY <1>0, <1>1, <1>4, <1>5, <1>6, <1>8, <1>9, <1>10, FreeIs, FolderMoves
LEMMA DeleteFolderSubvolKeeps ==
  ASSUME ShareInv, NEW d \in Desks, DeleteFolderSubvol(d)
  PROVE  ShareInv'
<1>0. ShareTypes /\ FolderTyped /\ desk[d].pc = "fdelete" /\ desk[d].pc \in FolderSteps /\ desk[d].pc \in Quiet
  BY FolderTypes DEF DeleteFolderSubvol, At, FolderSteps, Quiet
<1>1. UNCHANGED <<shareRows, people, kernelShare, smbConf, folderRights, folderFull, shareAsked, strays, unserved>>
  BY DEF DeleteFolderSubvol
<1>2. CASE /\ folderVol' = FALSE /\ folderAcl' = {} /\ Goes(d, "funrow") /\ UNCHANGED <<folderRow, shareMishaps>>
           /\ TornIf(folderRow.id # desk[d].no \/ InHand({"facl", "frow"}), "folder")
  <2>1. PICK r : Moves(d, r) /\ r.pc = "funrow" /\ r.no = desk[d].no /\ r.add = desk[d].add
    BY <1>0, <1>2, RequestGoesOn DEF FolderSteps
  <2>2. desk'[d] = r /\ \A e \in Desks : e # d => desk'[e] = desk[e]
    BY <1>0, <2>1, DeskMoves
  <2>3. torn \subseteq torn' /\ ("folder" \notin torn' => folderRow.id = desk[d].no /\ ~InHand({"facl", "frow"}))
    BY <1>2 DEF TornIf
  <2>4. FolderTyped'
    BY <1>0, <1>1, <1>2 DEF FolderTyped
  <2>5. FolderInv' /\ RightsMay(d, r)
    <3>1. CASE "folder" \in torn'
      BY <3>1 DEF FolderInv, RightsMay
    <3>2. CASE "folder" \notin torn'
      <4>1. Making' = {}
        BY <2>1, <2>2, <2>3, <3>2 DEF Making, InHand
      <4>2. Leaving'
        BY <1>2, <2>1, <2>2, <2>3, <3>2 DEF Leaving, At
      <4> QED
        BY <1>2, <4>1, <4>2 DEF FolderInv, RightsMay
    <3> QED
      BY <3>1, <3>2
  <2>6. r.pc \in FolderSteps \cup {"free"} /\ r.pc \notin YetToMake
    BY <2>1 DEF FolderSteps, YetToMake
  <2> QED
    BY <1>0, <1>1, <1>2, <2>1, <2>3, <2>4, <2>5, <2>6, FolderMoves
<1>3. CASE /\ Leaves(d) /\ UNCHANGED <<folderVol, folderAcl, torn>> /\ (ShareMishap \/ UNCHANGED shareMishaps)
           /\ folderRow' = IF folderRow.id = desk[d].no THEN [folderRow EXCEPT !.state = "active"] ELSE folderRow
  <2>1. Moves(d, Free) /\ Free.pc \in Quiet /\ Free.pc \notin YetToMake
    BY <1>3, LeavesIs, FreeIs DEF Quiet, YetToMake
  <2>2. desk[d].no # 0
    BY <1>0 DEF ShareInv, DeskOK
  <2>3. folderRow' \in FolderRows /\ folderRow'.id = folderRow.id /\ (folderRow'.id = 0 => folderRow' = NoFolder)
    <3>1. CASE folderRow.id = desk[d].no
      <4>1. folderRow' = [folderRow EXCEPT !.state = "active"] /\ folderRow.id # 0
        BY <1>3, <2>2, <3>1
      <4> QED
        BY <1>0, <4>1 DEF FolderTyped, FolderRows
    <3>2. CASE folderRow.id # desk[d].no
      BY <1>0, <1>3, <3>2 DEF FolderTyped
    <3> QED
      BY <3>1, <3>2
  <2> QED
    BY <1>0, <1>1, <1>3, <2>1, <2>3, FreeIs, QuietKeeps DEF shareRows, people, kernelShare, ShareTypes
<1> QED
  BY <1>2, <1>3 DEF DeleteFolderSubvol
LEMMA DeleteFolderRowKeeps ==
  ASSUME ShareInv, NEW d \in Desks, DeleteFolderRow(d)
  PROVE  ShareInv'
<1>0. ShareTypes /\ FolderTyped /\ desk[d].pc = "funrow" /\ desk[d].pc \in FolderSteps
  BY FolderTypes DEF DeleteFolderRow, At, FolderSteps
<1>1. /\ UNCHANGED <<shareRows, people, kernelShare, smbConf, folderVol, folderAcl, folderFull, shareAsked,
                     strays, unserved>>
      /\ Moves(d, Free)
  BY LeavesIs DEF DeleteFolderRow
<1>2. desk'[d] = Free /\ \A e \in Desks : e # d => desk'[e] = desk[e]
  BY <1>0, <1>1, DeskMoves
<1>3. Making' = Making
  BY <1>0, <1>2, FreeIs DEF Making
<1>4. Free.pc \in FolderSteps \cup {"free"} /\ Free.pc \notin YetToMake
  BY FreeIs DEF YetToMake
<1>5. CASE folderRow.id # desk[d].no /\ UNCHANGED <<folderRow, folderRights, torn, shareMishaps>>
  <2>1. Leaving' <=> Leaving
    BY <1>0, <1>2, <1>5, FreeIs DEF Leaving, At
  <2>2. FolderInv'
    BY <1>1, <1>3, <1>5, <2>1 DEF FolderInv, ShareInv
  <2>3. RightsMay(d, Free)
    <3>1. folderRights' = folderRights /\ folderAcl' = folderAcl /\ torn' = torn
      BY <1>1, <1>5
    <3> QED
      BY <1>0, <2>1, <3>1 DEF RightsMay
  <2>4. FolderTyped'
    BY <1>0, <1>1, <1>5 DEF FolderTyped
  <2> QED
    BY <1>0, <1>1, <1>4, <1>5, <2>2, <2>3, <2>4, FreeIs, FolderMoves
<1>6. CASE folderRow.id = desk[d].no /\ folderRow' = NoFolder /\ folderRights' = {} /\ UNCHANGED <<torn, shareMishaps>>
  <2>1. folderRow' \in FolderRows /\ folderRow'.id = 0
    BY <1>6 DEF NoFolder, FolderRows
  <2>2. Leaving /\ Leaving'
    BY <1>0, <1>6, <2>1 DEF Leaving, At
  <2>3. FolderInv' /\ RightsMay(d, Free)
    BY <1>1, <1>3, <1>6, <2>2 DEF FolderInv, ShareInv, RightsMay
  <2>4. FolderTyped'
    BY <1>0, <1>1, <1>6, <2>1 DEF FolderTyped
  <2> QED
    BY <1>0, <1>1, <1>4, <1>6, <2>1, <2>3, <2>4, FreeIs, FolderMoves
<1>7. CASE ShareMishap /\ torn' = torn \cup {"folder"} /\ UNCHANGED <<folderRow, folderRights>>
  <2>1. FolderInv' /\ RightsMay(d, Free)
    BY <1>7 DEF FolderInv, RightsMay
  <2>2. FolderTyped'
    BY <1>0, <1>1, <1>7 DEF FolderTyped
  <2> QED
    BY <1>0, <1>1, <1>4, <1>7, <2>1, <2>2, FreeIs, FolderMoves
<1> QED
  BY <1>5, <1>6, <1>7 DEF DeleteFolderRow

-----------------------------------------------------------------------------
\* The shares at the start, at rest and after a restart.
LEMMA SharesStart ==
  ASSUME ShareInit
  PROVE  ShareInv
<1>1. \A d \in Desks : desk[d] = Free
  BY DEF ShareInit
<1>2. \A d \in Desks : desk[d] \in DeskRec /\ DeskOK(desk[d]) /\ desk[d].pc = "free" /\ desk[d].no = 0
  BY <1>1, FreeIs
<1>3. /\ share = NoShare /\ share.no = 0 /\ share.smb = FALSE /\ share \in Rows
      /\ folderRow = NoFolder /\ folderRow.id = 0 /\ folderRow \in FolderRows
  BY DEF ShareInit, NoShare, NoFolder, Rows, FolderRows
<1>4. desk \in [Desks -> DeskRec]
  BY <1>2 DEF ShareInit
<1>5. smbConf \in Listing
  <2>1. PICK none : none = Unlisted
    OBVIOUS
  <2>2. none \in Listing
    BY <2>1 DEF Listing
  <2> QED
    BY <2>1, <2>2 DEF ShareInit
<1>6. accounts \in [Everyone -> {"absent", "user", "admin"}]
  BY DEF ShareInit
<1>7. ShareTypes
  <2>1. shareAsked \in 0..MaxShareAsked /\ shareMishaps \in 0..MaxShareMishaps
    BY ShareAssumption DEF ShareInit
  <2>2. /\ grants = {} /\ unix = Everyone /\ volume = "none" /\ group = FALSE /\ members = {} /\ folderRights = {}
        /\ folderVol = FALSE /\ folderAcl = {} /\ folderFull = FALSE
    BY DEF ShareInit
  <2> QED
    BY <1>3, <1>4, <1>5, <1>6, <2>1, <2>2 DEF ShareTypes
<1>8. NumbersOnce /\ JoinsGranted
  BY <1>2, <1>3 DEF NumbersOnce, JoinsGranted, YetToMake, At, ShareInit
<1>9. MembersHaveGrants /\ GrantsHold /\ SharesHaveData
  BY <1>3 DEF MembersHaveGrants, GrantsHold, SharesHaveData, Exists, ShareInit
<1>10. SmbSaysSo
  BY <1>3 DEF SmbSaysSo, SmbRight, ShareInit
<1>11. FolderInv /\ RightsInv
  BY <1>2, <1>3 DEF FolderInv, RightsInv, Leaving, Making, ShareInit
<1> QED
  BY <1>2, <1>7, <1>8, <1>9, <1>10, <1>11 DEF ShareInv

\* The content of a folder is nothing to the rows.
LEMMA ShareStill ==
  ASSUME ShareInv, UseFolder \/ UNCHANGED shareVars
  PROVE  ShareInv'
<1>1. UNCHANGED <<share, grants, accounts, unix, volume, group, members, smbConf, folderRow, folderRights,
                  folderVol, folderAcl, desk, shareAsked, shareMishaps, strays, unserved, torn>>
  BY DEF UseFolder, shareVars, shareRows, people, kernelShare, shareBounds, shareHistory
<1>2. folderFull' \in BOOLEAN
  <2>1. CASE UseFolder
    BY <2>1, Zenon DEF UseFolder
  <2>2. CASE UNCHANGED shareVars
    <3>1. folderFull' = folderFull
      BY <2>2 DEF shareVars
    <3> QED
      BY <3>1 DEF ShareInv, ShareTypes
  <2> QED
    BY <2>1, <2>2
<1>3. ShareTypes'
  BY <1>1, <1>2 DEF ShareInv, ShareTypes
<1>4. (\A d \in Desks : DeskOK(desk[d]))'
  BY <1>1 DEF ShareInv, DeskOK
<1>5. NumbersOnce' /\ JoinsGranted'
  BY <1>1 DEF ShareInv, NumbersOnce, JoinsGranted, At
<1>6. MembersHaveGrants'
  BY <1>1 DEF ShareInv, MembersHaveGrants, At
<1>7. GrantsHold'
  BY <1>1 DEF ShareInv, GrantsHold, Claims, Covered, InHand
<1>8. SharesHaveData' /\ SmbSaysSo'
  BY <1>1 DEF ShareInv, SharesHaveData, SmbSaysSo, SmbRight, Exists, InHand
<1>9. FolderInv' /\ RightsInv'
  BY <1>1 DEF ShareInv, FolderInv, RightsInv, Leaving, Making, At, InHand
<1> QED
  BY <1>3, <1>4, <1>5, <1>6, <1>7, <1>8, <1>9 DEF ShareInv

\* reconcile() serves every grant; what it cannot know of is what a request had under way.
LEMMA ShareRestartKeeps ==
  ASSUME ShareInv, ShareRestart
  PROVE  ShareInv'
<1>0. ShareTypes
  BY DEF ShareInv
<1>1. UNCHANGED <<share, grants, accounts, unix, volume, smbConf, folderRow, folderRights, folderVol, folderAcl,
                  folderFull, shareAsked>>
  BY DEF ShareRestart, shareRows, people, folder
<1>2. \A d \in Desks : desk'[d] = Free
  BY DEF ShareRestart
<1>3. \A d \in Desks : desk'[d] \in DeskRec /\ DeskOK(desk'[d]) /\ desk'[d].pc = "free" /\ desk'[d].no = 0
  BY <1>2, FreeIs
<1>4. desk' \in [Desks -> DeskRec]
  BY <1>3 DEF ShareRestart
<1>5. \A S : "free" \notin S => ~InHand(S)'
  BY <1>3 DEF InHand
<1>6. (\A d \in Desks : ~At(d, "free") => FALSE) \/ (members \subseteq strays' /\ {"volume", "smb", "folder", "rights"} \subseteq torn')
  BY DEF ShareRestart
<1>7. /\ torn \subseteq torn' /\ strays \subseteq strays' /\ members' \ members \subseteq strays'
      /\ members \subseteq members' /\ members' \subseteq Everyone
      /\ Exists => grants \cap unix \subseteq members'
  BY <1>0 DEF ShareRestart, ShareTypes
<1>8. ShareTypes'
  <2>1. group' \in BOOLEAN
    BY Zenon DEF ShareRestart
  <2>2. shareMishaps' \in 0..MaxShareMishaps
    BY <1>0, MishapIs DEF ShareRestart
  <2> QED
    BY <1>0, <1>1, <1>4, <1>7, <2>1, <2>2 DEF ShareTypes
<1>9. (\A d \in Desks : DeskOK(desk[d]))'
  BY <1>3 DEF DeskOK
<1>10. NumbersOnce' /\ JoinsGranted'
  BY <1>0, <1>1, <1>3, ShareNumbers DEF NumbersOnce, JoinsGranted, YetToMake, At, ShareInv
<1>11. GrantsHold'
  <2>1. \A u \in grants : Claims(u)' => u \in unix
    BY <1>1, <1>3 DEF Claims
  <2>2. grants # {} => Exists
    BY <1>0 DEF ShareTypes, Exists
  <2> QED
    BY <1>1, <1>7, <2>1, <2>2 DEF GrantsHold, Covered
<1>12. CASE members \subseteq strays' /\ {"volume", "smb", "folder", "rights"} \subseteq torn'
  <2>1. MembersHaveGrants'
    BY <1>7, <1>12 DEF MembersHaveGrants
  <2>2. SharesHaveData' /\ SmbSaysSo' /\ FolderInv' /\ RightsInv'
    BY <1>12 DEF SharesHaveData, SmbSaysSo, FolderInv, RightsInv
  <2> QED
    BY <1>8, <1>9, <1>10, <1>11, <2>1, <2>2 DEF ShareInv
<1>13. CASE \A d \in Desks : desk[d].pc = "free"
  <2>1. \A S : "free" \notin S => ~InHand(S)
    BY <1>13 DEF InHand
  <2>2. MembersHaveGrants'
    <3>1. \A d \in Desks : ~At(d, "save")
      BY <1>13 DEF At
    <3>2. members \subseteq grants \cup strays
      BY <3>1 DEF ShareInv, MembersHaveGrants
    <3> QED
      BY <1>1, <1>7, <3>2 DEF MembersHaveGrants
  <2>3. SharesHaveData'
    BY <1>1, <1>7, <2>1 DEF SharesHaveData, Exists, ShareInv
  <2>4. SmbSaysSo'
    <3>1. SmbRight \/ "smb" \in torn
      BY <2>1 DEF SmbSaysSo, ShareInv
    <3>2. SmbRight => SmbRight'
      BY <1>1 DEF SmbRight
    <3> QED
      BY <1>7, <3>1, <3>2 DEF SmbSaysSo
  <2>5. Making = {} /\ Making' = {}
    BY <1>3, <1>13 DEF Making
  <2>6. Leaving' <=> Leaving
    BY <1>1, <1>3, <1>13 DEF Leaving, At
  <2>7. FolderInv'
    BY <1>1, <1>7, <2>5, <2>6 DEF FolderInv, ShareInv
  <2>8. RightsInv'
    <3>1. ~InHand({"fsave"})
      BY <2>1
    <3> QED
      BY <1>1, <1>7, <2>6, <3>1 DEF RightsInv, ShareInv
  <2> QED
    BY <1>8, <1>9, <1>10, <1>11, <2>2, <2>3, <2>4, <2>7, <2>8 DEF ShareInv
<1> QED
  BY <1>6, <1>12, <1>13 DEF At

-----------------------------------------------------------------------------
LEMMA ShareStep ==
  ASSUME ShareInv, ShareNext \/ UNCHANGED shareVars
  PROVE  ShareInv'
<1>1. CASE UseFolder \/ UNCHANGED shareVars
  BY <1>1, ShareStill
<1>2. CASE ShareRestart
  BY <1>2, ShareRestartKeeps
<1>3. ASSUME NEW d \in Desks, \E keep \in BOOLEAN, users \in SUBSET Everyone : CreateShare(d, keep, users)
      PROVE ShareInv'
  BY <1>3, CreateShareKeeps
<1>4. ASSUME NEW d \in Desks, \E users \in SUBSET Everyone : UpdateShare(d, users)
      PROVE ShareInv'
  BY <1>4, UpdateShareKeeps
<1>5. ASSUME NEW d \in Desks, \E on \in BOOLEAN : SwitchRead(d, on)
      PROVE ShareInv'
  BY <1>5, SwitchReadKeeps
<1>6. ASSUME NEW d \in Desks, \E users \in SUBSET Guests : CreateManagedFolder(d, users) \/ UpdateManagedFolder(d, users)
      PROVE ShareInv'
  BY <1>6, AskFolderKeeps
<1>7. ASSUME NEW d \in Desks, \E u \in Everyone : AddUser(d, u) \/ CreateUser(d, u) \/ DeleteUser(d, u)
      PROVE ShareInv'
  BY <1>7, AddUserKeeps, AskUserKeeps
<1>8. ASSUME NEW d \in Desks, \/ CreateSubvolIfMissing(d) \/ CreateGroup(d) \/ CreateRow(d) \/ GrantCreator(d) \/ JoinCreator(d)
      PROVE ShareInv'
  BY <1>8, CreateSubvolKeeps, CreateGroupKeeps, CreateRowKeeps, GrantCreatorKeeps, JoinCreatorKeeps
<1>9. ASSUME NEW d \in Desks, RemoveUser(d) \/ SetPermission(d) \/ PermissionsDone(d)
      PROVE ShareInv'
  BY <1>9, RemoveUserKeeps, SetPermissionKeeps, PermissionsDoneKeeps
<1>10. ASSUME NEW d \in Desks, ApplySMB(d) \/ SetSMBEnabled(d) \/ RenderSMB(d) \/ InstallSMB(d) \/ RollbackSwitch(d)
       PROVE ShareInv'
  BY <1>10, ApplySMBKeeps, SetSMBEnabledKeeps, RenderSMBKeeps, InstallSMBKeeps, RollbackSwitchKeeps
<1>11. ASSUME NEW d \in Desks, DeleteShare(d) \/ DeleteGroup(d) \/ DestroySubvol(d) \/ DeleteRow(d)
       PROVE ShareInv'
  BY <1>11, DeleteShareKeeps, DeleteGroupKeeps, DestroySubvolKeeps, DeleteRowKeeps
<1>12. ASSUME NEW d \in Desks, CreateUnixUser(d) \/ SetSmbPassword(d) \/ DeleteUnixUser(d)
       PROVE ShareInv'
  BY <1>12, CreateUnixUserKeeps, SetSmbPasswordKeeps, DeleteUnixUserKeeps
<1>13. ASSUME NEW d \in Desks, FolderSubvol(d) \/ FolderAcl(d) \/ FolderRow(d) \/ ApplyFolderAcl(d) \/ SaveFolderRights(d)
       PROVE ShareInv'
  BY <1>13, FolderSubvolKeeps, FolderAclKeeps, FolderRowKeeps, ApplyFolderAclKeeps, SaveFolderRightsKeeps
<1>14. ASSUME NEW d \in Desks, DeleteManagedFolder(d) \/ DeleteFolderSubvol(d) \/ DeleteFolderRow(d)
       PROVE ShareInv'
  BY <1>14, DeleteManagedFolderKeeps, DeleteFolderSubvolKeeps, DeleteFolderRowKeeps
<1> QED
  BY <1>1, <1>2, <1>3, <1>4, <1>5, <1>6, <1>7, <1>8, <1>9, <1>10, <1>11, <1>12, <1>13, <1>14, Zenon DEF ShareNext

\* What the run checks, from the invariant.
LEMMA ShareInvSays ==
  ASSUME ShareInv
  PROVE  SharesConsistent /\ ShareTypeOK
<1>0. ShareTypes
  BY DEF ShareInv
<1>1. GrantsAreServed
  <2>1. ASSUME NEW u \in grants \cap unix, ~InHand({"join", "destroy", "unrow"})
        PROVE  u \in members \cup unserved
    <3>1. ~InHand({"destroy", "unrow"}) /\ ~InHand({"join"})
      BY <2>1 DEF InHand
    <3>2. Covered(u)
      BY DEF ShareInv, GrantsHold, Claims
    <3> QED
      BY <3>1, <3>2 DEF Covered
  <2>2. CASE InHand({"join", "destroy", "unrow"})
    BY <1>0, <2>2 DEF GrantsAreServed, ShareTypes
  <2>3. CASE ~InHand({"join", "destroy", "unrow"})
    BY <2>1, <2>3 DEF GrantsAreServed
  <2> QED
    BY <2>2, <2>3
<1>2. FoldersAreWhole
  <2>1. folderRow # NoFolder /\ Leaving => InHand({"funrow"})
    BY <1>0 DEF ShareTypes, Leaving, InHand, At
  <2>2. Making # {} => InHand({"facl", "frow"})
    BY DEF Making, InHand
  <2>3. folderRow # NoFolder => folderVol \/ InHand({"funrow"}) \/ "folder" \in torn
    BY <2>1 DEF FolderInv, ShareInv
  <2>4. folderVol => folderRow # NoFolder \/ InHand({"facl", "frow"}) \/ "folder" \in torn
    BY <1>0, <2>2 DEF FolderInv, ShareInv, Leaving, ShareTypes
  <2>5. InHand({"fsave"}) \/ InHand({"funrow"}) => InHand({"fsave", "funrow"})
    BY DEF InHand
  <2>6. folderRow # NoFolder =>
          folderRights = folderAcl \/ InHand({"fsave", "funrow"}) \/ torn \cap {"rights", "folder"} # {}
    BY <2>1, <2>5 DEF RightsInv, ShareInv
  <2> QED
    BY <2>3, <2>4, <2>6 DEF FoldersAreWhole
<1>3. SharesConsistent
  BY <1>1, <1>2 DEF SharesConsistent, ShareInv
<1>4. ShareTypeOK
  <2>1. share.no <= shareAsked /\ folderRow.id <= shareAsked
    BY DEF ShareInv, NumbersOnce
  <2>2. share \in [no : 0..shareAsked, smb : BOOLEAN]
    BY <1>0, <2>1, ShareNumbers DEF ShareTypes, Rows
  <2>3. folderRow \in [id : 0..shareAsked, state : {"none", "active", "deleting"}]
    BY <1>0, <2>1, ShareNumbers DEF ShareTypes, FolderRows
  <2>4. smbConf \in (SUBSET Everyone) \cup {Unlisted}
    BY <1>0 DEF ShareTypes, Listing
  <2>5. {group, folderVol, folderFull} \subseteq BOOLEAN
    BY <1>0, Zenon DEF ShareTypes
  <2> QED
    BY <1>0, <2>2, <2>3, <2>4, <2>5 DEF ShareTypeOK, ShareTypes
<1> QED
  BY <1>3, <1>4

-----------------------------------------------------------------------------
\* What the users put in their folders is there, once and whole (files.go, recycle_bin.go,
\* upload.go): a file that an upload or a copy finished has one content, the bin lists what
\* was thrown away, and nothing that was stored is lost, unless two requests met or one failed
\* half-way; for any number of uploads, requests, files and restarts.
THEOREM ContentsAgree == DaemonSpec => []ContentsConsistent
<1> DEFINE Inv == part = "files" => FilesInv
<1>1. DaemonStart => Inv
  BY FilesStart DEF DaemonStart
<1>2. Inv /\ [DaemonNext]_daemonVars => Inv'
  <2>1. ASSUME Inv, [DaemonNext]_daemonVars, part' = "files" PROVE FilesInv'
    <3>1. part = "files" /\ FilesInv /\ (FileNext \/ UNCHANGED fileVars)
      BY <2>1 DEF DaemonNext, daemonVars
    <3> QED
      BY <3>1, FilesStep
  <2> QED
    BY <2>1
<1>3. Inv => ContentsConsistent
  BY FilesInvSays DEF ContentsConsistent
<1> QED
  BY <1>1, <1>2, <1>3, PTL DEF DaemonSpec

\* A share is the same in SQLite, on disk, in the groups of Linux and in smb.conf, and a managed
\* folder in its row, its subvolume and its ACL (shares_service.go, shares_http.go,
\* managed_folders.go), but for what a failure, a restart in the middle of a request or two
\* requests at once left apart; for any number of requests and users.
THEOREM FoldersAgree == DaemonSpec => []FoldersConsistent
<1> DEFINE Inv == part = "shares" => ShareInv
<1>1. DaemonStart => Inv
  BY SharesStart DEF DaemonStart
<1>2. Inv /\ [DaemonNext]_daemonVars => Inv'
  <2>1. ASSUME Inv, [DaemonNext]_daemonVars, part' = "shares" PROVE ShareInv'
    <3>1. part = "shares" /\ ShareInv /\ (ShareNext \/ UNCHANGED shareVars)
      BY <2>1 DEF DaemonNext, daemonVars
    <3> QED
      BY <3>1, ShareStep
  <2> QED
    BY <2>1
<1>3. Inv => FoldersConsistent
  BY ShareInvSays DEF FoldersConsistent
<1> QED
  BY <1>1, <1>2, <1>3, PTL DEF DaemonSpec
=============================================================================
