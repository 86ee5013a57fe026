------------------------------ MODULE Records ------------------------------
(***************************************************************************)
(* From the files on the DOS disk to the documents on the phone            *)
(* (dos_sender_legacy/src/producer.c; Reconstructor.java and the           *)
(* Reconstruct button of MainActivity).  The selection is scanned into a   *)
(* manifest; producer_next() makes it into records, one to a frame, while  *)
(* the files may still change; when every frame has arrived, as many       *)
(* reconstructions as the user presses for write them into the same tree,  *)
(* each until it ends, storage fails, the session is reset or the process  *)
(* is killed.                                                              *)
(*                                                                         *)
(* A file is a sequence of blocks <<node, version, index>>; a checksum is  *)
(* the sequence it was computed over.  That frames arrive whole and in     *)
(* their place is the subject of SessionStore and Transfer.                *)
(***************************************************************************)
EXTENDS Integers, Sequences, FiniteSets, SequencesExt

CONSTANTS
  Trees,        \* DOS trees: node -> [name, kind, children, sizes]; a change of
                \*   a file takes it to its next size, -1 if it is deleted
  Manifest,     \* the name DOSFER.$$$
  Selections,   \* sequences of nodes, as selected
  DiskBuffer,   \* blocks read ahead into each half of the ring
  Piece,        \* blocks of a file that fit a FILE_DATA record
  WindowFrames, \* /WINDOW
  Word,         \* 2^32: byte totals are kept modulo this
  Existing,     \* names the destination already holds at its root
  Readers,      \* reconstructions, one for each press of the button
  MaxChanges,   \* bound on changes of files while they are sent
  MaxLost,      \* bound on failing reads of the manifest
  MaxMishaps    \* bound on failures of the phone's storage and kills of the app

VARIABLES
  tree, selection,
  manifest,     \* DOSFER.$$$
  version,      \* of each node
  p,            \* Producer
  window,       \* records of the window being filled
  sent,         \* records shown and received
  phase,        \* "filling", "ended"
  lost,         \* failing reads of the manifest so far
  docs,         \* documents of the destination, numbered
  task,         \* of each reader
  kept,         \* the session is still on the phone
  mishaps

sender == <<tree, selection, manifest, version, p, window, sent, phase, lost>>
receiver == <<docs, task, kept, mishaps>>
vars == <<sender, receiver>>

IsSeq(s) == s \in Seq({s[i] : i \in DOMAIN s})

ASSUME RecordsAssumption ==
  {DiskBuffer, Piece, WindowFrames, Word} \subseteq Nat \ {0}

\* Files have a size when they are selected, only directories have children.
ASSUME TreesAssumption ==
  \A t \in Trees :
    /\ IsFiniteSet(DOMAIN t)
    /\ \A n \in DOMAIN t :
         /\ t[n].kind \in {"file", "dir"}
         /\ t[n].children \in Seq(DOMAIN t)
         /\ t[n].kind = "file" => t[n].children = <<>>
         /\ IsSeq(t[n].sizes) /\ t[n].sizes # <<>> /\ t[n].sizes[1] \in Nat
    /\ \A s \in Selections : s \in Seq(DOMAIN t)

ASSUME ExistingAssumption == \A e \in Existing : IsSeq(e)

-----------------------------------------------------------------------------
(* manifest_add_selection().                                               *)

Entry(kind, node, path, size) == [kind |-> kind, node |-> node, path |-> path, size |-> size]

\* Mutant of Scan: what lies in a directory of the selected one is left out.
ScanOneLevel(t, n) ==
  LET entry(k, path) == Entry(t[k].kind, k, path, t[k].sizes[1])
      below == SelectSeq(t[n].children, LAMBDA k : t[k].name # Manifest)
  IN <<entry(n, <<t[n].name>>)>> \o
       [i \in DOMAIN below |-> entry(below[i], <<t[n].name, t[below[i]].name>>)]

\* One call of scan_path() from each node, given what the calls it makes
\* return: a directory before its contents, in the order of _dos_findnext().
ScanPath(t, calls) ==
  [n \in DOMAIN t |->
     LET child(k) == IF t[k].name = Manifest THEN <<>> ELSE calls[k]
         below == FlattenSeq([i \in DOMAIN t[n].children |-> child(t[n].children[i])])
         inside(e) == [e EXCEPT !.path = <<t[n].name>> \o @]
     IN <<Entry(t[n].kind, n, <<t[n].name>>, t[n].sizes[1])>> \o
          (IF t[n].kind = "dir" THEN [i \in DOMAIN below |-> inside(below[i])] ELSE <<>>)]

\* A tree is no deeper than it has nodes.
Scan(t, n) ==
  LET scan[d \in 0..Cardinality(DOMAIN t)] ==
        IF d = 0 THEN [k \in DOMAIN t |-> <<>>] ELSE ScanPath(t, scan[d - 1])
  IN scan[Cardinality(DOMAIN t)][n]

\* The first name of a path is base_name() of what was selected.
ManifestOf(t, s) == FlattenSeq([i \in DOMAIN s |-> Scan(t, s[i])])

\* file_id
FileId(k) == Cardinality({j \in 1..k : manifest[j].kind = "file"})

-----------------------------------------------------------------------------
(* producer_next().                                                        *)

SizeNow(n) == tree[n].sizes[version[n] + 1]
Blocks(n, v) == [i \in 1..tree[n].sizes[v + 1] |-> <<n, v, i>>]

\* source_matches_manifest(): size, date and time; a change shows in them.
Matches(n) == version[n] = 0

\* fread() of the next half of the ring, which may fail.
Fread(f, failed) ==
  LET now == IF SizeNow(f.node) < 0 THEN <<>> ELSE Blocks(f.node, version[f.node])
  IN IF failed THEN <<>>
     ELSE SubSeq(now, f.at + 1, IF f.at + DiskBuffer < Len(now) THEN f.at + DiskBuffer
                                ELSE Len(now))

Filled(f, slot, failed) ==
  LET got == Fread(f, failed)
  IN [f EXCEPT !.disk[slot] = got, !.at = @ + Len(got), !.error = IF failed THEN TRUE ELSE @]

\* start_file(), once it has been opened and compared.
Started(n, failed) ==
  Filled(Filled([node |-> n, at |-> 0, disk |-> <<<<>>, <<>>>>, slot |-> 1,
                 error |-> FALSE, read |-> <<>>], 1, FALSE), 2, failed)

\* One round of the loop of read_piece(): from the half in use, refilled when
\* it has run out.
Round(s, size, failed) ==
  LET f == s.file
      g == IF f.disk[f.slot] = <<>> THEN Filled(f, f.slot, failed) ELSE f
      half == g.disk[g.slot]
      n == IF Len(half) < s.left THEN Len(half) ELSE s.left
      rest == SubSeq(half, n + 1, Len(half))
      copied == [g EXCEPT !.disk[g.slot] = rest, !.read = @ \o SubSeq(half, 1, n),
                          !.slot = IF rest = <<>> THEN 3 - @ ELSE @]
  IN IF s.left = 0 \/ Len(f.read) >= size THEN s
     ELSE IF half = <<>> THEN [file |-> g, left |-> 0]
     ELSE [file |-> copied, left |-> s.left - n]

\* read_piece(): each round leaves less to be read.
ReadPiece(f, want, size, failed) ==
  LET after[k \in 0..want] ==
        IF k = 0 THEN [file |-> f, left |-> want] ELSE Round(after[k - 1], size, failed)
  IN after[want].file

Record(type, body) == [type |-> type, id |-> p.id, body |-> body]

\* The window gains a record, and the producer goes on as q.
Produces(type, body, q) ==
  /\ window' = Append(window, Record(type, body))
  /\ p' = [q EXCEPT !.id = @ + 1]
  /\ UNCHANGED <<tree, selection, manifest, version, sent, phase>>

\* producer_fill_window() returns 0: what it had of the window is not shown.
Fails ==
  /\ phase' = "ended" /\ window' = <<>>
  /\ UNCHANGED <<tree, selection, manifest, version, p, sent>>

Filling == phase = "filling" /\ Len(window) < WindowFrames /\ ~p.finished

SessionRecord ==
  /\ Filling /\ p.state = 0
  /\ Produces("SESSION", <<>>, [p EXCEPT !.state = 1])
  /\ UNCHANGED lost

\* The manifest is at its end, or cannot be read.
Closing(failed) == p.state = 1 /\ (failed \/ p.next > Len(manifest))

ManifestRecord ==
  /\ Filling /\ p.state = 1 /\ ~Closing(FALSE)
  /\ LET e == manifest[p.next]
         body == [path |-> e.path, file |-> FileId(p.next), size |-> e.size]
         q == [p EXCEPT !.next = @ + 1]
     IN IF e.kind = "dir"
        THEN Produces("DIRECTORY", body, [q EXCEPT !.dirs = @ + 1])
        ELSE IF ~Matches(e.node) THEN Fails
        ELSE \E failed \in BOOLEAN :
               Produces("FILE_BEGIN", body,
                 [q EXCEPT !.state = 2, !.files = @ + 1, !.total = (@ + e.size) % Word,
                           !.file = Started(e.node, failed)])
  /\ UNCHANGED lost

Current == manifest[p.next - 1]
WholeRead == Len(p.file.read) >= Current.size

DataRecord ==
  /\ Filling /\ p.state = 2 /\ ~WholeRead
  /\ \E failed \in BOOLEAN :
       LET f == ReadPiece(p.file, Piece, Current.size, failed)
           new == SubSeq(f.read, Len(p.file.read) + 1, Len(f.read))
       IN IF (new = <<>> \/ f.error) /\ Len(f.read) < Current.size THEN Fails
          ELSE Produces("FILE_DATA",
                 [file |-> FileId(p.next - 1), offset |-> Len(p.file.read), data |-> new],
                 [p EXCEPT !.file = f])
  /\ UNCHANGED lost

\* Mutant of Unchanged: only the size is compared.
SameSize(n) == SizeNow(n) = tree[n].sizes[1]

\* The second source_matches_manifest().
Unchanged(n) == Matches(n)

EndRecord ==
  /\ Filling /\ p.state = 2 /\ WholeRead
  /\ IF ~Unchanged(Current.node) THEN Fails
     ELSE Produces("FILE_END",
            [file |-> FileId(p.next - 1), size |-> Current.size, crc |-> p.file.read],
            [p EXCEPT !.state = 1, !.file = <<>>])
  /\ UNCHANGED lost

TransferEnd ==
  /\ Filling
  /\ \E failed \in BOOLEAN :
       /\ failed => lost < MaxLost /\ ~Closing(FALSE)
       /\ Closing(failed)
       /\ lost' = IF failed THEN lost + 1 ELSE lost
  /\ Produces("TRANSFER_END", [files |-> p.files, dirs |-> p.dirs, total |-> p.total],
              [p EXCEPT !.state = 6])

Finished ==
  /\ Filling /\ p.state = 6
  /\ p' = [p EXCEPT !.finished = TRUE]
  /\ UNCHANGED <<tree, selection, manifest, version, window, sent, phase, lost>>

\* run_transfer(): the window is shown until the receiver has it.
Transmit ==
  /\ phase = "filling" /\ (Len(window) = WindowFrames \/ p.finished)
  /\ sent' = sent \o window /\ window' = <<>>
  /\ phase' = IF window = <<>> THEN "ended" ELSE phase
  /\ UNCHANGED <<tree, selection, manifest, version, p, lost>>

SumOver(S) == FoldSet(LAMBDA n, sum : sum + version[n], 0, S)

\* Another program writes to the file or deletes it.  Once the file has been
\* read that makes no difference.
Pending ==
  {manifest[k].node : k \in (IF p.state = 2 THEN p.next - 1 ELSE p.next)..Len(manifest)}
Change(n) ==
  /\ phase = "filling" /\ tree[n].kind = "file" /\ n \in Pending
  /\ version[n] + 1 < Len(tree[n].sizes)
  /\ SumOver(DOMAIN version) < MaxChanges
  /\ version' = [version EXCEPT ![n] = @ + 1]
  /\ UNCHANGED <<tree, selection, manifest, p, window, sent, phase, lost>>

Produce ==
  \/ SessionRecord \/ ManifestRecord \/ DataRecord \/ EndRecord \/ TransferEnd
  \/ Finished \/ Transmit
  \/ \E n \in DOMAIN tree : Change(n)

-----------------------------------------------------------------------------
(* The tree on the phone.  A name is <<name, n, m>>: with the suffix (n),  *)
(* or none for 0, and as the m-th .partial of that name, or -1 if it is    *)
(* not partial.                                                            *)

Root == 0
Final(name) == <<name, 0, -1>>
Doc(parent, name, kind, by) ==
  [parent |-> parent, name |-> name, kind |-> kind, data |-> <<>>, by |-> by]

Taken(parent, name) == \E d \in DOMAIN docs : docs[d].parent = parent /\ docs[d].name = name

\* unusedName(): the name or the first suffix that find() does not see.
Unused(parent, name) ==
  LET variant(k) == IF name[3] < 0 THEN <<name[1], name[2] + k, -1>>
                    ELSE <<name[1], name[2], k>>
  IN variant(CHOOSE k \in 0..Len(docs) :
               ~Taken(parent, variant(k)) /\ \A j \in 0..(k - 1) : Taken(parent, variant(j)))

\* createDocument(), renameDocument(): the provider picks another name, too,
\* when it is given one that is taken.
Granted(parent, name) == Unused(parent, name)

IsFolder(d) == IF d = Root THEN TRUE ELSE docs[d].kind = "dir"

-----------------------------------------------------------------------------
(* Reconstructor.reconstruct().                                            *)

NoFile == <<>>
Idle == [pc |-> "idle", frames |-> <<>>, at |-> 0, open |-> NoFile,
         known |-> [path \in {<<>>} |-> Root], files |-> 0, dirs |-> 0, total |-> 0,
         name |-> <<>>, result |-> ""]

At(r, pc) == task[r].pc = pc
Goes(r, t) == task' = [task EXCEPT ![r] = t]
Ends(r, result) == Goes(r, [Idle EXCEPT !.pc = "done", !.result = result, !.known = task[r].known])
Rec(r) == task[r].frames[task[r].at + 1]
Onward(t) == [t EXCEPT !.pc = "next", !.at = @ + 1]

\* Mutant of Complete: all frames of the windows so far will do.
CompleteSoFar == kept /\ sent # <<>>

\* The whole session is there: its last record ends the transfer.
Complete == kept /\ sent # <<>> /\ Last(sent).type = "TRANSFER_END"

\* showStats() enables the button whenever the session is complete, also
\* while a reconstruction runs.
Press(r) ==
  /\ At(r, "idle") /\ Complete
  /\ Goes(r, [Idle EXCEPT !.pc = "next", !.frames = sent])
  /\ UNCHANGED <<docs, kept, mishaps>>

\* Storage fails: no space, no permission, a folder that is a file.
StorageFails(r) ==
  /\ mishaps < MaxMishaps /\ mishaps' = mishaps + 1
  /\ Ends(r, "storage")
  /\ UNCHANGED <<docs, kept>>

TakeSession(r) ==
  /\ Rec(r).type = "SESSION"
  /\ Goes(r, Onward(task[r]))
  /\ UNCHANGED docs

TakePath(r) ==
  /\ Rec(r).type \in {"DIRECTORY", "FILE_BEGIN"}
  /\ IF Rec(r).type = "FILE_BEGIN" /\ task[r].open # NoFile
     THEN Ends(r, "nested")
     ELSE Goes(r, [task[r] EXCEPT !.pc = "dir"])
  /\ UNCHANGED docs

TakeData(r) ==
  LET open == task[r].open
      body == Rec(r).body
  IN /\ Rec(r).type = "FILE_DATA"
     /\ IF open = NoFile \/ open.id # body.file \/ body.offset # Len(open.written)
        THEN Ends(r, "gap") /\ UNCHANGED docs
        ELSE /\ docs' = [docs EXCEPT ![open.doc].data = @ \o body.data]
             /\ Goes(r, Onward([task[r] EXCEPT !.open.written = @ \o body.data,
                                               !.total = @ + Len(body.data)]))

TakeEnd(r) ==
  LET open == task[r].open
      body == Rec(r).body
  IN /\ Rec(r).type = "FILE_END"
     /\ IF \/ open = NoFile \/ open.id # body.file
           \/ body.size # open.size \/ Len(open.written) # open.size \/ open.written # body.crc
        THEN Ends(r, "mismatch") /\ UNCHANGED docs
        ELSE /\ docs' = [docs EXCEPT ![open.doc].name = Granted(docs[open.doc].parent, open.final)]
             /\ Goes(r, Onward([task[r] EXCEPT !.open = NoFile, !.files = @ + 1]))

TakeSummary(r) ==
  LET t == task[r]
      body == Rec(r).body
  IN /\ Rec(r).type = "TRANSFER_END"
     /\ Ends(r, IF /\ t.open = NoFile /\ body.files = t.files
                   /\ body.dirs = t.dirs /\ body.total = t.total
                THEN "VALID" ELSE "summary")
     /\ UNCHANGED docs

\* The next frame; its file is gone after a reset.
Take(r) ==
  /\ At(r, "next")
  /\ IF task[r].at = Len(task[r].frames) THEN Ends(r, "short") /\ UNCHANGED docs
     ELSE IF ~kept THEN Ends(r, "deleted") /\ UNCHANGED docs
     ELSE IF Rec(r).id # task[r].at THEN Ends(r, "gap") /\ UNCHANGED docs
     ELSE \/ TakeSession(r) \/ TakePath(r) \/ TakeData(r) \/ TakeEnd(r) \/ TakeSummary(r)
  /\ UNCHANGED <<kept, mishaps>>

\* ensureDirectory(): of a path, or of the folder of a file.
Folder(r) == IF Rec(r).type = "DIRECTORY" THEN Rec(r).body.path ELSE Front(Rec(r).body.path)
Unknown(r) == {k \in DOMAIN Folder(r) : SubSeq(Folder(r), 1, k) \notin DOMAIN task[r].known}
NextPart(r) == CHOOSE k \in Unknown(r) : \A j \in Unknown(r) : k <= j
Above(r) == task[r].known[SubSeq(Folder(r), 1, NextPart(r) - 1)]

\* directories.put().
Known(known, path, d) == [q \in DOMAIN known \cup {path} |-> IF q = path THEN d ELSE known[q]]
Knows(r, d) ==
  [task[r] EXCEPT !.pc = "dir", !.known = Known(@, SubSeq(Folder(r), 1, NextPart(r)), d)]

\* find() of the next folder; with all of them known, a DIRECTORY is done
\* and a file gets the name it will have.
Find(r) ==
  /\ At(r, "dir")
  /\ LET part == Final(Folder(r)[NextPart(r)])
         found == {d \in DOMAIN docs : docs[d].parent = Above(r) /\ docs[d].name = part}
         in == task[r].known[Folder(r)]
     IN IF Unknown(r) # {}
        THEN IF found = {} THEN Goes(r, [task[r] EXCEPT !.pc = "mkdir"])
             ELSE Goes(r, Knows(r, CHOOSE d \in found : TRUE))
        ELSE IF Rec(r).type = "DIRECTORY"
        THEN Goes(r, Onward([task[r] EXCEPT !.dirs = @ + 1]))
        ELSE Goes(r, [task[r] EXCEPT !.pc = "create",
                        !.name = Unused(in, Final(Last(Rec(r).body.path)))])
  /\ UNCHANGED <<docs, kept, mishaps>>

Creates(r, parent, name, kind) ==
  docs' = Append(docs, Doc(parent, Granted(parent, name), kind, r))

MakeFolder(r) ==
  /\ At(r, "mkdir")
  /\ IF IsFolder(Above(r))
     THEN /\ Creates(r, Above(r), Final(Folder(r)[NextPart(r)]), "dir")
          /\ Goes(r, Knows(r, Len(docs) + 1))
     ELSE Ends(r, "storage") /\ UNCHANGED docs
  /\ UNCHANGED <<kept, mishaps>>

CreateFile(r) ==
  /\ At(r, "create")
  /\ LET in == task[r].known[Folder(r)]
         name == task[r].name
         open == [id |-> Rec(r).body.file, size |-> Rec(r).body.size, written |-> <<>>,
                  final |-> name, doc |-> Len(docs) + 1]
     IN IF IsFolder(in)
        THEN /\ Creates(r, in, <<name[1], name[2], 0>>, "file")
             /\ Goes(r, Onward([task[r] EXCEPT !.open = open]))
        ELSE Ends(r, "storage") /\ UNCHANGED docs
  /\ UNCHANGED <<kept, mishaps>>

TouchesStorage(r) ==
  \/ At(r, "mkdir") \/ At(r, "create")
  \/ At(r, "next") /\ task[r].at < Len(task[r].frames) /\ kept
     /\ Rec(r).type \in {"FILE_DATA", "FILE_END"} /\ task[r].open # NoFile

Running(r) == ~At(r, "idle") /\ ~At(r, "done")

\* Reset session, also while a reconstruction reads its frames.
Reset ==
  /\ kept /\ Complete
  /\ kept' = FALSE
  /\ UNCHANGED <<docs, task, mishaps>>

Kill ==
  /\ mishaps < MaxMishaps /\ \E r \in Readers : Running(r)
  /\ task' = [r \in Readers |-> IF Running(r) THEN [Idle EXCEPT !.pc = "done", !.result = "killed"]
                              ELSE task[r]]
  /\ mishaps' = mishaps + 1
  /\ UNCHANGED <<docs, kept>>

Step(r) ==
  \/ Take(r) \/ Find(r) \/ MakeFolder(r) \/ CreateFile(r)
  \/ TouchesStorage(r) /\ StorageFails(r)

Reconstruct ==
  \/ \E r \in Readers : Press(r) \/ Step(r)
  \/ Reset \/ Kill

-----------------------------------------------------------------------------
Init ==
  /\ tree \in Trees /\ selection \in Selections
  /\ manifest = ManifestOf(tree, selection)
  /\ version = [n \in DOMAIN tree |-> 0]
  /\ p = [state |-> 0, next |-> 1, id |-> 0, file |-> <<>>, files |-> 0, dirs |-> 0,
          total |-> 0, finished |-> FALSE]
  /\ window = <<>> /\ sent = <<>> /\ phase = "filling" /\ lost = 0
  /\ docs \in {[k \in DOMAIN e |-> Doc(Root, Final(e[k]), "file", "user")] : e \in Existing}
  /\ task = [r \in Readers |-> Idle]
  /\ kept = TRUE /\ mishaps = 0

Next ==
  \/ Produce /\ UNCHANGED receiver
  \/ Reconstruct /\ UNCHANGED sender

Spec == Init /\ [][Next]_vars

-----------------------------------------------------------------------------
(* Properties.                                                             *)

\* Whatever a reconstruction has given its own name is a selected file as it
\* was when it was selected, also when it has changed while it was sent and
\* whatever became of the reconstruction afterwards.
FinalIsWhole ==
  \A d \in DOMAIN docs :
    docs[d].by # "user" /\ docs[d].kind = "file" /\ docs[d].name[3] < 0 =>
      \E n \in DOMAIN tree : tree[n].name = docs[d].name[1] /\ docs[d].data = Blocks(n, 0)

\* All there is at and below the selected nodes, as paths of nodes; the first
\* is numbered as what was selected may be twice.
Under(C) ==
  UNION {{<<c[1], Append(c[2], k)>> : k \in {k \in ToSet(tree[Last(c[2])].children) :
                                               tree[k].name # Manifest}} : c \in C}
Wanted ==
  LET top == {<<s, <<selection[s]>>>> : s \in DOMAIN selection}
      down[d \in 0..Cardinality(DOMAIN tree)] ==
        IF d = 0 THEN {} ELSE top \cup Under(down[d - 1])
  IN down[Cardinality(DOMAIN tree)]
Kind(c) == tree[Last(c[2])].kind
Names(c) == [i \in DOMAIN c[2] |-> tree[c[2][i]].name]
Content(c) == Blocks(Last(c[2]), 0)

\* The names on the way to each document.
Paths ==
  LET path[d \in 0..Len(docs)] ==
        IF d = Root THEN <<>> ELSE Append(path[docs[d].parent], docs[d].name[1])
  IN path
Reached(r) == {task[r].known[path] : path \in DOMAIN task[r].known}
Made(r) ==
  {d \in DOMAIN docs : docs[d].by = r /\ docs[d].kind = "file" /\ docs[d].name[3] < 0}

\* A green VALID: of each file selected, in each place where it was selected,
\* there is a document of its own, and there are all the folders.
ValidMeansAll ==
  \A r \in Readers : task[r].result = "VALID" =>
    LET wanted == Wanted
        paths == Paths
        same(c) == {e \in wanted : Kind(e) = "file" /\ Names(e) = Names(c)
                                   /\ Content(e) = Content(c)}
        got(c) == {d \in Made(r) : paths[d] = Names(c) /\ docs[d].data = Content(c)}
    IN \A c \in wanted :
         IF Kind(c) = "file" THEN Cardinality(got(c)) >= Cardinality(same(c))
         ELSE \E d \in Reached(r) : paths[d] = Names(c)

\* The bytes of the first k entries of a manifest.
Totals(m) ==
  LET total[k \in 0..Len(m)] ==
        IF k = 0 THEN 0 ELSE total[k - 1] + (IF m[k].kind = "file" THEN m[k].size ELSE 0)
  IN total
AllBytes == Totals(manifest)[Len(manifest)]
Failed(r) == task[r].result \notin {"", "VALID", "storage", "deleted", "killed"}

\* With less than 4 GiB in all, a complete session is reconstructed unless
\* the phone's storage fails or the session is reset meanwhile: records,
\* offsets, sizes, checksums and totals of the sender are what the receiver
\* expects, and two reconstructions do not disturb each other.
OnlyStorageFails == (\E r \in Readers : Failed(r)) => AllBytes >= Word
=============================================================================
