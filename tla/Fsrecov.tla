------------------------------- MODULE Fsrecov -------------------------------
(***************************************************************************)
(* m8/fsrecov.c: BMP files found in a FAT32 image, with their checksums.    *)
(*                                                                          *)
(* Every 32 bytes of the data area are looked at as if they were a          *)
(* directory entry, those in the middle of a file too; names, clusters and  *)
(* sizes are whatever the bytes say.  What is taken for a file is written   *)
(* to a temporary one, on which one or two external tools are run.          *)
(* Sizes and offsets are in bytes; how long entries and headers are is      *)
(* given by constants, so that instances can be small.                      *)
(***************************************************************************)
EXTENDS Integers, Sequences, FiniteSetsExt, SequencesExt

CONSTANTS Images,         \* contents of the file: what each byte begins
          Headers,        \* what its header may say
          Ext, Odd,       \* parts of a name: ends in .bmp; not allowed in a name
          HEADER, ENTRY,  \* sizeof(struct fat32hdr), 512, and struct fat32dent, 32
          BMP_HEADER,     \* 54
          MAX_FOUND,      \* 4096
          MAX_LFN_PARTS,  \* 20
          Faults          \* calls that may fail

\* What the bytes from some place on mean to whoever reads them as a directory
\* entry or as the beginning of a BMP file: kind, name or part of one, cluster,
\* size.  An image has a slot for each of its bytes.
Slot == [kind : {"zero", "lfn", "other", "file", "bmp"}, name : Nat, cluster : Nat, size : Nat]
Header == [valid : BOOLEAN, bytesPerSec : Nat, sectors : Nat, reserved : Nat, perCluster : Nat]

ASSUME FsrecovAssumption ==
    /\ Images \subseteq Seq(Slot) /\ Headers \subseteq Header
    /\ HEADER \in Nat \ {0} /\ ENTRY \in Nat \ {0}
    /\ BMP_HEADER \in Nat \ {0} /\ MAX_FOUND \in Nat \ {0} /\ MAX_LFN_PARTS \in Nat \ {0}
    /\ Ext \subseteq Nat /\ Odd \subseteq Nat
    /\ Faults \subseteq {"open", "mkstemp", "write", "close", "pipe", "fork", "tool", "wait"}

VARIABLES image, header,
          pc,
          off, lfn, items,      \* collect_candidates
          reached,              \* history: end of the part of the image that was read
          next,                 \* the candidate at work
          tmp,                  \* its temporary file: bytes written, or NoFile
          ok, tool, digest,
          fds,                  \* open descriptors
          child, childOut,      \* the tool, and whether it has the pipe's write end
          pipe,                 \* digests in the pipe
          failed,               \* history: candidates whose temporary file was cut short
          out                   \* lines printed

scan == << off, lfn, items >>
sum == << tmp, ok, tool, digest, fds, child, childOut, pipe >>
vars == << image, header, pc, scan, reached, next, sum, failed, out >>

NoFile == -1
NoDigest == -1

(* --- the view of the image -------------------------------------------------- *)

Mapped == Len(image)
\* Reading beyond the mapping is undefined; that it never happens is a property.
At(o) == IF o < Mapped THEN image[o + 1]
         ELSE [kind |-> "zero", name |-> 0, cluster |-> 0, size |-> 0]

\* fat_image_bytes; reserved counts the sectors in front of the data, those of
\* the FATs too.
ImageSize == header.sectors * header.bytesPerSec
DataOffset == header.reserved * header.bytesPerSec
ClusterSize == header.perCluster * header.bytesPerSec

\* Faulty variant: the declared size is not compared with that of the file.
InitFatViewUnchecked ==
    /\ Mapped >= HEADER /\ header.valid
    /\ ClusterSize > 0 /\ ImageSize > 0 /\ DataOffset < ImageSize

\* init_fat_view
InitFatView ==
    /\ Mapped >= HEADER /\ header.valid
    /\ header.bytesPerSec > 0 /\ header.perCluster > 0
    /\ ImageSize > 0 /\ ImageSize <= Mapped
    /\ ClusterSize > 0 /\ DataOffset < ImageSize

\* cluster_offset
ClusterOffset(c) == IF c < 2 THEN ImageSize ELSE DataOffset + (c - 2) * ClusterSize

(* --- collect_candidates -------------------------------------------------------- *)

\* append_lfn_part and short_name: part 0 has no character that is kept.
Join(parts) == SelectSeq(Reverse(parts), LAMBDA x : x # 0)
NameOf(slot) == IF lfn # << >> THEN Join(lfn) ELSE Join(<< slot.name >>)

ValidFilename(n) ==
    n # << >> /\ Last(n) \in Ext /\ \A k \in 1 .. Len(n) : n[k] \notin Odd

\* bmp_header_ok
BmpHeaderOk(data, size) ==
    /\ ImageSize - data >= BMP_HEADER /\ size >= BMP_HEADER /\ ImageSize - data >= size
    /\ At(data).kind = "bmp" /\ At(data).size = size

\* seen_candidate
SeenCandidate(cluster, name) ==
    \E k \in 1 .. Len(items) : items[k].cluster = cluster \/ items[k].name = name

\* The data of a file lies inside the image.
Inside(data, size) == size > 0 /\ data < ImageSize /\ size <= ImageSize - data

Reach(end) == reached' = Max({reached, end})

\* Faulty variant: an entry that lacks its last byte is looked at.
ScanTail(s) ==
    pc = "scan" /\ off + ENTRY - 1 <= ImageSize /\ At(off) = s /\ off' = off + ENTRY

\* The entry at off is complete.
Scan(s) == pc = "scan" /\ off + ENTRY <= ImageSize /\ At(off) = s /\ off' = off + ENTRY

Rest == UNCHANGED << image, header, pc, next, sum, failed, out >>

\* Faulty variant: a deleted or empty entry does not end a long name.
ScanOtherKeep(s) ==
    /\ Scan(s) /\ s.kind \in {"zero", "other", "bmp"}
    /\ lfn' = IF s.kind = "zero" THEN lfn ELSE << >>
    /\ items' = items /\ Reach(off + ENTRY) /\ Rest

\* An entry that is empty, a directory or no archive ends a long name.
ScanOther(s) ==
    /\ Scan(s) /\ s.kind \in {"zero", "other", "bmp"}
    /\ lfn' = << >> /\ items' = items /\ Reach(off + ENTRY) /\ Rest

\* A part of a long name, the last one first; those beyond the limit are lost.
ScanLfn(s) ==
    /\ Scan(s) /\ s.kind = "lfn"
    /\ lfn' = IF Len(lfn) < MAX_LFN_PARTS THEN Append(lfn, s.name) ELSE lfn
    /\ items' = items /\ Reach(off + ENTRY) /\ Rest

\* An entry of a file: a candidate if everything about it makes sense.
ScanFile(s) ==
    /\ Scan(s) /\ s.kind = "file" /\ lfn' = << >>
    /\ LET name == NameOf(s)
           data == ClusterOffset(s.cluster)
           plausible == /\ Len(items) < MAX_FOUND /\ ValidFilename(name)
                        /\ Inside(data, s.size)
       IN  /\ items' = IF /\ plausible /\ BmpHeaderOk(data, s.size)
                          /\ ~SeenCandidate(s.cluster, name)
                       THEN Append(items, [name |-> name, cluster |-> s.cluster, size |-> s.size])
                       ELSE items
           /\ Reach(IF plausible /\ ImageSize - data >= BMP_HEADER /\ s.size >= BMP_HEADER
                    THEN Max({off + ENTRY, data + BMP_HEADER}) ELSE off + ENTRY)
    /\ Rest

ScanDone ==
    /\ pc = "scan" /\ off + ENTRY > ImageSize
    /\ pc' = "next" /\ next' = 1
    /\ UNCHANGED << image, header, scan, reached, sum, failed, out >>

(* --- main ------------------------------------------------------------------------ *)

Init ==
    /\ image \in Images /\ header \in Headers
    /\ pc = "start" /\ off = 0 /\ lfn = << >> /\ items = << >> /\ reached = 0
    /\ next = 0 /\ tmp = NoFile /\ ok = FALSE /\ tool = "none" /\ digest = NoDigest
    /\ fds = {} /\ child = "none" /\ childOut = FALSE /\ pipe = << >>
    /\ failed = {} /\ out = << >>

\* map_disk (which cannot map an empty file) and init_fat_view, which looks at
\* the header if the file is long enough to have one.
MapDisk ==
    /\ pc = "start"
    /\ \/ Mapped > 0 /\ InitFatView /\ pc' = "scan" /\ off' = DataOffset
       \/ Mapped > 0 /\ ~InitFatView /\ pc' = "refused" /\ off' = off
       \/ (Mapped = 0 \/ "open" \in Faults) /\ pc' = "refused" /\ off' = off
    /\ reached' = IF Mapped >= HEADER THEN HEADER ELSE 0
    /\ UNCHANGED << image, header, lfn, items, next, sum, failed, out >>

Finish ==
    /\ pc = "next" /\ next > Len(items) /\ pc' = "done"
    /\ UNCHANGED << image, header, scan, reached, next, sum, failed, out >>

(* --- sha1sum_file ------------------------------------------------------------------ *)

Item == items[next]
Fixed == UNCHANGED << image, header, scan, reached >>

Mkstemp ==
    /\ pc = "next" /\ next <= Len(items)
    /\ \/ /\ pc' = "write" /\ tmp' = 0 /\ fds' = {"tmp"} /\ ok' = TRUE
          /\ next' = next
       \/ "mkstemp" \in Faults /\ next' = next + 1 /\ UNCHANGED << pc, tmp, fds, ok >>
    /\ Fixed /\ UNCHANGED << tool, digest, child, childOut, pipe, failed, out >>

\* Faulty variant: a write is taken to be complete.
WriteOnce ==
    /\ pc = "write" /\ tmp < Item.size
    /\ \/ /\ tmp' \in tmp + 1 .. Item.size /\ pc' = "close"
          /\ Reach(ClusterOffset(Item.cluster) + tmp')
          /\ UNCHANGED << ok, failed >>
       \/ /\ "write" \in Faults /\ pc' = "close" /\ ok' = FALSE
          /\ failed' = failed \cup {next} /\ UNCHANGED << tmp, reached >>
    /\ UNCHANGED << image, header, scan, next, tool, digest, fds, child, childOut, pipe, out >>

\* write_all: one write, which may take a part, or fails.
Write ==
    /\ pc = "write" /\ tmp < Item.size
    /\ \/ /\ tmp' \in tmp + 1 .. Item.size
          /\ Reach(ClusterOffset(Item.cluster) + tmp')
          /\ UNCHANGED << pc, ok, failed >>
       \/ /\ "write" \in Faults /\ pc' = "close" /\ ok' = FALSE
          /\ failed' = failed \cup {next} /\ UNCHANGED << tmp, reached >>
    /\ UNCHANGED << image, header, scan, next, tool, digest, fds, child, childOut, pipe, out >>

\* Whether another tool is run.
TryTool(t) == pc' = "tool" /\ tool' = t

\* The file is closed; sha1sum is left out when it could not be written.
Close ==
    /\ pc = "close" \/ (pc = "write" /\ tmp = Item.size)
    /\ fds' = fds \ {"tmp"}
    /\ \/ ok' = ok /\ TryTool(IF ok THEN "sha1sum" ELSE "shasum")
       \/ "close" \in Faults /\ ok' = FALSE /\ TryTool("shasum")
    /\ Fixed /\ UNCHANGED << next, tmp, digest, child, childOut, pipe, failed, out >>

(* --- run_checksum_tool --------------------------------------------------------------- *)

\* It has returned r: shasum follows a sha1sum that failed, and then the
\* temporary file is removed and the line printed.
Returns(r) ==
    /\ ok' = r
    /\ IF ~r /\ tool = "sha1sum" THEN TryTool("shasum") ELSE pc' = "unlink" /\ tool' = tool

StartTool ==
    /\ pc = "tool"
    /\ \/ /\ pc' = "started" /\ fds' = fds \cup {"rd", "wr"}
          /\ child' = "running" /\ childOut' = TRUE /\ pipe' = << >>
          /\ UNCHANGED << ok, tool >>
       \/ /\ Faults \cap {"pipe", "fork"} # {} /\ Returns(FALSE)
          /\ UNCHANGED << fds, child, childOut, pipe >>
    /\ Fixed /\ UNCHANGED << next, tmp, digest, failed, out >>

\* The tool (external): writes a checksum of the file as it is, or nothing, or
\* something else.
ToolWrites ==
    /\ child = "running" /\ childOut /\ pipe = << >>
    /\ \/ pipe' = << tmp >>
       \/ "tool" \in Faults /\ pipe' = << NoDigest >>
    /\ UNCHANGED << image, header, pc, scan, reached, next, tmp, ok, tool, digest, fds,
                    child, childOut, failed, out >>

\* The tool ends: well if it has written its checksum.
ToolEnds ==
    /\ child = "running" /\ childOut' = FALSE
    /\ \/ pipe # << >> /\ child' = "0"
       \/ "tool" \in Faults /\ child' = "1"
    /\ UNCHANGED << image, header, pc, scan, reached, next, tmp, ok, tool, digest, fds,
                    pipe, failed, out >>

\* Faulty variant: the parent keeps the write end.
KeepWriteEnd == fds' = fds

CloseWriteEnd == fds' = fds \ {"wr"}

StartReading ==
    /\ pc = "started" /\ pc' = "reading" /\ CloseWriteEnd
    /\ Fixed /\ UNCHANGED << next, tmp, ok, tool, digest, child, childOut, pipe, failed, out >>

\* Faulty variant: the read end stays open.
GotDigestOpen ==
    /\ pc = "reading" /\ pc' = "wait"
    /\ \/ /\ pipe # << >> /\ ok' = (Head(pipe) # NoDigest)
          /\ digest' = IF Head(pipe) = NoDigest THEN digest ELSE Head(pipe)
       \/ pipe = << >> /\ ~childOut /\ "wr" \notin fds /\ ok' = FALSE /\ digest' = digest
    /\ Fixed /\ UNCHANGED << next, tmp, fds, tool, child, childOut, pipe, failed, out >>

\* read_digest: one read, which ends when there is something or nobody left to
\* write; then close.
GotDigest ==
    /\ pc = "reading" /\ pc' = "wait"
    /\ \/ /\ pipe # << >> /\ ok' = (Head(pipe) # NoDigest)
          /\ digest' = IF Head(pipe) = NoDigest THEN digest ELSE Head(pipe)
       \/ pipe = << >> /\ ~childOut /\ "wr" \notin fds /\ ok' = FALSE /\ digest' = digest
    /\ fds' = fds \ {"rd"}
    /\ Fixed /\ UNCHANGED << next, tmp, tool, child, childOut, pipe, failed, out >>

\* waitpid, and the exit status counts as much as the checksum.
WaitTool ==
    /\ pc = "wait" /\ child \notin {"running", "none"} /\ child' = "none"
    /\ \/ Returns(ok /\ child = "0")
       \/ "wait" \in Faults /\ Returns(FALSE)
    /\ Fixed /\ UNCHANGED << next, tmp, digest, fds, childOut, pipe, failed, out >>

\* unlink, and main prints the line.
Unlink ==
    /\ pc = "unlink" /\ pc' = "next" /\ next' = next + 1 /\ tmp' = NoFile
    /\ out' = IF ok THEN Append(out, [name |-> Item.name, item |-> next, digest |-> digest])
              ELSE out
    /\ Fixed /\ UNCHANGED << ok, tool, digest, fds, child, childOut, pipe, failed >>

Program == \/ MapDisk \/ \E s \in Range(image) : ScanOther(s) \/ ScanLfn(s) \/ ScanFile(s)
           \/ ScanDone \/ Mkstemp \/ Write \/ Close \/ StartTool \/ StartReading
           \/ GotDigest \/ WaitTool \/ Unlink \/ Finish

Next == Program \/ ToolWrites \/ ToolEnds

\* The program and the tools are scheduled, and a tool comes to an end.
Spec == Init /\ [][Next]_vars /\ WF_vars(Program) /\ WF_vars(ToolWrites) /\ WF_vars(ToolEnds)

(* --- properties ------------------------------------------------------------------------ *)

\* The values of the variables; names are valid ones, within the two limits.
TypeOK ==
    /\ pc \in {"start", "refused", "scan", "next", "write", "close", "tool", "started",
               "reading", "wait", "unlink", "done"}
    /\ off \in Nat /\ reached \in Nat /\ next \in 0 .. MAX_FOUND + 1
    /\ lfn \in Seq(Nat) /\ Len(lfn) <= MAX_LFN_PARTS
    /\ Len(items) <= MAX_FOUND
    /\ \A k \in 1 .. Len(items) : /\ ValidFilename(items[k].name)
                                  /\ items[k].cluster \in Nat /\ items[k].size \in Nat
    /\ tmp \in Nat \cup {NoFile} /\ ok \in BOOLEAN /\ tool \in {"none", "sha1sum", "shasum"}
    /\ digest \in Nat \cup {NoDigest} /\ fds \subseteq {"tmp", "rd", "wr"}
    /\ child \in {"none", "running", "0", "1"} /\ childOut \in BOOLEAN
    /\ failed \subseteq 1 .. Len(items)

\* Whatever header, entries and sizes say, only bytes of the mapping are read:
\* the header, and the declared part, which the file really has; and the arrays
\* of collect_candidates are kept to as well.
InBounds ==
    /\ TypeOK
    /\ reached <= Mapped
    /\ pc \notin {"start", "refused"} => reached <= Max({HEADER, ImageSize})

(* What is to be found, by the image alone.  Entries are numbered from the    *)
(* beginning of the data; what is left at the end and too short is none.      *)

Offset(e) == DataOffset + e * ENTRY
EntryAt(e) == At(Offset(e))
Complete(e) == Offset(e) + ENTRY <= ImageSize

\* The long name in front of entry e: the parts that follow each other
\* directly up to it, of which the limit is kept, the one at the end first.
PartsBefore(e) ==
    LET from == Min({a \in 0 .. e : \A x \in a .. e - 1 : EntryAt(x).kind = "lfn"})
        n == Min({e - from, MAX_LFN_PARTS})
    IN  [k \in 1 .. n |-> EntryAt(from + k - 1).name]
NameAt(e) ==
    SelectSeq(IF PartsBefore(e) # << >> THEN Reverse(PartsBefore(e)) ELSE << EntryAt(e).name >>,
              LAMBDA x : x # 0)

\* A file: an entry with a name that is allowed and whose data, in the image,
\* begins with the header of a BMP file of the same size.
FileAt(e) ==
    LET size == EntryAt(e).size
        data == ClusterOffset(EntryAt(e).cluster)
    IN  /\ EntryAt(e).kind = "file" /\ ValidFilename(NameAt(e))
        /\ data + BMP_HEADER <= ImageSize /\ data + size <= ImageSize /\ size >= BMP_HEADER
        /\ At(data).kind = "bmp" /\ At(data).size = size
Found(e) == [name |-> NameAt(e), cluster |-> EntryAt(e).cluster, size |-> EntryAt(e).size]

\* After the scan every candidate is a file of the image under the name that
\* stands directly before its entry, never under one left over from elsewhere;
\* no name and no cluster comes twice; and a file that is not a candidate comes
\* after one with its name or its cluster, or after the list was full.
CandidatesRight ==
    pc = "next" /\ next = 1 =>
        LET entries == {e \in 0 .. ImageSize : Complete(e) /\ FileAt(e)}
            first == [k \in 1 .. Len(items) |->
                         Min({e \in entries : Found(e) = items[k]} \cup {ImageSize})]
        IN  /\ \A k \in 1 .. Len(items) : first[k] < ImageSize
            /\ \A j, k \in 1 .. Len(items) : j < k =>
                  /\ first[j] < first[k]
                  /\ items[j].name # items[k].name /\ items[j].cluster # items[k].cluster
            /\ \A e \in entries : \E k \in 1 .. Len(items) :
                  first[k] <= e /\ \/ items[k].name = NameAt(e)
                                   \/ items[k].cluster = EntryAt(e).cluster
                                   \/ k = MAX_FOUND

\* Every line has the checksum of the whole file next to its name, whatever
\* tools failed before; except that of a file whose copy could not be written,
\* which shasum takes as it is.
DigestsRight ==
    \A k \in 1 .. Len(out) :
        /\ out[k].name = items[out[k].item].name
        /\ out[k].digest = items[out[k].item].size \/ out[k].item \in failed

\* Between two candidates, and at the end, no temporary file, descriptor or
\* process is left, on whichever of its ways sha1sum_file returned.
NothingLeft == pc \in {"next", "done"} => tmp = NoFile /\ fds = {} /\ child = "none"

\* The program ends, though tools may end without having written anything.
Ends == <>(pc \in {"done", "refused"})
=============================================================================
