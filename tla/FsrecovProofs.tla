---------------------------- MODULE FsrecovProofs ----------------------------
(***************************************************************************)
(* Proofs about fsrecov for any image, any header and any of the calls     *)
(* failing: what is read lies in the image, the scan finds the files in    *)
(* it, every line has the right checksum, and nothing is left behind.      *)
(***************************************************************************)
EXTENDS Fsrecov, SequenceTheorems, WellFoundedInduction, TLAPS

\* The abbreviations for tuples of variables are always expanded.
USE DEF scan, sum

----------------------------------------------------------------------------
(* The inductive invariant.                                                *)

Names == {Join(p) : p \in Seq(Nat)}
ItemType == [name : Names, cluster : Nat, size : Nat]
LineType == [name : Names, item : Nat, digest : Nat \cup {NoDigest}]

\* Only the mapping was read; once the header is accepted its declared part is
\* there, and nothing behind it was looked at except the header.
Farthest == Max({HEADER, ImageSize})
ImageOK ==
    /\ image \in Seq(Slot) /\ header \in Header
    /\ reached <= Mapped
    /\ pc \notin {"start", "refused"} => reached <= Farthest /\ ImageSize <= Mapped

\* The data of every candidate lies in the declared part.
ItemsOK ==
    /\ items \in Seq(ItemType)
    /\ \A k \in 1 .. Len(items) : Inside(ClusterOffset(items[k].cluster), items[k].size)

Tooling == {"started", "reading", "wait"}
Written == Tooling \cup {"tool", "unlink"}

\* The temporary file, which is whole from the moment it is closed unless a
\* write failed, and the descriptors that are open at each step.
FileOK ==
    /\ pc \in Written \cup {"write", "close"} =>
          next \in 1 .. Len(items) /\ tmp \in 0 .. items[next].size
    /\ pc \in Written => tmp = items[next].size \/ next \in failed
    /\ pc = "close" => next \in failed
    /\ pc \in {"start", "refused", "scan", "next", "done"} => tmp = NoFile
    /\ pc = "next" => next >= 1
    /\ pc \in {"write", "close"} => fds = {"tmp"}
    /\ pc = "started" => fds = {"rd", "wr"}
    /\ pc = "reading" => fds = {"rd"}
    /\ pc \notin {"write", "close", "started", "reading"} => fds = {}

\* A tool is there from its start until it was waited for, and what it has
\* written is the checksum of the file as it is, or no checksum.
ToolOK ==
    /\ child = "none" <=> pc \notin Tooling
    /\ pc \in Tooling => pipe \in {<< >>, << tmp >>, << NoDigest >>}
    /\ pc \in {"wait", "unlink"} => (ok => digest = tmp)

\* The lines printed are about candidates that the scan has found.
OutOK ==
    /\ out \in Seq(LineType) /\ \A k \in 1 .. Len(out) : out[k].item \in 1 .. Len(items)
    /\ pc \in {"start", "refused", "scan"} => out = << >> /\ failed = {}
    /\ DigestsRight

Inv == TypeOK /\ ImageOK /\ ItemsOK /\ FileOK /\ ToolOK /\ OutOK

----------------------------------------------------------------------------
(* The image.                                                              *)

LEMMA MaxOfTwo ==
    ASSUME NEW a \in Nat, NEW b \in Nat
    PROVE  Max({a, b}) = IF a >= b THEN a ELSE b
  BY DEF Max

\* Sizes and offsets are numbers, whatever the header says.
LEMMA Sizes ==
    ASSUME header \in Header
    PROVE  /\ ImageSize \in Nat /\ DataOffset \in Nat /\ ClusterSize \in Nat
           /\ \A c \in Nat : ClusterOffset(c) \in Nat
           /\ HEADER \in Nat \ {0} /\ ENTRY \in Nat \ {0}
           /\ Farthest \in Nat /\ ImageSize <= Farthest /\ HEADER <= Farthest
  <1>1. ImageSize \in Nat /\ DataOffset \in Nat /\ ClusterSize \in Nat
    <2>1. /\ header.sectors \in Nat /\ header.reserved \in Nat /\ header.perCluster \in Nat
          /\ header.bytesPerSec \in Nat
      BY DEF Header
    <2>2. \A a, c \in Nat : a * c \in Nat OBVIOUS
    <2> QED BY <2>1, <2>2 DEF ImageSize, DataOffset, ClusterSize
  <1>2. ASSUME NEW c \in Nat PROVE ClusterOffset(c) \in Nat
    <2>1. CASE c < 2 BY <1>1, <2>1 DEF ClusterOffset
    <2>2. CASE ~ (c < 2)
      <3>1. c - 2 \in Nat BY <2>2
      <3>2. (c - 2) * ClusterSize \in Nat BY <1>1, <3>1
      <3> QED BY <1>1, <2>2, <3>2 DEF ClusterOffset
    <2> QED BY <2>1, <2>2
  <1>3. HEADER \in Nat \ {0} /\ ENTRY \in Nat \ {0} BY FsrecovAssumption
  <1>4. Farthest \in Nat /\ ImageSize <= Farthest /\ HEADER <= Farthest
    BY <1>1, <1>3, MaxOfTwo DEF Farthest
  <1> QED BY <1>1, <1>2, <1>3, <1>4

LEMMA InvInit == Init => Inv
  <1> SUFFICES ASSUME Init PROVE Inv OBVIOUS
  <1>1. image \in Seq(Slot) /\ header \in Header
    BY FsrecovAssumption DEF Init
  <1>t. MAX_FOUND \in Nat /\ MAX_LFN_PARTS \in Nat
    BY FsrecovAssumption
  <1>2. TypeOK
    <2>1. Len(items) = 0 /\ Len(lfn) = 0 /\ lfn \in Seq(Nat)
      BY DEF Init
    <2>2. /\ pc = "start" /\ off = 0 /\ reached = 0 /\ next = 0 /\ tmp = NoFile /\ ok = FALSE
          /\ tool = "none" /\ digest = NoDigest /\ fds = {} /\ child = "none"
          /\ childOut = FALSE /\ failed = {}
      BY DEF Init
    <2>3. next \in 0 .. MAX_FOUND + 1 BY <1>t, <2>2
    <2>4. Len(items) <= MAX_FOUND /\ Len(lfn) <= MAX_LFN_PARTS BY <1>t, <2>1
    <2>5. \A k \in 1 .. Len(items) : FALSE BY <2>1
    <2>6. failed \subseteq 1 .. Len(items) BY <2>2
    <2>7. ok \in BOOLEAN /\ childOut \in BOOLEAN BY <2>2
    <2>8. off \in Nat /\ reached \in Nat BY <2>2
    <2> QED BY <2>1, <2>2, <2>3, <2>4, <2>5, <2>6, <2>7, <2>8, Zenon DEF TypeOK
  <1>3. ImageOK BY <1>1 DEF Init, ImageOK, Mapped
  <1>4. ItemsOK BY DEF Init, ItemsOK
  <1>5. FileOK BY DEF Init, FileOK, Written, Tooling
  <1>6. ToolOK BY DEF Init, ToolOK, Tooling
  <1>7. OutOK BY DEF Init, OutOK, DigestsRight
  <1> QED BY <1>2, <1>3, <1>4, <1>5, <1>6, <1>7 DEF Inv

----------------------------------------------------------------------------
(* map_disk and collect_candidates.                                        *)

LEMMA MapStep == Inv /\ MapDisk => Inv'
  <1> SUFFICES ASSUME Inv, MapDisk PROVE Inv' OBVIOUS
  <1> USE DEF MapDisk
  <1>0. /\ ImageSize' = ImageSize /\ Farthest' = Farthest /\ Mapped' = Mapped
        /\ DataOffset \in Nat /\ Mapped \in Nat /\ HEADER \in Nat /\ HEADER <= Farthest
    BY Sizes DEF ImageSize, Farthest, Mapped, Inv, ImageOK
  <1>1. TypeOK'
    <2>1. reached' \in Nat /\ off' \in Nat BY <1>0 DEF Inv, TypeOK
    <2> QED BY <2>1 DEF Inv, TypeOK
  <1>2. ImageOK'
    <2>1. reached' <= Mapped /\ reached' <= Farthest BY <1>0, Sizes DEF Inv, ImageOK
    <2>2. pc' = "scan" => ImageSize <= Mapped BY DEF InitFatView
    <2> QED BY <1>0, <2>1, <2>2 DEF Inv, ImageOK
  <1>3. ItemsOK'
    BY DEF Inv, ItemsOK, Inside, ClusterOffset, ImageSize, DataOffset, ClusterSize
  <1>4. FileOK' BY DEF Inv, FileOK, Written, Tooling
  <1>5. ToolOK' BY DEF Inv, ToolOK, Tooling
  <1>6. OutOK' BY DEF Inv, OutOK, DigestsRight
  <1> QED BY <1>1, <1>2, <1>3, <1>4, <1>5, <1>6 DEF Inv

\* What every action of the scan leaves alone.
LEMMA ScanKeeps ==
    ASSUME Inv, NEW s \in Range(image), Scan(s), Rest, UNCHANGED items,
           reached' \in Nat, reached' <= Farthest, reached' <= Mapped,
           lfn' \in Seq(Nat), Len(lfn') <= MAX_LFN_PARTS
    PROVE  Inv'
  <1>0. /\ ImageSize' = ImageSize /\ Farthest' = Farthest /\ Mapped' = Mapped
        /\ off' \in Nat
    BY FsrecovAssumption DEF ImageSize, Farthest, Mapped, Rest, Scan, Inv, TypeOK
  <1>1. TypeOK' BY <1>0 DEF Inv, TypeOK, Rest, Scan
  <1>2. ImageOK' BY <1>0 DEF Inv, ImageOK, Rest, Scan
  <1>3. ItemsOK'
    BY DEF Inv, ItemsOK, Inside, ClusterOffset, ImageSize, DataOffset, ClusterSize, Rest
  <1>4. FileOK' BY DEF Inv, FileOK, Written, Tooling, Rest
  <1>5. ToolOK' BY DEF Inv, ToolOK, Tooling, Rest
  <1>6. OutOK' BY DEF Inv, OutOK, DigestsRight, Rest
  <1> QED BY <1>1, <1>2, <1>3, <1>4, <1>5, <1>6 DEF Inv

LEMMA SlotTypes ==
    ASSUME Inv, NEW s \in Range(image)
    PROVE  s \in Slot
  <1>1. image \in Seq(Slot) BY DEF Inv, ImageOK
  <1> QED BY <1>1 DEF Range

\* What ends in the declared part of the image may be read.
LEMMA ReachNext ==
    ASSUME Inv, pc \notin {"start", "refused"}, NEW end \in Nat, end <= ImageSize, Reach(end)
    PROVE  reached' \in Nat /\ reached' <= Farthest /\ reached' <= Mapped
  <1>1. /\ reached \in Nat /\ reached <= Farthest /\ reached <= Mapped /\ Mapped \in Nat
        /\ Farthest \in Nat /\ ImageSize <= Farthest /\ ImageSize <= Mapped /\ ImageSize \in Nat
    BY Sizes DEF Inv, TypeOK, ImageOK, Mapped
  <1>2. reached' = IF reached >= end THEN reached ELSE end
    BY <1>1, MaxOfTwo DEF Reach
  <1> QED BY <1>1, <1>2

\* The end of an entry.
LEMMA EntryInside ==
    ASSUME Inv, NEW s \in Range(image), Scan(s)
    PROVE  /\ off + ENTRY \in Nat /\ off + ENTRY <= ImageSize
           /\ pc \notin {"start", "refused"}
  BY FsrecovAssumption DEF Inv, TypeOK, Scan

LEMMA OtherStep ==
    ASSUME Inv, NEW s \in Range(image), ScanOther(s)
    PROVE  Inv'
  <1>1. Scan(s) /\ Rest /\ UNCHANGED items /\ Reach(off + ENTRY) /\ lfn' = << >>
    BY DEF ScanOther
  <1>2. off + ENTRY \in Nat /\ off + ENTRY <= ImageSize /\ pc \notin {"start", "refused"}
    BY <1>1, EntryInside
  <1>3. reached' \in Nat /\ reached' <= Farthest /\ reached' <= Mapped
    BY <1>1, <1>2, ReachNext
  <1>4. lfn' \in Seq(Nat) /\ Len(lfn') <= MAX_LFN_PARTS BY <1>1, FsrecovAssumption
  <1> QED BY <1>1, <1>3, <1>4, ScanKeeps

LEMMA LfnStep ==
    ASSUME Inv, NEW s \in Range(image), ScanLfn(s)
    PROVE  Inv'
  <1>1. Scan(s) /\ Rest /\ UNCHANGED items /\ Reach(off + ENTRY)
    BY DEF ScanLfn
  <1>2. off + ENTRY \in Nat /\ off + ENTRY <= ImageSize /\ pc \notin {"start", "refused"}
    BY <1>1, EntryInside
  <1>3. reached' \in Nat /\ reached' <= Farthest /\ reached' <= Mapped
    BY <1>1, <1>2, ReachNext
  <1>4. s.name \in Nat BY SlotTypes DEF Slot
  <1>5. lfn \in Seq(Nat) /\ Len(lfn) <= MAX_LFN_PARTS /\ MAX_LFN_PARTS \in Nat
    BY FsrecovAssumption DEF Inv, TypeOK
  <1>6. lfn' \in Seq(Nat) /\ Len(lfn') <= MAX_LFN_PARTS BY <1>4, <1>5 DEF ScanLfn
  <1> QED BY <1>1, <1>3, <1>6, ScanKeeps

\* An entry of a file.  Only what has passed all of the tests is looked at,
\* and only what is a file in the image becomes a candidate.
LEMMA FileStep ==
    ASSUME Inv, NEW s \in Range(image), ScanFile(s)
    PROVE  Inv'
  <1> DEFINE name == NameOf(s)
             data == ClusterOffset(s.cluster)
             new == [name |-> name, cluster |-> s.cluster, size |-> s.size]
             end == IF /\ Len(items) < MAX_FOUND /\ ValidFilename(name) /\ Inside(data, s.size)
                       /\ ImageSize - data >= BMP_HEADER /\ s.size >= BMP_HEADER
                    THEN Max({off + ENTRY, data + BMP_HEADER}) ELSE off + ENTRY
  <1>1. /\ Scan(s) /\ Rest /\ lfn' = << >> /\ Reach(end)
        /\ \/ items' = items
           \/ /\ items' = Append(items, new) /\ Len(items) < MAX_FOUND
              /\ ValidFilename(name) /\ Inside(data, s.size)
    BY DEF ScanFile
  <1>2. /\ s.name \in Nat /\ s.cluster \in Nat /\ s.size \in Nat
        /\ ImageSize \in Nat /\ data \in Nat /\ BMP_HEADER \in Nat /\ off + ENTRY \in Nat
        /\ off + ENTRY <= ImageSize /\ pc \notin {"start", "refused"}
    <2>1. s \in Slot BY SlotTypes
    <2>2. s.name \in Nat /\ s.cluster \in Nat /\ s.size \in Nat BY <2>1 DEF Slot
    <2>3. header \in Header /\ off \in Nat BY DEF Inv, ImageOK, TypeOK
    <2>4. ImageSize \in Nat /\ data \in Nat BY <2>2, <2>3, Sizes
    <2>5. BMP_HEADER \in Nat BY FsrecovAssumption
    <2>6. off + ENTRY \in Nat /\ off + ENTRY <= ImageSize /\ pc \notin {"start", "refused"}
      BY <1>1, EntryInside
    <2> QED BY <2>2, <2>3, <2>4, <2>5, <2>6
  <1>3. end \in Nat /\ end <= ImageSize
    BY <1>2, MaxOfTwo
  <1>4. reached' \in Nat /\ reached' <= Farthest /\ reached' <= Mapped
    BY <1>1, <1>2, <1>3, ReachNext
  <1>5. lfn' \in Seq(Nat) /\ Len(lfn') <= MAX_LFN_PARTS BY <1>1, FsrecovAssumption
  <1>6. CASE items' = items
    BY <1>1, <1>4, <1>5, <1>6, ScanKeeps
  <1>7. CASE /\ items' = Append(items, new) /\ Len(items) < MAX_FOUND
             /\ ValidFilename(name) /\ Inside(data, s.size)
    <2>0. name \in Names
      <3>1. lfn \in Seq(Nat) /\ << s.name >> \in Seq(Nat) BY <1>2 DEF Inv, TypeOK
      <3>2. name = Join(lfn) \/ name = Join(<< s.name >>) BY Zenon DEF NameOf
      <3> QED BY <3>1, <3>2, Zenon DEF Names
    <2>1. items \in Seq(ItemType) /\ new \in ItemType
      BY <1>2, <2>0 DEF Inv, ItemsOK, ItemType
    <2>2. /\ items' \in Seq(ItemType) /\ Len(items') = Len(items) + 1
          /\ \A k \in 1 .. Len(items) : items'[k] = items[k]
          /\ items'[Len(items) + 1] = new
      <3> HIDE DEF new
      <3> QED BY <1>7, <2>1
    <2>3. \A k \in 1 .. Len(items') : k \in 1 .. Len(items) \/ k = Len(items) + 1
      BY <2>1, <2>2
    <2>4. \A c, z : Inside(ClusterOffset(c), z)' <=> Inside(ClusterOffset(c), z)
      BY <1>1 DEF Rest, Inside, ClusterOffset, ImageSize, DataOffset, ClusterSize
    <2>5. TypeOK'
      <3>1. /\ Len(items') <= MAX_FOUND
            /\ \A k \in 1 .. Len(items') :
                  /\ ValidFilename(items'[k].name)
                  /\ items'[k].cluster \in Nat /\ items'[k].size \in Nat
        <4>1. \A k \in 1 .. Len(items) :
                  /\ ValidFilename(items[k].name)
                  /\ items[k].cluster \in Nat /\ items[k].size \in Nat
          BY DEF Inv, TypeOK
        <4>2. Len(items) \in Nat /\ MAX_FOUND \in Nat BY <2>1, FsrecovAssumption
        <4>3. new.name = name /\ new.cluster = s.cluster /\ new.size = s.size
          OBVIOUS
        <4> HIDE DEF new, name
        <4> QED BY <1>2, <1>7, <2>2, <2>3, <4>1, <4>2, <4>3
      <3>2. off' \in Nat BY <1>1, <1>2 DEF Scan
      <3>3. failed' = {} BY <1>1 DEF Inv, OutOK, Rest, Scan
      <3> QED BY <1>1, <1>4, <1>5, <3>1, <3>2, <3>3 DEF Inv, TypeOK, Rest
    <2>6. ImageOK'
      BY <1>1, <1>4 DEF Inv, ImageOK, Rest, Scan, Farthest, ImageSize, Mapped
    <2>7. ItemsOK'
      <3>1. new.cluster = s.cluster /\ new.size = s.size OBVIOUS
      <3>2. \A k \in 1 .. Len(items) : Inside(ClusterOffset(items[k].cluster), items[k].size)
        BY DEF Inv, ItemsOK
      <3> HIDE DEF new
      <3>3. \A k \in 1 .. Len(items') : Inside(ClusterOffset(items'[k].cluster), items'[k].size)
        BY <1>7, <2>2, <2>3, <3>1, <3>2
      <3> QED BY <2>2, <2>4, <3>3 DEF ItemsOK
    <2>8. FileOK' BY <1>1 DEF Inv, FileOK, Written, Tooling, Rest, Scan
    <2>9. ToolOK' BY <1>1 DEF Inv, ToolOK, Tooling, Rest, Scan
    <2>10. OutOK'
      <3>1. out' = << >> /\ failed' = {} /\ pc' = "scan" BY <1>1 DEF Inv, OutOK, Rest, Scan
      <3> QED BY <3>1 DEF OutOK, DigestsRight
    <2> QED BY <2>5, <2>6, <2>7, <2>8, <2>9, <2>10 DEF Inv
  <1> QED BY <1>1, <1>6, <1>7

LEMMA ScanDoneStep == Inv /\ ScanDone => Inv'
  <1> SUFFICES ASSUME Inv, ScanDone PROVE Inv' OBVIOUS
  <1> USE DEF ScanDone
  <1>1. TypeOK' BY FsrecovAssumption DEF Inv, TypeOK
  <1>2. ImageOK' BY DEF Inv, ImageOK, Farthest, ImageSize, Mapped
  <1>3. ItemsOK'
    BY DEF Inv, ItemsOK, Inside, ClusterOffset, ImageSize, DataOffset, ClusterSize
  <1>4. FileOK' BY DEF Inv, FileOK, Written, Tooling
  <1>5. ToolOK' BY DEF Inv, ToolOK, Tooling
  <1>6. OutOK' BY DEF Inv, OutOK, DigestsRight
  <1> QED BY <1>1, <1>2, <1>3, <1>4, <1>5, <1>6 DEF Inv

----------------------------------------------------------------------------
(* sha1sum_file and run_checksum_tool.                                     *)

\* Once the scan is over the image, the candidates and what was read of the
\* image stay as they are.
LEMMA FixedKeeps ==
    ASSUME Inv, Fixed, pc \notin {"start", "refused"}, pc' \notin {"start", "refused"}
    PROVE  ImageOK' /\ ItemsOK'
  BY DEF Fixed, Inv, ImageOK, ItemsOK, Inside, ClusterOffset, ImageSize, DataOffset,
         ClusterSize, Mapped, Farthest

\* The types of what the work on a candidate uses.
LEMMA ItemTypes ==
    ASSUME Inv, next \in 1 .. Len(items)
    PROVE  /\ items[next] \in ItemType /\ items[next].size \in Nat
           /\ next \in Nat /\ Len(items) \in Nat
           /\ MAX_FOUND \in Nat /\ Len(items) <= MAX_FOUND
  <1>1. items \in Seq(ItemType) BY DEF Inv, ItemsOK
  <1>2. items[next] \in ItemType /\ next \in Nat /\ Len(items) \in Nat BY <1>1
  <1>3. items[next].size \in Nat BY <1>2 DEF ItemType
  <1>4. MAX_FOUND \in Nat BY FsrecovAssumption
  <1>5. Len(items) <= MAX_FOUND BY DEF Inv, TypeOK
  <1> QED BY <1>2, <1>3, <1>4, <1>5

LEMMA FinishStep == Inv /\ Finish => Inv'
  <1> SUFFICES ASSUME Inv, Finish PROVE Inv' OBVIOUS
  <1> USE DEF Finish
  <1>1. TypeOK' BY DEF Inv, TypeOK
  <1>2. ImageOK' /\ ItemsOK' BY FixedKeeps DEF Fixed
  <1>3. FileOK' BY DEF Inv, FileOK, Written, Tooling
  <1>4. ToolOK' BY DEF Inv, ToolOK, Tooling
  <1>5. OutOK' BY DEF Inv, OutOK, DigestsRight
  <1> QED BY <1>1, <1>2, <1>3, <1>4, <1>5 DEF Inv

LEMMA MkstempStep == Inv /\ Mkstemp => Inv'
  <1> SUFFICES ASSUME Inv, Mkstemp PROVE Inv' OBVIOUS
  <1>0. /\ pc = "next" /\ next \in 1 .. Len(items)
        /\ Fixed /\ UNCHANGED << tool, digest, child, childOut, pipe, failed, out >>
        /\ \/ pc' = "write" /\ tmp' = 0 /\ fds' = {"tmp"} /\ ok' = TRUE /\ next' = next
           \/ next' = next + 1 /\ UNCHANGED << pc, tmp, fds, ok >>
    BY DEF Mkstemp, Inv, FileOK, TypeOK, ItemsOK
  <1>t. /\ items[next].size \in Nat /\ next \in Nat /\ Len(items) \in Nat
        /\ MAX_FOUND \in Nat /\ Len(items) <= MAX_FOUND
    BY <1>0, ItemTypes
  <1> USE DEF Fixed
  <1>1. TypeOK'
    <2>1. next' \in 0 .. MAX_FOUND + 1 BY <1>0, <1>t
    <2>2. pc' \in {"next", "write"} /\ fds' \subseteq {"tmp", "rd", "wr"}
      BY <1>0 DEF Inv, TypeOK
    <2>3. tmp' \in Nat \cup {NoFile} /\ ok' \in BOOLEAN
      <3>1. tmp \in Nat \cup {NoFile} /\ ok \in BOOLEAN BY DEF Inv, TypeOK
      <3>2. (tmp' = 0 /\ ok' = TRUE) \/ UNCHANGED << tmp, ok >> BY <1>0
      <3>3. tmp' \in Nat \cup {NoFile} BY <3>1, <3>2
      <3>4. ok' \in BOOLEAN BY <3>1, <3>2, Zenon
      <3> QED BY <3>3, <3>4
    <2> QED BY <1>0, <2>1, <2>2, <2>3 DEF Inv, TypeOK
  <1>2. ImageOK' /\ ItemsOK' BY <1>0, FixedKeeps
  <1>3. FileOK' BY <1>0, <1>t DEF Inv, FileOK, Written, Tooling
  <1>4. ToolOK' BY <1>0 DEF Inv, ToolOK, Tooling
  <1>5. OutOK' BY <1>0 DEF Inv, OutOK, DigestsRight
  <1> QED BY <1>1, <1>2, <1>3, <1>4, <1>5 DEF Inv

\* What is written comes from the data of the candidate, which is in the image.
LEMMA WriteStep == Inv /\ Write => Inv'
  <1> SUFFICES ASSUME Inv, Write PROVE Inv' OBVIOUS
  <1>0. /\ pc = "write" /\ next \in 1 .. Len(items) /\ tmp \in Nat
        /\ UNCHANGED << image, header, scan, next, tool, digest, fds, child, childOut, pipe, out >>
        /\ \/ /\ tmp' \in tmp + 1 .. items[next].size
              /\ Reach(ClusterOffset(items[next].cluster) + tmp')
              /\ UNCHANGED << pc, ok, failed >>
           \/ /\ pc' = "close" /\ ok' = FALSE
              /\ failed' = failed \cup {next} /\ UNCHANGED << tmp, reached >>
    BY DEF Write, Inv, FileOK, Item
  <1>t. items[next].size \in Nat BY <1>0, ItemTypes
  <1>1. reached' \in Nat /\ reached' <= Farthest /\ reached' <= Mapped
    <2>1. /\ reached \in Nat /\ reached <= Farthest /\ reached <= Mapped /\ ImageSize \in Nat
          /\ pc \notin {"start", "refused"}
      BY <1>0, Sizes DEF Inv, TypeOK, ImageOK
    <2>2. CASE UNCHANGED reached BY <2>1, <2>2
    <2>3. CASE /\ tmp' \in tmp + 1 .. items[next].size
               /\ Reach(ClusterOffset(items[next].cluster) + tmp')
      <3> DEFINE data == ClusterOffset(items[next].cluster)
      <3>1. items[next].cluster \in Nat BY <1>0, ItemTypes DEF ItemType
      <3>2. data \in Nat BY <3>1, Sizes DEF Inv, ImageOK
      <3>3. items[next].size <= ImageSize - data /\ data < ImageSize
        BY <1>0 DEF Inv, ItemsOK, Inside
      <3> HIDE DEF data
      <3>4. data + tmp' \in Nat /\ data + tmp' <= ImageSize
        <4>1. tmp \in Nat BY <1>0
        <4>2. tmp' \in Nat /\ tmp' <= items[next].size BY <1>t, <2>3, <4>1
        <4>3. \A d, n, z, m \in Nat : n <= z /\ z <= m - d => d + n \in Nat /\ d + n <= m
          OBVIOUS
        <4>4. items[next].size <= ImageSize - data BY <3>3
        <4> QED BY <1>t, <2>1, <3>2, <4>2, <4>3, <4>4
      <3>5. Reach(data + tmp') BY <2>3 DEF data
      <3> QED BY <2>1, <3>4, <3>5, ReachNext
    <2> QED BY <1>0, <2>2, <2>3
  <1>2. TypeOK'
    <2>1. tmp' \in Nat BY <1>0, <1>t
    <2> QED BY <1>0, <1>1, <2>1 DEF Inv, TypeOK
  <1>3. ImageOK' BY <1>0, <1>1 DEF Inv, ImageOK, Farthest, ImageSize, Mapped
  <1>4. ItemsOK'
    BY <1>0 DEF Inv, ItemsOK, Inside, ClusterOffset, ImageSize, DataOffset, ClusterSize
  <1>5. FileOK' BY <1>0, <1>t DEF Inv, FileOK, Written, Tooling
  <1>6. ToolOK' BY <1>0 DEF Inv, ToolOK, Tooling
  <1>7. OutOK' BY <1>0 DEF Inv, OutOK, DigestsRight
  <1> QED BY <1>2, <1>3, <1>4, <1>5, <1>6, <1>7 DEF Inv

LEMMA CloseStep == Inv /\ Close => Inv'
  <1> SUFFICES ASSUME Inv, Close PROVE Inv' OBVIOUS
  <1>0. /\ pc = "close" \/ (pc = "write" /\ tmp = items[next].size)
        /\ fds' = fds \ {"tmp"} /\ pc' = "tool" /\ tool' \in {"sha1sum", "shasum"}
        /\ ok' = ok \/ ok' = FALSE
        /\ Fixed /\ UNCHANGED << next, tmp, digest, child, childOut, pipe, failed, out >>
    BY DEF Close, TryTool, Item
  <1> USE DEF Fixed
  <1>1. TypeOK' BY <1>0 DEF Inv, TypeOK
  <1>2. ImageOK' /\ ItemsOK' BY <1>0, FixedKeeps
  <1>3. FileOK' BY <1>0 DEF Inv, FileOK, Written, Tooling
  <1>4. ToolOK' BY <1>0 DEF Inv, ToolOK, Tooling
  <1>5. OutOK' BY <1>0 DEF Inv, OutOK, DigestsRight
  <1> QED BY <1>1, <1>2, <1>3, <1>4, <1>5 DEF Inv

LEMMA StartToolStep == Inv /\ StartTool => Inv'
  <1> SUFFICES ASSUME Inv, StartTool PROVE Inv' OBVIOUS
  <1>0. /\ pc = "tool" /\ Fixed /\ UNCHANGED << next, tmp, digest, failed, out >>
        /\ \/ /\ pc' = "started" /\ fds' = fds \cup {"rd", "wr"}
              /\ child' = "running" /\ childOut' = TRUE /\ pipe' = << >>
              /\ UNCHANGED << ok, tool >>
           \/ /\ ok' = FALSE /\ pc' \in {"tool", "unlink"}
              /\ tool' = "shasum" \/ tool' = tool
              /\ UNCHANGED << fds, child, childOut, pipe >>
    BY DEF StartTool, Returns, TryTool
  <1> USE DEF Fixed
  <1>1. TypeOK' BY <1>0 DEF Inv, TypeOK
  <1>2. ImageOK' /\ ItemsOK' BY <1>0, FixedKeeps
  <1>3. FileOK' BY <1>0 DEF Inv, FileOK, Written, Tooling
  <1>4. ToolOK' BY <1>0 DEF Inv, ToolOK, Tooling
  <1>5. OutOK' BY <1>0 DEF Inv, OutOK, DigestsRight
  <1> QED BY <1>1, <1>2, <1>3, <1>4, <1>5 DEF Inv

\* What the tool does, whatever the program is at.
LEMMA ChildStep == Inv /\ (ToolWrites \/ ToolEnds) => Inv'
  <1> SUFFICES ASSUME Inv, ToolWrites \/ ToolEnds PROVE Inv' OBVIOUS
  <1>0. /\ child = "running" /\ child' \in {"running", "0", "1"} /\ childOut' \in BOOLEAN
        /\ pipe' = pipe \/ pipe' \in {<< tmp >>, << NoDigest >>}
        /\ UNCHANGED << image, header, pc, scan, reached, next, tmp, ok, tool, digest, fds,
                        failed, out >>
    BY DEF ToolWrites, ToolEnds, Inv, TypeOK
  <1>p. pc \in Tooling BY <1>0 DEF Inv, ToolOK
  <1>1. TypeOK' BY <1>0 DEF Inv, TypeOK
  <1>2. ImageOK' /\ ItemsOK' BY <1>0, <1>p, FixedKeeps DEF Fixed, Tooling
  <1>3. FileOK' BY <1>0 DEF Inv, FileOK
  <1>4. ToolOK' BY <1>0 DEF Inv, ToolOK, Tooling
  <1>5. OutOK' BY <1>0 DEF Inv, OutOK, DigestsRight
  <1> QED BY <1>1, <1>2, <1>3, <1>4, <1>5 DEF Inv

LEMMA ReadingStep == Inv /\ StartReading => Inv'
  <1> SUFFICES ASSUME Inv, StartReading PROVE Inv' OBVIOUS
  <1> USE DEF StartReading, CloseWriteEnd
  <1>1. TypeOK' BY DEF Inv, TypeOK, Fixed
  <1>2. ImageOK' /\ ItemsOK' BY FixedKeeps
  <1>3. FileOK' BY DEF Inv, FileOK, Written, Tooling, Fixed
  <1>4. ToolOK' BY DEF Inv, ToolOK, Tooling, Fixed
  <1>5. OutOK' BY DEF Inv, OutOK, DigestsRight, Fixed
  <1> QED BY <1>1, <1>2, <1>3, <1>4, <1>5 DEF Inv

\* A checksum that was read is that of the file as it is.
LEMMA DigestStep == Inv /\ GotDigest => Inv'
  <1> SUFFICES ASSUME Inv, GotDigest PROVE Inv' OBVIOUS
  <1>0. /\ pc = "reading" /\ pc' = "wait" /\ fds' = fds \ {"rd"} /\ ok' \in BOOLEAN
        /\ Fixed /\ UNCHANGED << next, tmp, tool, child, childOut, pipe, failed, out >>
    BY DEF GotDigest
  <1>1. digest' \in Nat \cup {NoDigest} /\ (ok' => digest' = tmp)
    <2>1. tmp \in Nat /\ pipe \in {<< >>, << tmp >>, << NoDigest >>}
          /\ digest \in Nat \cup {NoDigest}
      BY <1>0 DEF Inv, TypeOK, FileOK, ToolOK, Tooling, Written
    <2>2. CASE pipe = << >>
      BY <2>1, <2>2 DEF GotDigest
    <2>3. CASE pipe # << >>
      <3>1. Head(pipe) = tmp \/ Head(pipe) = NoDigest BY <2>1, <2>3
      <3>2. /\ ok' = (Head(pipe) # NoDigest)
            /\ digest' = IF Head(pipe) = NoDigest THEN digest ELSE Head(pipe)
        BY <2>3 DEF GotDigest
      <3> QED BY <2>1, <3>1, <3>2
    <2> QED BY <2>2, <2>3
  <1> USE DEF Fixed
  <1>2. TypeOK' BY <1>0, <1>1 DEF Inv, TypeOK
  <1>3. ImageOK' /\ ItemsOK' BY <1>0, FixedKeeps
  <1>4. FileOK' BY <1>0 DEF Inv, FileOK, Written, Tooling
  <1>5. ToolOK' BY <1>0, <1>1 DEF Inv, ToolOK, Tooling
  <1>6. OutOK' BY <1>0 DEF Inv, OutOK, DigestsRight
  <1> QED BY <1>2, <1>3, <1>4, <1>5, <1>6 DEF Inv

LEMMA WaitStep == Inv /\ WaitTool => Inv'
  <1> SUFFICES ASSUME Inv, WaitTool PROVE Inv' OBVIOUS
  <1>0. /\ pc = "wait" /\ child' = "none" /\ pc' \in {"tool", "unlink"}
        /\ tool' = "shasum" \/ tool' = tool
        /\ ok' \in BOOLEAN /\ (ok' => ok)
        /\ Fixed /\ UNCHANGED << next, tmp, digest, fds, childOut, pipe, failed, out >>
    BY DEF WaitTool, Returns, TryTool, Inv, TypeOK
  <1> USE DEF Fixed
  <1>1. TypeOK' BY <1>0 DEF Inv, TypeOK
  <1>2. ImageOK' /\ ItemsOK' BY <1>0, FixedKeeps
  <1>3. FileOK' BY <1>0 DEF Inv, FileOK, Written, Tooling
  <1>4. ToolOK' BY <1>0 DEF Inv, ToolOK, Tooling
  <1>5. OutOK' BY <1>0 DEF Inv, OutOK, DigestsRight
  <1> QED BY <1>1, <1>2, <1>3, <1>4, <1>5 DEF Inv

\* The line that is printed is about the candidate at work, whose file was
\* whole unless a write of it had failed.
LEMMA UnlinkStep == Inv /\ Unlink => Inv'
  <1> SUFFICES ASSUME Inv, Unlink PROVE Inv' OBVIOUS
  <1> DEFINE new == [name |-> items[next].name, item |-> next, digest |-> digest]
  <1>0. /\ pc = "unlink" /\ pc' = "next" /\ next' = next + 1 /\ tmp' = NoFile
        /\ out' = IF ok THEN Append(out, new) ELSE out
        /\ Fixed /\ UNCHANGED << ok, tool, digest, fds, child, childOut, pipe, failed >>
    BY DEF Unlink, Item
  <1>t. /\ next \in 1 .. Len(items) /\ (tmp = items[next].size \/ next \in failed)
        /\ (ok => digest = tmp) /\ digest \in Nat \cup {NoDigest}
    BY <1>0 DEF Inv, FileOK, ToolOK, TypeOK, Written
  <1>u. /\ items[next] \in ItemType /\ next \in Nat /\ Len(items) \in Nat
        /\ MAX_FOUND \in Nat /\ Len(items) <= MAX_FOUND
    BY <1>t, ItemTypes
  <1>1. TypeOK' BY <1>0, <1>t, <1>u DEF Inv, TypeOK, Fixed
  <1>2. ImageOK' /\ ItemsOK' BY <1>0, FixedKeeps
  <1>3. FileOK' BY <1>0, <1>t, <1>u DEF Inv, FileOK, Written, Tooling, Fixed
  <1>4. ToolOK' BY <1>0 DEF Inv, ToolOK, Tooling, Fixed
  <1>5. OutOK'
    <2>1. /\ out \in Seq(LineType) /\ items' = items /\ failed' = failed
          /\ \A k \in 1 .. Len(out) :
                /\ out[k].item \in 1 .. Len(items)
                /\ out[k].name = items[out[k].item].name
                /\ out[k].digest = items[out[k].item].size \/ out[k].item \in failed
      BY <1>0 DEF Inv, OutOK, DigestsRight, Fixed
    <2>2. CASE ~ ok
      BY <1>0, <2>1, <2>2 DEF OutOK, DigestsRight
    <2>3. CASE ok
      <3>1. new \in LineType BY <1>t, <1>u DEF LineType, ItemType
      <3>2. new.item = next /\ new.name = items[next].name /\ new.digest = digest OBVIOUS
      <3>3. digest = items[next].size \/ next \in failed BY <1>t, <2>3
      <3> HIDE DEF new
      <3>4. /\ out' \in Seq(LineType) /\ Len(out') = Len(out) + 1
            /\ \A k \in 1 .. Len(out) : out'[k] = out[k]
            /\ out'[Len(out) + 1] = new
        BY <1>0, <2>1, <2>3, <3>1
      <3>5. \A k \in 1 .. Len(out') : k \in 1 .. Len(out) \/ k = Len(out) + 1
        BY <2>1, <3>4
      <3>6. \A k \in 1 .. Len(out') :
                /\ out'[k].item \in 1 .. Len(items)
                /\ out'[k].name = items[out'[k].item].name
                /\ out'[k].digest = items[out'[k].item].size \/ out'[k].item \in failed
        BY <1>t, <2>1, <3>2, <3>3, <3>4, <3>5
      <3> QED BY <1>0, <2>1, <3>4, <3>6 DEF OutOK, DigestsRight
    <2> QED BY <2>2, <2>3
  <1> QED BY <1>1, <1>2, <1>3, <1>4, <1>5 DEF Inv

----------------------------------------------------------------------------

LEMMA InvStep == Inv /\ [Next]_vars => Inv'
  <1> SUFFICES ASSUME Inv, [Next]_vars PROVE Inv' OBVIOUS
  <1>1. CASE MapDisk BY <1>1, MapStep
  <1>2. CASE \E s \in Range(image) : ScanOther(s) \/ ScanLfn(s) \/ ScanFile(s)
    BY <1>2, OtherStep, LfnStep, FileStep
  <1>3. CASE ScanDone \/ Finish BY <1>3, ScanDoneStep, FinishStep
  <1>4. CASE Mkstemp \/ Write \/ Close BY <1>4, MkstempStep, WriteStep, CloseStep
  <1>5. CASE StartTool \/ StartReading \/ GotDigest \/ WaitTool
    BY <1>5, StartToolStep, ReadingStep, DigestStep, WaitStep
  <1>6. CASE Unlink BY <1>6, UnlinkStep
  <1>7. CASE ToolWrites \/ ToolEnds BY <1>7, ChildStep
  <1>8. CASE UNCHANGED vars
    <2> USE <1>8 DEF vars
    <2>1. TypeOK' BY DEF Inv, TypeOK
    <2>2. ImageOK' BY DEF Inv, ImageOK, Farthest, ImageSize, Mapped
    <2>3. ItemsOK'
      BY DEF Inv, ItemsOK, Inside, ClusterOffset, ImageSize, DataOffset, ClusterSize
    <2>4. FileOK' BY DEF Inv, FileOK
    <2>5. ToolOK' BY DEF Inv, ToolOK
    <2>6. OutOK' BY DEF Inv, OutOK, DigestsRight
    <2> QED BY <2>1, <2>2, <2>3, <2>4, <2>5, <2>6 DEF Inv
  <1> QED BY <1>1, <1>2, <1>3, <1>4, <1>5, <1>6, <1>7, <1>8 DEF Next, Program

\* The inductive invariant holds for every image, header and set of faults.
THEOREM Invariance == Spec => []Inv
  BY InvInit, InvStep, PTL DEF Spec

\* fsrecov.c reads nothing outside the mapping, whatever header, directory
\* entries and sizes say, and keeps within its arrays.
THEOREM InBoundsTheorem == Spec => []InBounds
  <1>1. Inv => InBounds BY DEF Inv, ImageOK, InBounds, Farthest
  <1> QED BY <1>1, Invariance, PTL

\* sha1sum_file gives every printed name the checksum of the whole file,
\* whatever tool failed before, unless a write of the copy had failed.
THEOREM DigestsTheorem == Spec => []DigestsRight
  <1>1. Inv => DigestsRight BY DEF Inv, OutOK
  <1> QED BY <1>1, Invariance, PTL

\* sha1sum_file leaves no temporary file, descriptor or process behind on any
\* of its ways out.
THEOREM NothingLeftTheorem == Spec => []NothingLeft
  <1>1. Inv => NothingLeft
    BY DEF Inv, FileOK, ToolOK, NothingLeft, Tooling
  <1> QED BY <1>1, Invariance, PTL
----------------------------------------------------------------------------
(* collect_candidates finds what is to be found.  During the scan the     *)
(* entries in front of off play the role of all.                           *)

\* its is right for the entries E.  That the first entry of one
\* candidate comes before that of the next is said without naming the first.
Entries(n) == {x \in 0 .. n - 1 : FileAt(x)}
AllEntries == {x \in 0 .. ImageSize : Complete(x) /\ FileAt(x)}
Explains(it, k, x) == it.name = NameAt(x) \/ it.cluster = EntryAt(x).cluster \/ k = MAX_FOUND
FoundIn(its, E) ==
    /\ \A k \in 1 .. Len(its) : \E x \in E : Found(x) = its[k]
    /\ \A j, k \in 1 .. Len(its) : j < k =>
          its[j].name # its[k].name /\ its[j].cluster # its[k].cluster
    /\ \A j, k \in 1 .. Len(its) : \A x \in E :
          j < k /\ Found(x) = its[k] => \E y \in E : y < x /\ Found(y) = its[j]
    /\ \A x \in E : \E k \in 1 .. Len(its) :
          Explains(its[k], k, x) /\ \E y \in E : y <= x /\ Found(y) = its[k]
FoundUpTo(its, n) == FoundIn(its, Entries(n))

\* The scan has come to entry n; lfn is what stands in front of it, and items
\* what was found before.
ScanAt(n) == /\ off = Offset(n) /\ off <= ImageSize
             /\ lfn = PartsBefore(n) /\ FoundUpTo(items, n)
ScanOK ==
    /\ pc = "start" => lfn = << >> /\ items = << >>
    /\ pc = "scan" => \E n \in Nat : ScanAt(n)
    /\ pc = "next" /\ next = 1 => FoundIn(items, AllEntries)

\* Entries follow each other in the image.
LEMMA Offsets ==
    ASSUME DataOffset \in Nat
    PROVE  /\ \A n \in Nat : /\ Offset(n) \in Nat /\ n <= Offset(n)
                             /\ Offset(n + 1) = Offset(n) + ENTRY
           /\ \A m, n \in Nat : m < n => Offset(m) + ENTRY <= Offset(n)
  <1>0. ENTRY \in Nat /\ ENTRY >= 1 BY FsrecovAssumption
  <1>1. ASSUME NEW n \in Nat
        PROVE  n * ENTRY \in Nat /\ (n + 1) * ENTRY = n * ENTRY + ENTRY /\ n <= n * ENTRY
    <2>1. n * ENTRY \in Nat /\ (n + 1) * ENTRY = n * ENTRY + ENTRY BY <1>0
    <2>2. ENTRY - 1 \in Nat BY <1>0
    <2>3. n * (ENTRY - 1) \in Nat BY <2>2
    <2>4. n * ENTRY = n + n * (ENTRY - 1) BY <1>0
    <2> QED BY <2>1, <2>3, <2>4
  <1>2. \A n \in Nat : Offset(n) \in Nat /\ Offset(n + 1) = Offset(n) + ENTRY /\ n <= Offset(n)
    BY <1>0, <1>1 DEF Offset
  <1>3. ASSUME NEW m \in Nat, NEW n \in Nat, m < n PROVE Offset(m) + ENTRY <= Offset(n)
    <2> DEFINE d == n - (m + 1)
    <2>1. d \in Nat /\ n = (m + 1) + d BY <1>3
    <2> HIDE DEF d
    <2>2. d * ENTRY \in Nat BY <1>0, <2>1
    <2>3. n * ENTRY = (m + 1) * ENTRY + d * ENTRY BY <1>0, <2>1
    <2> QED BY <1>0, <1>1, <2>2, <2>3 DEF Offset
  <1> QED BY <1>2, <1>3

\* Every set of numbers that is not empty has a least one, and Min is it.
LEMMA MinIsLeast ==
    ASSUME NEW T \in SUBSET Nat, T # {}
    PROVE  Min(T) \in T /\ \A y \in T : Min(T) <= y
  <1>1. \E R : IsWellFoundedOn(R, Nat) /\ \A x, y \in Nat : y < x => <<y, x>> \in R
    <2>1. \A x, y \in Nat : y < x => <<y, x>> \in OpToRel(<, Nat)
      BY DEF OpToRel
    <2> QED BY <2>1, NatLessThanWellFounded
  <1>2. PICK R : IsWellFoundedOn(R, Nat) /\ \A x, y \in Nat : y < x => <<y, x>> \in R
    BY <1>1
  <1>3. PICK x \in T : \A y \in T : <<y, x>> \notin R
    BY <1>2, WFMin
  <1>4. \A y \in T : ~ (y < x)
    BY <1>2, <1>3
  <1>5. \A y \in T : x <= y
    BY <1>4
  <1> QED BY <1>3, <1>5 DEF Min

LEMMA MinOfTwo ==
    ASSUME NEW a \in Nat, NEW b \in Nat
    PROVE  Min({a, b}) = IF a <= b THEN a ELSE b
  BY DEF Min

\* Where the parts of the name in front of o may begin, and where they do.
RunsTo(o) == {a \in 0 .. o : \A x \in a .. o - 1 : EntryAt(x).kind = "lfn"}

LEMMA RunBegins ==
    ASSUME NEW o \in Nat
    PROVE  /\ Min(RunsTo(o)) \in RunsTo(o) /\ \A a \in RunsTo(o) : Min(RunsTo(o)) <= a
           /\ Min(RunsTo(o)) \in Nat /\ Min(RunsTo(o)) <= o
  <1>1. o \in RunsTo(o) BY DEF RunsTo
  <1>2. RunsTo(o) \in SUBSET Nat BY DEF RunsTo
  <1>3. Min(RunsTo(o)) \in RunsTo(o) /\ \A a \in RunsTo(o) : Min(RunsTo(o)) <= a
    BY <1>1, <1>2, MinIsLeast
  <1> QED BY <1>1, <1>2, <1>3

\* PartsBefore with the beginning of the run named.
LEMMA PartsAre ==
    ASSUME NEW o \in Nat, NEW b \in Nat, b = Min(RunsTo(o))
    PROVE  PartsBefore(o) = [k \in 1 .. (IF o - b <= MAX_LFN_PARTS THEN o - b ELSE MAX_LFN_PARTS)
                               |-> EntryAt(b + k - 1).name]
  <1>1. b <= o BY RunBegins
  <1>2. o - b \in Nat /\ MAX_LFN_PARTS \in Nat BY <1>1, FsrecovAssumption
  <1>3. Min({o - b, MAX_LFN_PARTS}) = IF o - b <= MAX_LFN_PARTS THEN o - b ELSE MAX_LFN_PARTS
    BY <1>2, MinOfTwo
  <1>4. PartsBefore(o) = [k \in 1 .. Min({o - b, MAX_LFN_PARTS}) |-> EntryAt(b + k - 1).name]
    BY Zenon DEF PartsBefore, RunsTo
  <1> QED BY <1>3, <1>4

\* One part more, or an entry that is none.
LEMMA PartsStep ==
    ASSUME NEW o \in Nat
    PROVE  /\ EntryAt(o).kind # "lfn" => PartsBefore(o + 1) = << >>
           /\ EntryAt(o).kind = "lfn" =>
                 PartsBefore(o + 1) = IF Len(PartsBefore(o)) < MAX_LFN_PARTS
                                      THEN Append(PartsBefore(o), EntryAt(o).name)
                                      ELSE PartsBefore(o)
  <1> DEFINE b == Min(RunsTo(o))
             c == Min(RunsTo(o + 1))
  <1>1. /\ b \in RunsTo(o) /\ b \in Nat /\ b <= o /\ \A a \in RunsTo(o) : b <= a
        /\ c \in RunsTo(o + 1) /\ c \in Nat /\ c <= o + 1 /\ \A a \in RunsTo(o + 1) : c <= a
    BY RunBegins
  <1>2. MAX_LFN_PARTS \in Nat \ {0} BY FsrecovAssumption
  <1>3. /\ PartsBefore(o) = [k \in 1 .. (IF o - b <= MAX_LFN_PARTS THEN o - b ELSE MAX_LFN_PARTS)
                               |-> EntryAt(b + k - 1).name]
        /\ PartsBefore(o + 1) =
              [k \in 1 .. (IF (o + 1) - c <= MAX_LFN_PARTS THEN (o + 1) - c ELSE MAX_LFN_PARTS)
                   |-> EntryAt(c + k - 1).name]
    <2> DEFINE m == o + 1
    <2>1. m \in Nat OBVIOUS
    <2>2. b = Min(RunsTo(o)) /\ c = Min(RunsTo(m)) OBVIOUS
    <2> HIDE DEF b, c, m
    <2>3. PartsBefore(o) =
             [k \in 1 .. (IF o - b <= MAX_LFN_PARTS THEN o - b ELSE MAX_LFN_PARTS)
                 |-> EntryAt(b + k - 1).name]
      BY <1>1, <2>2, PartsAre
    <2>4. PartsBefore(m) =
             [k \in 1 .. (IF m - c <= MAX_LFN_PARTS THEN m - c ELSE MAX_LFN_PARTS)
                 |-> EntryAt(c + k - 1).name]
      BY <1>1, <2>1, <2>2, PartsAre
    <2> QED BY <2>3, <2>4, Zenon DEF m
  <1>4. ASSUME EntryAt(o).kind # "lfn" PROVE PartsBefore(o + 1) = << >>
    <2>1. \A a \in RunsTo(o + 1) : a = o + 1 BY <1>4 DEF RunsTo
    <2>2. c = o + 1 BY <1>1, <2>1
    <2> HIDE DEF b, c
    <2> QED BY <1>2, <1>3, <2>2
  <1>5. ASSUME EntryAt(o).kind = "lfn"
        PROVE  PartsBefore(o + 1) = IF Len(PartsBefore(o)) < MAX_LFN_PARTS
                                    THEN Append(PartsBefore(o), EntryAt(o).name)
                                    ELSE PartsBefore(o)
    <2>1. b \in RunsTo(o + 1)
      <3>1. b \in 0 .. o /\ \A x \in b .. o - 1 : EntryAt(x).kind = "lfn"
        BY <1>1 DEF RunsTo
      <3> HIDE DEF b
      <3>2. \A x \in b .. (o + 1) - 1 : x \in b .. o - 1 \/ x = o BY <1>1
      <3>3. b \in 0 .. o + 1 BY <3>1
      <3> QED BY <1>5, <3>1, <3>2, <3>3 DEF RunsTo
    <2>2. c <= o BY <1>1, <2>1
    <2>3. c \in RunsTo(o)
      <3>1. c \in 0 .. o + 1 /\ \A x \in c .. (o + 1) - 1 : EntryAt(x).kind = "lfn"
        BY <1>1 DEF RunsTo
      <3> HIDE DEF c
      <3> QED BY <1>1, <2>2, <3>1 DEF RunsTo
    <2>4. c = b BY <1>1, <2>1, <2>3
    <2> HIDE DEF b, c
    <2> DEFINE n == IF o - b <= MAX_LFN_PARTS THEN o - b ELSE MAX_LFN_PARTS
               p == [k \in 1 .. n |-> EntryAt(b + k - 1).name]
    <2>5. n \in Nat /\ Len(p) = n BY <1>1, <1>2
    <2>6. CASE o - b < MAX_LFN_PARTS
      <3>1. PartsBefore(o + 1) = [k \in 1 .. n + 1 |-> EntryAt(b + k - 1).name]
        BY <1>1, <1>2, <1>3, <2>4, <2>6
      <3>2. b + (n + 1) - 1 = o BY <1>1, <1>2, <2>6
      <3>3. Append(p, EntryAt(o).name) = [k \in 1 .. n + 1 |-> EntryAt(b + k - 1).name]
        BY <2>5, <3>2
      <3>4. PartsBefore(o) = p BY <1>3
      <3>5. n < MAX_LFN_PARTS BY <1>1, <1>2, <2>6
      <3> HIDE DEF n, p
      <3>6. Len(PartsBefore(o)) < MAX_LFN_PARTS BY <2>5, <3>4, <3>5
      <3> QED BY <3>1, <3>3, <3>4, <3>6
    <2>7. CASE ~ (o - b < MAX_LFN_PARTS)
      <3>1. n = MAX_LFN_PARTS BY <1>1, <1>2, <2>7
      <3>2. (IF (o + 1) - b <= MAX_LFN_PARTS THEN (o + 1) - b ELSE MAX_LFN_PARTS) = n
        BY <1>1, <1>2, <2>7
      <3>3. PartsBefore(o + 1) = p BY <1>3, <2>4, <3>2
      <3>4. PartsBefore(o) = p BY <1>3
      <3> HIDE DEF n, p
      <3>5. ~ (Len(PartsBefore(o)) < MAX_LFN_PARTS) BY <1>2, <2>5, <3>1, <3>4
      <3> QED BY <3>3, <3>4, <3>5
    <2> QED BY <2>6, <2>7
  <1> QED BY <1>4, <1>5

LEMMA PartsAtStart == PartsBefore(0) = << >>
  <1> DEFINE b == Min(RunsTo(0))
  <1>1. b \in RunsTo(0) /\ b \in Nat BY RunBegins
  <1>2. b = 0 BY <1>1 DEF RunsTo
  <1> HIDE DEF b
  <1>3. PartsBefore(0) = [k \in 1 .. (IF 0 - b <= MAX_LFN_PARTS THEN 0 - b ELSE MAX_LFN_PARTS)
                            |-> EntryAt(b + k - 1).name]
    BY <1>1, PartsAre DEF b
  <1> QED BY <1>2, <1>3, FsrecovAssumption

\* NameAt joins the parts the way NameOf does.
LEMMA NameJoined ==
    \A x : NameAt(x) = IF PartsBefore(x) # << >> THEN Join(PartsBefore(x))
                       ELSE Join(<< EntryAt(x).name >>)
  <1> TAKE x
  <1>1. Reverse(<< EntryAt(x).name >>) = << EntryAt(x).name >> BY DEF Reverse
  <1> QED BY <1>1, Zenon DEF NameAt, Join

\* The image stays as it is, and with it what is to be found.
LEMMA ViewSame ==
    ASSUME UNCHANGED << image, header >>
    PROVE  /\ DataOffset' = DataOffset /\ ImageSize' = ImageSize
           /\ \A x : Offset(x)' = Offset(x) /\ PartsBefore(x)' = PartsBefore(x)
           /\ \A its : FoundIn(its, AllEntries)' <=> FoundIn(its, AllEntries)
           /\ \A its, e : FoundUpTo(its, e)' <=> FoundUpTo(its, e)
  <1>1. DataOffset' = DataOffset /\ ImageSize' = ImageSize /\ ClusterSize' = ClusterSize
    BY DEF DataOffset, ImageSize, ClusterSize
  <1>2. \A x : At(x)' = At(x) BY DEF At, Mapped
  <1>e. \A x : Offset(x)' = Offset(x) /\ EntryAt(x)' = EntryAt(x) /\ (Complete(x)' <=> Complete(x))
    <2>1. \A x : Offset(x)' = Offset(x) BY <1>1 DEF Offset
    <2>2. \A x : EntryAt(x)' = EntryAt(x) BY <2>1 DEF EntryAt, At, Mapped
    <2> QED BY <1>1, <2>1, <2>2 DEF Complete
  <1>3. \A x : PartsBefore(x)' = PartsBefore(x) BY <1>e, Zenon DEF PartsBefore
  <1>4. \A x : NameAt(x)' = NameAt(x)
    <2>1. (\A x : NameAt(x) = IF PartsBefore(x) # << >> THEN Join(PartsBefore(x))
                               ELSE Join(<< EntryAt(x).name >>))'
      BY NameJoined, PTL
    <2> QED BY <1>e, <1>3, <2>1, NameJoined
  <1>5. \A x : ClusterOffset(x)' = ClusterOffset(x) BY <1>1 DEF ClusterOffset
  <1>6. \A x : (FileAt(x)' <=> FileAt(x)) /\ Found(x)' = Found(x)
    BY <1>1, <1>2, <1>4, <1>5, <1>e DEF FileAt, Found
  <1>7. \A e : Entries(e)' = Entries(e) BY <1>1, <1>6 DEF Entries
  <1>a. AllEntries' = AllEntries BY <1>1, <1>6, <1>e DEF AllEntries
  <1>8. \A it, k, x : Explains(it, k, x)' <=> Explains(it, k, x) BY <1>e, <1>4 DEF Explains
  <1>9. ASSUME NEW its, NEW E PROVE FoundIn(its, E)' <=> FoundIn(its, E)
    <2> DEFINE R == 1 .. Len(its)
               A == \A k \in R : \E x \in E : Found(x) = its[k]
               B == \A j, k \in R : j < k =>
                        its[j].name # its[k].name /\ its[j].cluster # its[k].cluster
               D == \A j, k \in R : \A x \in E :
                       j < k /\ Found(x) = its[k] => \E y \in E : y < x /\ Found(y) = its[j]
               G == \A x \in E : \E k \in R :
                       Explains(its[k], k, x) /\ \E y \in E : y <= x /\ Found(y) = its[k]
    <2>1. A' <=> A BY <1>6, Zenon
    <2>2. B' <=> B BY Zenon
    <2>3. D' <=> D BY <1>6, Zenon
    <2>4. G' <=> G BY <1>6, <1>8, Zenon
    <2> QED BY <2>1, <2>2, <2>3, <2>4, Zenon DEF FoundIn
  <1>10. \A its, e : FoundUpTo(its, e)' <=> FoundUpTo(its, e)
    BY <1>7, <1>9 DEF FoundUpTo
  <1>11. \A its : FoundIn(its, AllEntries)' <=> FoundIn(its, AllEntries)
    BY <1>9, <1>a
  <1> QED BY <1>1, <1>e, <1>3, <1>10, <1>11

\* The tests of collect_candidates and of bmp_header_ok are those of a file.
LEMMA TestsRight ==
    ASSUME Inv, NEW n \in Nat, lfn = PartsBefore(n), NEW s \in Slot, EntryAt(n) = s,
           s.kind = "file"
    PROVE  /\ NameOf(s) = NameAt(n)
           /\ LET data == ClusterOffset(s.cluster)
              IN  FileAt(n) <=> /\ ValidFilename(NameAt(n)) /\ Inside(data, s.size)
                                /\ BmpHeaderOk(data, s.size)
  <1>2. NameOf(s) = NameAt(n)
    BY NameJoined, Zenon DEF NameOf
  <1> DEFINE data == ClusterOffset(s.cluster)
  <1>3. /\ data \in Nat /\ ImageSize \in Nat /\ s.size \in Nat /\ BMP_HEADER \in Nat \ {0}
    <2>1. s.cluster \in Nat /\ s.size \in Nat BY DEF Slot
    <2>2. header \in Header BY DEF Inv, ImageOK
    <2> QED BY <2>1, <2>2, Sizes, FsrecovAssumption
  <1>4. FileAt(n) <=> /\ ValidFilename(NameAt(n))
                        /\ data + BMP_HEADER <= ImageSize /\ data + s.size <= ImageSize
                        /\ s.size >= BMP_HEADER
                        /\ At(data).kind = "bmp" /\ At(data).size = s.size
    BY Zenon DEF FileAt
  <1>5. BmpHeaderOk(data, s.size) <=>
           /\ ImageSize - data >= BMP_HEADER /\ s.size >= BMP_HEADER
           /\ ImageSize - data >= s.size
           /\ At(data).kind = "bmp" /\ At(data).size = s.size
    BY Zenon DEF BmpHeaderOk
  <1>6. Inside(data, s.size) <=>
           s.size > 0 /\ data < ImageSize /\ s.size <= ImageSize - data
    BY Zenon DEF Inside
  <1>7. FileAt(n) <=> /\ ValidFilename(NameAt(n)) /\ Inside(data, s.size)
                        /\ BmpHeaderOk(data, s.size)
    <2> HIDE DEF data
    <2> QED BY <1>3, <1>4, <1>5, <1>6
  <1> QED BY <1>2, <1>7

LEMMA EntriesNext ==
    ASSUME NEW o \in Nat
    PROVE  /\ ~FileAt(o) => Entries(o + 1) = Entries(o)
           /\ FileAt(o) => Entries(o + 1) = Entries(o) \cup {o}
           /\ \A x \in Entries(o) : x \in Nat /\ x < o
  BY DEF Entries

\* An entry that is a file and was found before, or for which there is no place.
LEMMA FoundAgain ==
    ASSUME NEW o \in Nat, NEW its, Len(its) \in Nat,
           FoundUpTo(its, o), NEW k \in 1 .. Len(its), Explains(its[k], k, o)
    PROVE  FoundUpTo(its, o + 1)
  <1>1. CASE ~FileAt(o)
    <2>1. Entries(o + 1) = Entries(o) BY <1>1, EntriesNext
    <2> QED BY <2>1, Zenon DEF FoundUpTo
  <1>2. CASE FileAt(o)
    <2> DEFINE E == Entries(o)
               F == Entries(o + 1)
    <2>1. F = E \cup {o} /\ \A x \in E : x \in Nat /\ x < o BY <1>2, EntriesNext
    <2>2. /\ \A i \in 1 .. Len(its) : \E x \in E : Found(x) = its[i]
          /\ \A i, j \in 1 .. Len(its) : i < j =>
                its[i].name # its[j].name /\ its[i].cluster # its[j].cluster
          /\ \A i, j \in 1 .. Len(its) : \A x \in E :
                i < j /\ Found(x) = its[j] => \E y \in E : y < x /\ Found(y) = its[i]
          /\ \A x \in E : \E i \in 1 .. Len(its) :
                Explains(its[i], i, x) /\ \E y \in E : y <= x /\ Found(y) = its[i]
      BY DEF FoundUpTo, FoundIn
    <2> HIDE DEF E, F
    <2>3. \A i \in 1 .. Len(its) : \E x \in F : Found(x) = its[i] BY <2>1, <2>2
    <2>4. ASSUME NEW i \in 1 .. Len(its), NEW j \in 1 .. Len(its), NEW x \in F,
                 i < j, Found(x) = its[j]
          PROVE  \E y \in F : y < x /\ Found(y) = its[i]
      <3>1. CASE x \in E BY <2>1, <2>2, <2>4, <3>1
      <3>2. CASE x = o BY <2>1, <2>2, <3>2
      <3> QED BY <2>1, <3>1, <3>2
    <2>5. ASSUME NEW x \in F
          PROVE  \E i \in 1 .. Len(its) :
                     Explains(its[i], i, x) /\ \E y \in F : y <= x /\ Found(y) = its[i]
      <3>1. CASE x \in E BY <2>1, <2>2, <3>1
      <3>2. CASE x = o
        <4>1. PICK y \in E : Found(y) = its[k] BY <2>2
        <4>2. y \in F /\ y <= x BY <2>1, <3>2, <4>1
        <4> QED BY <3>2, <4>1, <4>2
      <3> QED BY <2>1, <3>1, <3>2
    <2>6. \A i, j \in 1 .. Len(its) : \A x \in F :
             i < j /\ Found(x) = its[j] => \E y \in F : y < x /\ Found(y) = its[i]
      BY <2>4
    <2> QED BY <2>2, <2>3, <2>5, <2>6, Zenon DEF FoundUpTo, FoundIn, F
  <1> QED BY <1>1, <1>2

\* A file under a name and in a cluster that no candidate has is one of its own,
\* and no entry before it is the same: that one would have been found.
LEMMA FoundNew ==
    ASSUME NEW o \in Nat, NEW its \in Seq(ItemType),
           FoundUpTo(its, o), FileAt(o), Len(its) < MAX_FOUND,
           \A k \in 1 .. Len(its) : its[k].name # NameAt(o) /\ its[k].cluster # EntryAt(o).cluster,
           NEW new \in ItemType, new = Found(o)
    PROVE  FoundUpTo(Append(its, new), o + 1)
  <1> DEFINE E == Entries(o)
             F == Entries(o + 1)
             n == Len(its)
             jts == Append(its, new)
  <1>1. F = E \cup {o} /\ \A x \in E : x \in Nat /\ x < o BY EntriesNext
  <1>2. /\ \A i \in 1 .. n : \E x \in E : Found(x) = its[i]
        /\ \A i, j \in 1 .. n : i < j =>
              its[i].name # its[j].name /\ its[i].cluster # its[j].cluster
        /\ \A i, j \in 1 .. n : \A x \in E :
              i < j /\ Found(x) = its[j] => \E y \in E : y < x /\ Found(y) = its[i]
        /\ \A x \in E : \E i \in 1 .. n :
              Explains(its[i], i, x) /\ \E y \in E : y <= x /\ Found(y) = its[i]
    BY DEF FoundUpTo, FoundIn
  <1>3. /\ n \in Nat /\ Len(jts) = n + 1 /\ jts[n + 1] = new
        /\ \A i \in 1 .. n : jts[i] = its[i]
        /\ \A i \in 1 .. Len(jts) : i \in 1 .. n \/ i = n + 1
        /\ n < MAX_FOUND /\ MAX_FOUND \in Nat
    BY FsrecovAssumption
  <1>4. \A x : Found(x).name = NameAt(x) /\ Found(x).cluster = EntryAt(x).cluster
    BY DEF Found
  <1>5. ASSUME NEW x \in E, Found(x) = new PROVE FALSE
    <2>1. PICK i \in 1 .. n : Explains(its[i], i, x) BY <1>2
    <2>2. NameAt(x) = NameAt(o) /\ EntryAt(x).cluster = EntryAt(o).cluster BY <1>4, <1>5
    <2>3. i # MAX_FOUND BY <1>3
    <2> QED BY <2>1, <2>2, <2>3 DEF Explains
  <1>6. Explains(new, n + 1, o) BY <1>4 DEF Explains
  <1> HIDE DEF E, F, n, jts
  <1>7. ASSUME NEW i \in 1 .. Len(jts) PROVE \E x \in F : Found(x) = jts[i]
    <2>1. CASE i \in 1 .. n
      <3>1. PICK x \in E : Found(x) = its[i] BY <1>2, <2>1
      <3> QED BY <1>1, <1>3, <2>1, <3>1
    <2>2. CASE i = n + 1 BY <1>1, <1>3, <2>2
    <2> QED BY <1>3, <2>1, <2>2
  <1>8. ASSUME NEW i \in 1 .. Len(jts), NEW j \in 1 .. Len(jts), i < j
        PROVE  jts[i].name # jts[j].name /\ jts[i].cluster # jts[j].cluster
    <2>1. \A k \in 1 .. n : its[k].name # new.name /\ its[k].cluster # new.cluster
      BY <1>4 DEF n
    <2>2. i \in 1 .. n /\ jts[i] = its[i] BY <1>3, <1>8
    <2>3. CASE j \in 1 .. n
      <3>1. jts[j] = its[j] BY <1>3, <2>3
      <3> QED BY <1>2, <1>8, <2>2, <2>3, <3>1
    <2>4. CASE j = n + 1 BY <1>3, <2>1, <2>2, <2>4
    <2> QED BY <1>3, <2>3, <2>4
  <1>9. ASSUME NEW i \in 1 .. Len(jts), NEW j \in 1 .. Len(jts), NEW x \in F,
               i < j, Found(x) = jts[j]
        PROVE  \E y \in F : y < x /\ Found(y) = jts[i]
    <2>1. i \in 1 .. n /\ jts[i] = its[i] BY <1>3, <1>9
    <2>2. CASE x = o BY <1>1, <1>2, <2>1, <2>2
    <2>3. CASE x \in E
      <3>1. j \in 1 .. n /\ jts[j] = its[j] BY <1>3, <1>5, <1>9, <2>3
      <3>2. Found(x) = its[j] BY <1>9, <3>1
      <3>3. PICK y \in E : y < x /\ Found(y) = its[i] BY <1>2, <1>9, <2>1, <2>3, <3>1, <3>2
      <3> QED BY <1>1, <2>1, <3>3
    <2> QED BY <1>1, <2>2, <2>3
  <1>10. \A i, j \in 1 .. Len(jts) : \A x \in F :
            i < j /\ Found(x) = jts[j] => \E y \in F : y < x /\ Found(y) = jts[i]
    BY <1>9
  <1>11. ASSUME NEW x \in F
         PROVE  \E i \in 1 .. Len(jts) :
                    Explains(jts[i], i, x) /\ \E y \in F : y <= x /\ Found(y) = jts[i]
    <2>1. CASE x = o
      <3>1. n + 1 \in 1 .. Len(jts) BY <1>3
      <3>2. x \in F /\ x <= x /\ Found(x) = jts[n + 1] BY <1>1, <1>3, <2>1
      <3> QED BY <1>3, <1>6, <2>1, <3>1, <3>2
    <2>2. CASE x \in E
      <3>1. PICK i \in 1 .. n : Explains(its[i], i, x) /\ \E y \in E : y <= x /\ Found(y) = its[i]
        BY <1>2, <2>2
      <3>2. i \in 1 .. Len(jts) /\ jts[i] = its[i] BY <1>3
      <3> QED BY <1>1, <3>1, <3>2
    <2> QED BY <1>1, <2>1, <2>2
  <1>12. \A i, j \in 1 .. Len(jts) : i < j =>
            jts[i].name # jts[j].name /\ jts[i].cluster # jts[j].cluster
    BY <1>8
  <1> QED BY <1>7, <1>10, <1>11, <1>12, Zenon DEF FoundUpTo, FoundIn, F, jts

----------------------------------------------------------------------------

\* What the three actions of the scan have to show.
LEMMA ScanOKStep ==
    ASSUME ScanOK, NEW s \in Range(image), Scan(s), Rest, ImageSize \in Nat, DataOffset \in Nat,
           NEW n \in Nat, off = Offset(n), lfn' = PartsBefore(n + 1), FoundUpTo(items', n + 1)
    PROVE  ScanOK'
  <1>1. pc' = "scan" /\ off' = Offset(n + 1) /\ off' <= ImageSize /\ n + 1 \in Nat
    BY Offsets DEF Scan, Rest
  <1>2. UNCHANGED << image, header >> BY DEF Rest
  <1>3. /\ ImageSize' = ImageSize
        /\ \A x : Offset(x)' = Offset(x) /\ PartsBefore(x)' = PartsBefore(x)
        /\ \A its, e : FoundUpTo(its, e)' <=> FoundUpTo(its, e)
    BY <1>2, ViewSame
  <1>4. ScanAt(n + 1)' BY <1>1, <1>3 DEF ScanAt
  <1> QED BY <1>1, <1>4 DEF ScanOK

\* The state in which the scan looks at an entry.
LEMMA Scanning ==
    ASSUME Inv, ScanOK, NEW s \in Range(image), Scan(s)
    PROVE  /\ ImageSize \in Nat /\ DataOffset \in Nat /\ s \in Slot
           /\ \E n \in Nat : /\ off = Offset(n) /\ EntryAt(n) = s
                            /\ lfn = PartsBefore(n) /\ FoundUpTo(items, n)
  <1>1. header \in Header BY DEF Inv, ImageOK
  <1>2. pc = "scan" /\ At(off) = s BY DEF Scan
  <1>3. s \in Slot BY SlotTypes
  <1>4. PICK n \in Nat : ScanAt(n) BY <1>2 DEF ScanOK
  <1>5. /\ off = Offset(n) /\ EntryAt(n) = s
        /\ lfn = PartsBefore(n) /\ FoundUpTo(items, n)
    BY <1>2, <1>4 DEF ScanAt, EntryAt
  <1> QED BY <1>1, <1>3, <1>5, Sizes

LEMMA NoFileScanOK ==
    ASSUME Inv, ScanOK, NEW s \in Range(image), ScanOther(s) \/ ScanLfn(s)
    PROVE  ScanOK'
  <1>1. Scan(s) /\ Rest /\ items' = items BY DEF ScanOther, ScanLfn
  <1>2. ImageSize \in Nat /\ DataOffset \in Nat BY <1>1, Scanning
  <1>n. PICK n \in Nat : /\ off = Offset(n) /\ EntryAt(n) = s
                        /\ lfn = PartsBefore(n) /\ FoundUpTo(items, n)
    BY <1>1, Scanning
  <1>3. lfn' = PartsBefore(n + 1)
    BY <1>n, PartsStep DEF ScanOther, ScanLfn
  <1>4. ~FileAt(n) BY <1>n, Zenon DEF FileAt, ScanOther, ScanLfn
  <1>5. FoundUpTo(items, n + 1)
    BY <1>n, <1>4, EntriesNext DEF FoundUpTo
  <1> QED BY <1>1, <1>2, <1>n, <1>3, <1>5, ScanOKStep

LEMMA FileScanOK ==
    ASSUME Inv, ScanOK, NEW s \in Range(image), ScanFile(s)
    PROVE  ScanOK'
  <1>1. Scan(s) /\ Rest /\ lfn' = << >> /\ s.kind = "file" BY DEF ScanFile
  <1>t. ImageSize \in Nat /\ DataOffset \in Nat /\ s \in Slot BY <1>1, Scanning
  <1>2. PICK n \in Nat : /\ off = Offset(n) /\ EntryAt(n) = s
                        /\ lfn = PartsBefore(n) /\ FoundUpTo(items, n)
    BY <1>1, Scanning
  <1>3. lfn' = PartsBefore(n + 1) BY <1>1, <1>2, PartsStep
  <1> DEFINE name == NameAt(n)
             data == ClusterOffset(s.cluster)
             new == [name |-> name, cluster |-> s.cluster, size |-> s.size]
             good == ValidFilename(name) /\ Inside(data, s.size) /\ BmpHeaderOk(data, s.size)
  <1>4. NameOf(s) = name /\ (FileAt(n) <=> good)
    BY <1>1, <1>t, <1>2, TestsRight
  <1>5. items' = IF good /\ Len(items) < MAX_FOUND /\ ~SeenCandidate(s.cluster, name)
                 THEN Append(items, new) ELSE items
    BY <1>4, Zenon DEF ScanFile
  <1>6. new = Found(n) BY <1>2 DEF Found
  <1>7. items \in Seq(ItemType) /\ new \in ItemType /\ Len(items) \in Nat /\ Len(items) <= MAX_FOUND
    <2>1. lfn \in Seq(Nat) /\ << s.name >> \in Seq(Nat) /\ s.cluster \in Nat /\ s.size \in Nat
      BY <1>t DEF Inv, TypeOK, Slot
    <2>2. name \in Names
      <3>1. name = Join(lfn) \/ name = Join(<< s.name >>) BY <1>4, Zenon DEF NameOf
      <3> QED BY <2>1, <3>1, Zenon DEF Names
    <2> HIDE DEF name
    <2>3. new \in ItemType BY <2>1, <2>2 DEF ItemType
    <2> QED BY <2>3 DEF Inv, ItemsOK, TypeOK
  <1> HIDE DEF new
  <1>8. FoundUpTo(items', n + 1)
    <2>1. CASE good /\ Len(items) < MAX_FOUND /\ ~SeenCandidate(s.cluster, name)
      <3>1. \A k \in 1 .. Len(items) :
                items[k].name # NameAt(n) /\ items[k].cluster # EntryAt(n).cluster
        BY <1>2, <2>1 DEF SeenCandidate
      <3>2. items' = Append(items, new) BY <1>5, <2>1
      <3>3. FileAt(n) BY <1>4, <2>1
      <3> QED BY <1>2, <1>6, <1>7, <2>1, <3>1, <3>2, <3>3, FoundNew
    <2>2. CASE ~good
      <3>1. items' = items /\ ~FileAt(n) BY <1>4, <1>5, <2>2
      <3> QED BY <1>2, <3>1, EntriesNext DEF FoundUpTo
    <2>3. CASE ~ (Len(items) < MAX_FOUND)
      <3>1. items' = items BY <1>5, <2>3
      <3>2. MAX_FOUND \in 1 .. Len(items) /\ MAX_FOUND = Len(items)
        BY <1>7, <2>3, FsrecovAssumption
      <3>3. Explains(items[MAX_FOUND], MAX_FOUND, n) BY DEF Explains
      <3> QED BY <1>2, <1>7, <3>1, <3>2, <3>3, FoundAgain
    <2>4. CASE SeenCandidate(s.cluster, name)
      <3>1. items' = items BY <1>5, <2>4
      <3>2. PICK k \in 1 .. Len(items) : items[k].cluster = s.cluster \/ items[k].name = name
        BY <2>4 DEF SeenCandidate
      <3>3. Explains(items[k], k, n) BY <1>2, <3>2 DEF Explains
      <3> QED BY <1>2, <1>7, <3>1, <3>3, FoundAgain
    <2> QED BY <2>1, <2>2, <2>3, <2>4
  <1> QED BY <1>1, <1>t, <1>2, <1>3, <1>8, ScanOKStep

\* When there is no complete entry left all of them were looked at.
LEMMA AllScanned ==
    ASSUME ImageSize \in Nat, DataOffset \in Nat, NEW n \in Nat,
           Offset(n) <= ImageSize, Offset(n) + ENTRY > ImageSize
    PROVE  AllEntries = Entries(n)
  <1>0. ENTRY \in Nat BY FsrecovAssumption
  <1>1. ASSUME NEW x \in Nat PROVE Complete(x) <=> x < n
    <2>1. Offset(x) \in Nat /\ Offset(n) \in Nat BY Offsets
    <2>2. CASE x < n
      <3>1. Offset(x) + ENTRY <= Offset(n) BY <2>2, Offsets
      <3> QED BY <1>0, <2>1, <2>2, <3>1 DEF Complete
    <2>3. CASE ~ (x < n)
      <3>1. Offset(n) <= Offset(x)
        <4>1. CASE x = n BY <2>1, <4>1
        <4>2. CASE n < x
          <5>1. Offset(n) + ENTRY <= Offset(x) BY <4>2, Offsets
          <5> QED BY <1>0, <2>1, <5>1
        <4> QED BY <2>3, <4>1, <4>2
      <3> QED BY <1>0, <2>1, <2>3, <3>1 DEF Complete
    <2> QED BY <2>2, <2>3
  <1>2. n <= ImageSize
    <2>1. n <= Offset(n) /\ Offset(n) \in Nat BY Offsets
    <2> QED BY <2>1
  <1> QED BY <1>1, <1>2 DEF AllEntries, Entries

\* When the scan has ended everything was looked at, and from then on the
\* candidates stay as they are.
LEMMA OtherScanOK ==
    ASSUME Inv, ScanOK,
           \/ MapDisk \/ ScanDone \/ Mkstemp \/ Write \/ Close \/ StartTool \/ StartReading
           \/ GotDigest \/ WaitTool \/ Unlink \/ Finish \/ ToolWrites \/ ToolEnds
           \/ UNCHANGED vars
    PROVE  ScanOK'
  <1>0. /\ ImageSize \in Nat /\ DataOffset \in Nat /\ off \in Nat /\ next \in Nat
    BY Sizes, FsrecovAssumption DEF Inv, ImageOK, TypeOK
  <1>1. CASE MapDisk
    <2>1. CASE pc' = "scan"
      <3>1. /\ off' = DataOffset /\ DataOffset <= ImageSize /\ lfn' = << >> /\ items' = << >>
            /\ UNCHANGED << image, header >>
        BY <1>0, <1>1, <2>1 DEF MapDisk, InitFatView, ScanOK
      <3>2. /\ ImageSize' = ImageSize
            /\ \A x : Offset(x)' = Offset(x) /\ PartsBefore(x)' = PartsBefore(x)
            /\ \A its, e : FoundUpTo(its, e)' <=> FoundUpTo(its, e)
        BY <3>1, ViewSame
      <3>3. PartsBefore(0) = << >> BY PartsAtStart
      <3>4. FoundUpTo(<< >>, 0)
        <4>1. Entries(0) = {} BY DEF Entries
        <4> QED BY <4>1 DEF FoundUpTo, FoundIn
      <3>5. Offset(0) = DataOffset BY <1>0, FsrecovAssumption DEF Offset
      <3>6. ScanAt(0)' BY <3>1, <3>2, <3>3, <3>4, <3>5 DEF ScanAt
      <3> QED BY <2>1, <3>6 DEF ScanOK
    <2>2. CASE pc' = "refused" BY <2>2 DEF ScanOK
    <2> QED BY <1>1, <2>1, <2>2 DEF MapDisk
  <1>2. CASE ScanDone
    <2>1. /\ pc = "scan" /\ off + ENTRY > ImageSize /\ pc' = "next"
          /\ UNCHANGED << image, header, items >>
      BY <1>2 DEF ScanDone
    <2>2. PICK n \in Nat : ScanAt(n) BY <2>1 DEF ScanOK
    <2>3. AllEntries = Entries(n) BY <1>0, <2>1, <2>2, AllScanned DEF ScanAt
    <2>4. FoundIn(items, AllEntries) BY <2>2, <2>3 DEF ScanAt, FoundUpTo
    <2>5. \A its : FoundIn(its, AllEntries)' <=> FoundIn(its, AllEntries)
      BY <2>1, ViewSame
    <2> QED BY <2>1, <2>4, <2>5 DEF ScanOK
  <1>3. CASE Mkstemp \/ Unlink
    <2>1. pc' \in {"write", "next"} /\ (pc' = "next" => next' # 1)
      BY <1>0, <1>3 DEF Mkstemp, Unlink, Inv, FileOK, Written
    <2> QED BY <2>1 DEF ScanOK
  <1>4. CASE Write \/ Close \/ StartTool \/ StartReading \/ GotDigest \/ WaitTool \/ Finish
    <2>1. pc' \notin {"start", "scan", "next"}
      BY <1>4 DEF Write, Close, StartTool, StartReading, GotDigest, WaitTool, Finish,
                  Returns, TryTool
    <2> QED BY <2>1 DEF ScanOK
  <1>5. CASE ToolWrites \/ ToolEnds
    <2>1. pc' \in Tooling BY <1>5 DEF ToolWrites, ToolEnds, Inv, ToolOK
    <2> QED BY <2>1 DEF ScanOK, Tooling
  <1>6. CASE UNCHANGED vars
    <2>1. UNCHANGED << image, header, pc, off, lfn, items, next >> BY <1>6 DEF vars
    <2>2. /\ ImageSize' = ImageSize
          /\ \A x : Offset(x)' = Offset(x) /\ PartsBefore(x)' = PartsBefore(x)
          /\ \A its, e : FoundUpTo(its, e)' <=> FoundUpTo(its, e)
          /\ \A its : FoundIn(its, AllEntries)' <=> FoundIn(its, AllEntries)
      BY <2>1, ViewSame
    <2>3. \A n : ScanAt(n)' <=> ScanAt(n) BY <2>1, <2>2 DEF ScanAt
    <2> QED BY <2>1, <2>2, <2>3 DEF ScanOK
  <1> QED BY <1>1, <1>2, <1>3, <1>4, <1>5, <1>6

LEMMA ScanOKKept == Inv /\ ScanOK /\ [Next]_vars => ScanOK'
  <1> SUFFICES ASSUME Inv, ScanOK, [Next]_vars PROVE ScanOK' OBVIOUS
  <1>1. CASE \E s \in Range(image) : ScanOther(s) \/ ScanLfn(s) \/ ScanFile(s)
    BY <1>1, NoFileScanOK, FileScanOK
  <1>2. CASE \/ MapDisk \/ ScanDone \/ Mkstemp \/ Write \/ Close \/ StartTool \/ StartReading
             \/ GotDigest \/ WaitTool \/ Unlink \/ Finish \/ ToolWrites \/ ToolEnds
             \/ UNCHANGED vars
    BY <1>2, OtherScanOK
  <1> QED BY <1>1, <1>2 DEF Next, Program

\* The first entry of a candidate.
LEMMA FirstEntry ==
    ASSUME DataOffset \in Nat, ImageSize \in Nat, NEW it,
           \E x \in AllEntries : Found(x) = it
    PROVE  LET f == Min({o \in AllEntries : Found(o) = it} \cup {ImageSize})
           IN  /\ f \in AllEntries /\ f \in Nat /\ f < ImageSize /\ Found(f) = it
               /\ \A x \in AllEntries : Found(x) = it => f <= x
  <1> DEFINE S == {o \in AllEntries : Found(o) = it} \cup {ImageSize}
  <1>1. ASSUME NEW x \in AllEntries PROVE x \in Nat /\ x < ImageSize
    <2>1. x \in Nat /\ Offset(x) + ENTRY <= ImageSize BY DEF AllEntries, Complete
    <2>2. ENTRY \in Nat \ {0} /\ x <= Offset(x) /\ Offset(x) \in Nat
      BY <2>1, Offsets, FsrecovAssumption
    <2> QED BY <2>1, <2>2
  <1>2. S \in SUBSET Nat /\ S # {} BY <1>1
  <1>3. Min(S) \in S /\ \A y \in S : Min(S) <= y BY <1>2, MinIsLeast
  <1>4. Min(S) # ImageSize BY <1>1, <1>3
  <1> QED BY <1>1, <1>3, <1>4

\* collect_candidates finds, in this order and once each, what is in the image:
\* every candidate is a file under its own name, and a file that is none shares
\* its name or its cluster with one before it or comes after the list was full.
THEOREM CandidatesTheorem == Spec => []CandidatesRight
  <1>1. Init => ScanOK BY DEF Init, ScanOK
  <1>2. Spec => []ScanOK BY <1>1, ScanOKKept, Invariance, PTL DEF Spec
  <1>3. Inv /\ ScanOK => CandidatesRight
    <2> SUFFICES ASSUME Inv, ScanOK, pc = "next", next = 1
                 PROVE  CandidatesRight
      BY Zenon DEF CandidatesRight
    <2> DEFINE E == AllEntries
               first == [k \in 1 .. Len(items) |->
                            Min({o \in E : Found(o) = items[k]} \cup {ImageSize})]
    <2>1. ImageSize \in Nat /\ DataOffset \in Nat BY Sizes DEF Inv, ImageOK
    <2>2. /\ \A k \in 1 .. Len(items) : \E x \in E : Found(x) = items[k]
          /\ \A j, k \in 1 .. Len(items) : j < k =>
                items[j].name # items[k].name /\ items[j].cluster # items[k].cluster
          /\ \A j, k \in 1 .. Len(items) : \A x \in E :
                j < k /\ Found(x) = items[k] => \E y \in E : y < x /\ Found(y) = items[j]
          /\ \A x \in E : \E k \in 1 .. Len(items) :
                Explains(items[k], k, x) /\ \E y \in E : y <= x /\ Found(y) = items[k]
      BY DEF ScanOK, FoundIn
    <2>3. ASSUME NEW k \in 1 .. Len(items)
          PROVE  /\ first[k] \in E /\ first[k] \in Nat /\ first[k] < ImageSize
                 /\ Found(first[k]) = items[k]
                 /\ \A x \in E : Found(x) = items[k] => first[k] <= x
      <3>1. \E x \in E : Found(x) = items[k] BY <2>2
      <3>2. first[k] = Min({o \in E : Found(o) = items[k]} \cup {ImageSize}) OBVIOUS
      <3> DEFINE it == items[k]
                 f == Min({o \in AllEntries : Found(o) = it} \cup {ImageSize})
      <3>3. first[k] = f BY <3>2
      <3>4. \E x \in AllEntries : Found(x) = it BY <3>1
      <3> HIDE DEF it
      <3>5. /\ f \in AllEntries /\ f \in Nat /\ f < ImageSize /\ Found(f) = it
            /\ \A x \in AllEntries : Found(x) = it => f <= x
        BY <2>1, <3>4, FirstEntry
      <3> HIDE DEF f, first
      <3> QED BY <3>3, <3>5 DEF it
    <2>4. \A x \in E : x \in Nat BY DEF AllEntries
    <2>5. E = {o \in 0 .. ImageSize : Complete(o) /\ FileAt(o)} BY DEF AllEntries
    <2> HIDE DEF E
    <2>6. first = [k \in 1 .. Len(items) |->
                      Min({o \in E : Found(o) = items[k]} \cup {ImageSize})]
      OBVIOUS
    <2> HIDE DEF first
    <2>7. ASSUME NEW j \in 1 .. Len(items), NEW k \in 1 .. Len(items), j < k
          PROVE  first[j] < first[k]
      <3>1. PICK y \in E : y < first[k] /\ Found(y) = items[j] BY <2>2, <2>3, <2>7
      <3> QED BY <2>3, <2>4, <3>1
    <2>8. ASSUME NEW x \in E
          PROVE  \E k \in 1 .. Len(items) : first[k] <= x /\ Explains(items[k], k, x)
      <3>1. PICK k \in 1 .. Len(items) :
                Explains(items[k], k, x) /\ \E y \in E : y <= x /\ Found(y) = items[k]
        BY <2>2
      <3>2. first[k] <= x BY <2>3, <2>4, <3>1
      <3> QED BY <3>1, <3>2
    <2>9. \A k \in 1 .. Len(items) : first[k] < ImageSize BY <2>3
    <2>10. \A j, k \in 1 .. Len(items) : j < k =>
              /\ first[j] < first[k]
              /\ items[j].name # items[k].name /\ items[j].cluster # items[k].cluster
      BY <2>2, <2>7
    <2>11. \A o \in E : \E k \in 1 .. Len(items) :
              first[k] <= o /\ \/ items[k].name = NameAt(o)
                               \/ items[k].cluster = EntryAt(o).cluster
                               \/ k = MAX_FOUND
      BY <2>8, Zenon DEF Explains
    <2> QED BY <2>5, <2>6, <2>9, <2>10, <2>11, Zenon DEF CandidatesRight
  <1> QED BY <1>2, <1>3, Invariance, PTL
=============================================================================
