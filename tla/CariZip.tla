------------------------------- MODULE CariZip -------------------------------
(***************************************************************************)
(* cari.cpp: the tree of a CARI file, and the zip it travels in.  A zip is *)
(* a sequence of cells: a header with its name is one cell, and so is a    *)
(* field or a comment the reader skips, an unpacked piece of contents, or  *)
(* all of a deflated one.  Offsets and sizes count cells.  A path is the   *)
(* sequence of its names; the check sum of contents is the contents, and   *)
(* zlib is what undoes itself.                                             *)
(***************************************************************************)
EXTENDS Naturals, FiniteSets, Sequences, SequencesExt

CONSTANTS
  Rank,           \* the names in paths, with their place in alphabetical order
  IllegalNames,   \* names no path may have: "", ".", "..", "C:", "a\b"
  MAX_ZIP_BYTES, MAX_ENTRIES, MAX_TOTAL_UNCOMPRESSED,
  Noise           \* contents that are nothing

\* Two names do not share a place.
ASSUME RankAssumption ==
  /\ Rank \in [DOMAIN Rank -> Nat]
  /\ \A m, n \in DOMAIN Rank : Rank[m] = Rank[n] => m = n

ASSUME LimitsAssumption == {MAX_ZIP_BYTES, MAX_ENTRIES, MAX_TOTAL_UNCOMPRESSED} \subseteq Nat

-----------------------------------------------------------------------------
(***************************************************************************)
(* Trees                                                                   *)
(***************************************************************************)

EmptyTree == [files |-> <<>>, folders |-> {}]

Parents(path) == {SubSeq(path, 1, n) : n \in 1 .. Len(path) - 1}

AddFolder(tree, path) == [tree EXCEPT !.folders = @ \cup Parents(path) \cup {path}]

\* Every file with its contents.
AddFiles(tree, files) ==
  [files |-> [p \in DOMAIN files \cup DOMAIN tree.files |-> IF p \in DOMAIN files THEN files[p] ELSE tree.files[p]],
   folders |-> tree.folders \cup UNION {Parents(p) : p \in DOMAIN files}]

AddFile(tree, path, contents) == AddFiles(tree, [p \in {path} |-> contents])

\* How std::map and std::set order paths.
Precedes(p, q) ==
  \E i \in 1 .. Len(q) :
    /\ Len(p) >= i - 1
    /\ \A j \in 1 .. i - 1 : p[j] = q[j]
    /\ Len(p) = i - 1 \/ Rank[p[i]] < Rank[q[i]]

\* The i-th of some paths is the one that i - 1 others come before.
InOrder(paths) ==
  [i \in 1 .. Cardinality(paths) |->
     CHOOSE p \in paths : Cardinality({q \in paths : Precedes(q, p)}) = i - 1]

IsSafeZipPath(path) == path # <<>> /\ Range(path) \cap IllegalNames = {}

-----------------------------------------------------------------------------
(***************************************************************************)
(* Writing                                                                 *)
(***************************************************************************)

Deflate(contents) == <<[sig |-> "deflated", is |-> contents]>>

Store(contents) == [i \in DOMAIN contents |-> [sig |-> "data", is |-> contents[i]]]

Skipped(n) == [i \in 1 .. n |-> [sig |-> "skipped"]]

Body(e, method) ==
  IF e.isFolder THEN <<>> ELSE IF method = "deflate" THEN Deflate(e.contents) ELSE Store(e.contents)

\* A layout is what zip tools do differently: the method, fields after headers and a
\* descriptor after bodies.
Member(e, layout) ==
  <<[sig |-> "local", extra |-> layout.extra]>> \o Skipped(layout.extra)
    \o Body(e, layout.method) \o Skipped(layout.descriptor)

\* The header of an entry whose member starts at an offset.
Header(e, layout, offset) ==
  [sig |-> "central", encrypted |-> FALSE, method |-> IF e.isFolder THEN "store" ELSE layout.method,
   crc |-> e.contents, csize |-> Len(Body(e, layout.method)), usize |-> Len(e.contents),
   extra |-> layout.extra, offset |-> offset, path |-> e.path, isFolder |-> e.isFolder]

\* What the writer has put together after each entry.
Written(entries, layout) ==
  LET out[n \in 0 .. Len(entries)] ==
        IF n = 0 THEN [zip |-> <<>>, central |-> <<>>]
        ELSE LET so == out[n - 1]
                 header == Header(entries[n], layout, Len(so.zip))
             IN  [zip |-> so.zip \o Member(entries[n], layout),
                  central |-> so.central \o (<<header>> \o Skipped(layout.extra))]
  IN  out

\* Headers and bodies, the central directory, and the record that ends it.
Pack(entries, layout) ==
  LET all == Written(entries, layout)[Len(entries)]
      end == [sig |-> "end", here |-> Len(entries), entries |-> Len(entries),
              size |-> Len(all.central), offset |-> Len(all.zip)]
  IN  all.zip \o all.central \o <<end>>

FolderEntries(tree) ==
  LET folders == InOrder(tree.folders)
  IN  [i \in DOMAIN folders |-> [path |-> folders[i], isFolder |-> TRUE, contents |-> <<>>]]

FileEntries(tree) ==
  LET paths == InOrder(DOMAIN tree.files)
  IN  [i \in DOMAIN paths |-> [path |-> paths[i], isFolder |-> FALSE, contents |-> tree.files[paths[i]]]]

\* Every folder, the empty ones too, and then every file.
WriteZip(tree) ==
  Pack(FolderEntries(tree) \o FileEntries(tree), [method |-> "deflate", extra |-> 0, descriptor |-> 0])

-----------------------------------------------------------------------------
(***************************************************************************)
(* Reading                                                                 *)
(***************************************************************************)

HasSignature(zip, at, sig) == at < Len(zip) /\ zip[at + 1].sig = sig

\* Where the records are that may end the directory; the last one is taken.
EndsAt(zip) == {at \in 0 .. Len(zip) - 1 : HasSignature(zip, at, "end")}

EndOf(zip) == CHOOSE at \in EndsAt(zip) : \A other \in EndsAt(zip) : other <= at

DirectoryFits(zip) ==
  LET end == zip[EndOf(zip) + 1]
  IN  /\ end.here = end.entries
      /\ end.entries <= MAX_ENTRIES
      /\ end.offset + end.size <= EndOf(zip)

\* The headers of the central directory, up to the first that is none.
Directory(zip) ==
  LET end == zip[EndOf(zip) + 1]
      read[n \in 0 .. end.entries] ==
        IF n = 0 THEN [at |-> end.offset, headers |-> <<>>]
        ELSE LET so == read[n - 1]
                 header == zip[so.at + 1]
             IN  IF so.at < EndOf(zip) /\ HasSignature(zip, so.at, "central")
                 THEN [at |-> so.at + 1 + header.extra, headers |-> Append(so.headers, header)]
                 ELSE so
  IN  read[end.entries].headers

\* A mutant: the fields after a local header are taken for data.
RightAfterHeader(zip, header) == header.offset + 1

DataAt(zip, header) == header.offset + 1 + zip[header.offset + 1].extra

CellsOf(zip, header) == SubSeq(zip, DataAt(zip, header) + 1, DataAt(zip, header) + header.csize)

\* What is in cells that were not compressed; anything can stand there.
Octets(cells) == [i \in DOMAIN cells |-> IF cells[i].sig = "data" THEN cells[i].is ELSE Noise]

\* Inflate answers no contents when the cells are not a deflated piece of that size.
Inflates(cells, expected) ==
  Len(cells) = 1 /\ cells[1].sig = "deflated" /\ Len(cells[1].is) = expected

Unpacked(zip, header) ==
  LET cells == CellsOf(zip, header)
  IN  IF header.method = "store" THEN Octets(cells) ELSE cells[1].is

FileIsFine(zip, header) ==
  /\ HasSignature(zip, header.offset, "local")
  /\ DataAt(zip, header) + header.csize <= Len(zip)
  /\ \/ header.method = "store" /\ header.csize = header.usize
     \/ header.method = "deflate" /\ Inflates(CellsOf(zip, header), header.usize)
  /\ Unpacked(zip, header) = header.crc

\* What the files among the first n headers unpack to.
TotalSize(headers) ==
  LET total[n \in 0 .. Len(headers)] ==
        IF n = 0 THEN 0 ELSE total[n - 1] + IF headers[n].isFolder THEN 0 ELSE headers[n].usize
  IN  total

FilesIn(headers) == {i \in DOMAIN headers : ~headers[i].isFolder}

\* The files come to no more than the limit, and no path comes twice.
FilesAreFine(zip, headers) ==
  /\ \A i \in FilesIn(headers) : FileIsFine(zip, headers[i])
  /\ TotalSize(headers)[Len(headers)] <= MAX_TOTAL_UNCOMPRESSED
  /\ \A i, j \in FilesIn(headers) : headers[i].path = headers[j].path => i = j

EntriesAreFine(zip) ==
  LET headers == Directory(zip)
  IN  /\ Len(headers) = zip[EndOf(zip) + 1].entries
      /\ \A i \in DOMAIN headers :
           ~headers[i].encrypted /\ headers[i].method \in {"store", "deflate"} /\ IsSafeZipPath(headers[i].path)
      /\ FilesAreFine(zip, headers)

IsCariZip(zip) ==
  /\ Len(zip) <= MAX_ZIP_BYTES
  /\ HasSignature(zip, 0, "local")
  /\ EndsAt(zip) # {}
  /\ DirectoryFits(zip)
  /\ EntriesAreFine(zip)

\* What ReadZip answers instead of a tree.
Refused == [error |-> "not a CARI file"]

\* Every folder and file in the directory.
TreeIn(zip) ==
  LET headers == Directory(zip)
      files == FilesIn(headers)
      folders == {headers[i].path : i \in DOMAIN headers \ files}
      holder(path) == headers[CHOOSE i \in files : headers[i].path = path]
  IN  AddFiles([files |-> <<>>, folders |-> folders \cup UNION {Parents(p) : p \in folders}],
               [path \in {headers[i].path : i \in files} |-> Unpacked(zip, holder(path))])

\* Nothing is taken from a zip with anything wrong in it.
ReadZip(zip) == IF IsCariZip(zip) THEN TreeIn(zip) ELSE Refused

-----------------------------------------------------------------------------
(***************************************************************************)
(* What may happen to a zip on its way                                     *)
(***************************************************************************)

Junk == [sig |-> "junk"]

\* Cut off, with a cell lost or overwritten, or with something before or behind it.
Damaged(zip) ==
  {SubSeq(zip, 1, n) : n \in 0 .. Len(zip) - 1} \cup {RemoveAt(zip, i) : i \in DOMAIN zip}
    \cup {[zip EXCEPT ![i] = Junk] : i \in DOMAIN zip} \cup {<<Junk>> \o zip, Append(zip, Junk)}

=============================================================================
