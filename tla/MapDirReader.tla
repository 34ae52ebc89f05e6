----------------------------- MODULE MapDirReader -----------------------------
(***************************************************************************)
(* A MapFS in use: its directories are opened and read page by page, from  *)
(* the file system itself (openMapDir) or through an OverlayFS above it    *)
(* (mergedDir).  The first handle reads the very array that is the index   *)
(* of the file system, so the pages it hands out must be clones of it: a   *)
(* client that appends to a page writes to what lies after it.  The second *)
(* cuts its pages from an array of its own.                                *)
(***************************************************************************)
EXTENDS MapFS, Integers

CONSTANTS
  PageSizes,  \* the n a client passes to ReadDir
  Alien       \* what a client appends to a page

ASSUME MapDirReaderAssumption == PageSizes \subseteq Int

VARIABLES
  lists,    \* dirs, as the arrays they are: lists[d] is a sequence of entries
  dir,      \* the directory open, or NoDir
  merged,   \* it is a mergedDir
  own,      \* the entries of a mergedDir
  offset,
  page,     \* the last page: where it lies in the array, and its length
  got,      \* everything the client was given (history)
  eof,      \* ReadDir has answered io.EOF
  all,      \* the last call asked for all the rest (history)
  spoiled   \* the client appended to a page of a mergedDir (history)

handle == <<dir, merged, own, offset, page, got, eof, all, spoiled>>
rvars == <<vars, lists, handle>>

NoDir == <<"..">>
NoPage == [at |-> 0, len |-> 0]

Closed == dir = NoDir /\ merged = FALSE /\ own = <<>> /\ offset = 0 /\ page = NoPage
            /\ got = <<>> /\ eof = FALSE /\ all = FALSE /\ spoiled = FALSE

RInit == Init /\ lists = <<>> /\ Closed

\* The arrays the index is made of, in some order.
Arrays == [d \in DOMAIN dirs |-> SetToSeq(dirs[d])]

\* NewMapFS.
Build ==
  /\ Next
  /\ lists' = IF phase' = "built" THEN Arrays ELSE <<>>
  /\ UNCHANGED handle

\* The entries the handle reads.
Entries == IF merged THEN own ELSE lists[dir]

Remaining == Len(Entries) - offset

Least(a, b) == IF a <= b THEN a ELSE b

Opened(d) ==
  /\ phase = "built" /\ d \in DOMAIN lists
  /\ dir' = d /\ offset' = 0 /\ page' = NoPage /\ got' = <<>> /\ eof' = FALSE
  /\ all' = FALSE /\ spoiled' = FALSE
  /\ UNCHANGED <<vars, lists>>

\* MapFS.Open of a directory.
OpenDir(d) == Opened(d) /\ merged' = FALSE /\ own' = <<>>

\* OverlayFS.Open of a directory: the entries are collected by appending them.
OpenMerged(d) == Opened(d) /\ merged' = TRUE /\ own' = lists[d]

\* How many entries ReadDir(n) hands out.
Count(n) == IF n <= 0 THEN Remaining ELSE Least(n, Remaining)

\* ReadDir(n), up to the end of the directory.
ReadPage(n) ==
  /\ dir # NoDir /\ (n <= 0 \/ Remaining > 0)
  /\ LET k == Count(n) IN
     /\ got' = got \o SubSeq(Entries, offset + 1, offset + k)
     /\ page' = [at |-> offset, len |-> k]
     /\ offset' = offset + k
  /\ all' = (n <= 0)
  /\ UNCHANGED <<vars, lists, dir, merged, own, eof, spoiled>>

\* ReadDir(n), n positive, once there is nothing left.
ReadEOF(n) ==
  /\ dir # NoDir /\ n > 0 /\ Remaining = 0
  /\ eof' = TRUE /\ page' = NoPage /\ all' = FALSE
  /\ UNCHANGED <<vars, lists, dir, merged, own, offset, got, spoiled>>

\* The page itself, with the capacity of what follows it.
PageItself(array, after) ==
  IF after <= Len(array) THEN [array EXCEPT ![after] = Alien] ELSE array

\* slices.Clone: what is appended goes elsewhere.
PageCloned(array, after) == array

\* append(page, Alien), by the client.
AppendToPage ==
  /\ dir # NoDir /\ page.len > 0
  /\ LET after == page.at + page.len + 1 IN
     IF merged THEN own' = PageItself(own, after) /\ UNCHANGED lists
     ELSE lists' = [lists EXCEPT ![dir] = PageCloned(@, after)] /\ UNCHANGED own
  /\ page' = NoPage /\ spoiled' = merged
  /\ UNCHANGED <<vars, dir, merged, offset, got, eof, all>>

RNext ==
  \/ Build
  \/ \E d \in DOMAIN lists : OpenDir(d) \/ OpenMerged(d)
  \/ \E n \in PageSizes : ReadPage(n) \/ ReadEOF(n)
  \/ AppendToPage

RSpec == RInit /\ [][RNext]_rvars

-----------------------------------------------------------------------------
\* The pages of any sizes, put end to end, are the entries of the directory,
\* none skipped, repeated or replaced, and io.EOF or the answer to a call for all
\* the rest come when all were handed out.  Nothing a client does to its pages
\* reaches the file system, nor what it will be handed next, unless it appends
\* to the pages of a merged directory.
PagesAreListing ==
  /\ phase = "built" => lists = Arrays
  /\ dir # NoDir => (eof \/ all => Len(got) = Len(lists[dir]))
  /\ dir # NoDir /\ ~spoiled =>
       /\ \A i, j \in DOMAIN got : got[i] = got[j] => i = j
       /\ ToSet(got) \subseteq dirs[dir]

=============================================================================
