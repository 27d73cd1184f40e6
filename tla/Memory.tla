------------------------------- MODULE Memory -------------------------------
(***************************************************************************)
(* The memory of a set: the general allocator and the one of key headers   *)
(* take their pages from the same page file (idx_alloc_page).              *)
(***************************************************************************)
EXTENDS GeneralAlloc

CONSTANTS BlockLen, PageBlocks, HeaderPages   \* as in KeyHeads

VARIABLES
  heads,   \* the headers, their lists and zone
  runs,    \* the runs of headers that callers have
  touched, \* the blocks marked as changed
  worn,    \* whether the page of the zone was another's before
  leaked   \* headers that are in no run and count as used

headers == <<heads, runs, touched, worn, leaked>>

memory == <<general, headers>>

\* A page from the list of empty ones is as it was left; a new one is zero.
H == INSTANCE KeyHeads WITH MaxPages <- HeaderPages, m <- heads, dirty <- touched,
                            recycled <- m.empty # NoPage

ASSUME MemoryAssumption == H!SizesFit

MemInit == GeneralInit /\ H!Init

\* kh_alloc_* without a page is a call that fails and changes nothing.
HeaderCall ==
  /\ \/ ask.headers = "all" /\ H!Next
     \/ ask.headers = "blocks" /\ (H!Alloc(BlockLen) \/ \E r \in runs : H!Free(r))
  /\ IF heads'.pages = heads.pages THEN UNCHANGED general ELSE HeaderPage

MemNext ==
  \/ Calls /\ UNCHANGED headers
  \/ HeaderCall

MemSpec == MemInit /\ [][MemNext]_memory

-----------------------------------------------------------------------------
\* The places that the general allocator gives out and those it keeps: pieces
\* do not overlap, nothing is lost, every list has what it is for, and a page has
\* one use, however callers allocate and free, and after a revert too
\* (check_general_holes_chains, check_small_holes_chains, check_free_pages).
\* `lost': what follows a call that failed for want of a page is another matter.
PlacesSound ==
  ~lost =>
    /\ PiecesApart /\ HolesListed /\ PagesListed /\ SubpagesSound
    /\ Cardinality(OfType("headers")) = heads.pages

\* No header is given out twice, and every hole of headers is in its list
\* (check_head_holes_chains); none is lost, except the last one of a block whose
\* other headers were the first run there, on a page that was another's before.
HeadersSound == H!RunsApart /\ H!HolesIndexed

\* What the general allocator keeps in word w of a page.
InWord(mm, w) == <<mm.next[w], mm.prev[w], mm.size[w], w \in mm.full>>

\* What it keeps in the head of a page and in that of a subpage.
InPage(mm, p) == <<mm.link[p], mm.use[p], mm.pnext[p], mm.pprev[p]>>

PlacesMarked ==
  /\ m' = m \/
       /\ \A w \in Words : InWord(m, w) # InWord(m', w) => DiskOf(w) \in marked'
       /\ \A p \in PageNums : InPage(m, p) # InPage(m', p) => DiskOf(p * PageSize) \in marked'
       /\ \A b \in Subs : m.sub[b] # m'.sub[b] => b \in marked'
  /\ \A p \in pieces' \ pieces : {DiskOf(w) : w \in Piece(p[1], p[2])} \subseteq marked'

\* What an allocator changes in a page of the file, and what it gives out to be
\* filled, it marks in the same call, also where it writes into the neighbours of
\* a hole in its list and into the heads of other subpages: a flush would leave it
\* out, and a revert would not bring it back (mark_page_changed).
ChangesMarked == [][Revert \/ (PlacesMarked /\ H!BlocksMarked)]_memory

\* The page file reaches behind every page that the set has; README.md promises
\* data of 16 GB, allocator.c counts its bytes in 32 bits (csize).
PagesPlaced == \A p \in 0 .. m.pcnt - 1 : p < m.file
=============================================================================
