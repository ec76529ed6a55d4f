----------------------------- MODULE MediaFiles -----------------------------
(***************************************************************************)
(* The list of media files of the main screen (AppShell.tsx) and where it  *)
(* comes from: a folder that the main process walks through (index.ts), or *)
(* the files of a file dialog, a folder input of the browser or a drop.    *)
(* A large list is put up by a timer, after a screen that says so.         *)
(*                                                                         *)
(* A path is the sequence of the numbers of its names, in the order of the *)
(* names; the tree below a folder tells what is at a path.                 *)
(***************************************************************************)
EXTENDS Naturals, Sequences, SequencesExt, FiniteSetsExt

CONSTANTS
  Imports,    \* bound: imports at a time, a set of numbers
  MaxImports, \* bound: what the user does
  ScanCap,    \* MAX_FOLDER_SCAN_MAX_FILES, 500
  SyncLimit   \* SYNC_MEDIA_IMPORT_LIMIT, 20

ASSUME LimitsAssumption == MaxImports \in Nat /\ ScanCap \in Nat \ {0} /\ SyncLimit \in Nat

VARIABLES
  tree,     \* [SUBSET Path -> Kind]: the folder that is picked
  imports,  \* [Imports -> [at, todo, out, deep, max]]
  files,    \* the state of App of the same name
  waits,    \* fileImportPending
  front,    \* the screen, as far as it is of the files
  picks,    \* what the user did so far
  wanted,   \* history: the files of the last import, less those removed
  tangled   \* history: an import began before another was over

fileVars == <<tree, imports, files, waits, front, picks, wanted, tangled>>

(* "skipped" is a directory like node_modules, "locked" one that cannot be    *)
(* read.                                                                      *)
Kinds == {"media", "other", "link", "dir", "skipped", "locked"}
NoImport == [at |-> "idle", todo |-> <<>>, out |-> <<>>, deep |-> FALSE, max |-> 0]

(* A folder: its paths by the names on the way, each of which is a directory  *)
(* of some kind.                                                              *)
Paths == Seq(Nat) \ {<<>>}
TreeOK(t) ==
  /\ t \in [DOMAIN t -> Kinds] /\ IsFiniteSet(DOMAIN t) /\ DOMAIN t \subseteq Paths
  /\ \A p \in DOMAIN t : \A l \in 1..(Len(p) - 1) :
       SubSeq(p, 1, l) \in DOMAIN t /\ t[SubSeq(p, 1, l)] \in {"dir", "skipped", "locked"}

FilesTypeOK ==
  /\ TreeOK(tree) /\ Range(files) \subseteq DOMAIN tree /\ waits \in BOOLEAN /\ tangled \in BOOLEAN
  /\ front \in {"main-empty", "main-files", "other"} /\ picks \in 0..MaxImports
  /\ \A i \in Imports : /\ imports[i].at \in {"idle", "walk", "timer", "input"}
                        /\ Range(imports[i].todo \o imports[i].out) \subseteq DOMAIN tree

FilesInit(trees) ==
  /\ tree \in trees
  /\ imports = [i \in Imports |-> NoImport] /\ files = <<>> /\ waits = FALSE
  /\ front = "main-empty" /\ picks = 0 /\ wanted = <<>> /\ tangled = FALSE

-------------------------------------------------------------------------------
(* The lists *)

(* The order of a walk that goes through each directory by its names.         *)
Before(p, q) ==
  \E k \in DOMAIN p \cap DOMAIN q :
    p[k] < q[k] /\ \A l \in 1..(k - 1) : p[l] = q[l]

Sorted(S) ==
  [k \in 1..Cardinality(S) |-> CHOOSE p \in S : Cardinality({q \in S : Before(q, p)}) = k - 1]

(* readdir, sorted.                                                           *)
Entries(dir) == Sorted({p \in DOMAIN tree : Len(p) = Len(dir) + 1 /\ IsPrefix(dir, p)})

Min2(a, b) == IF a < b THEN a ELSE b
Taken(list, n) == SubSeq(list, 1, Min2(n, Len(list)))
NormalizedMax(max) == Min2(ScanCap, max)

(* What a list has at the positions P, in its order: a filter.                *)
Kept(list, P) ==
  [k \in 1..Cardinality(P) |-> list[CHOOSE i \in P : Cardinality({j \in P : j < i}) = k - 1]]

FilterSupportedMedia(list) == Kept(list, {i \in DOMAIN list : tree[list[i]] = "media"})

(* The folder input lists everything below the folder; without the subfolders *)
(* what lies deeper is dropped.                                               *)
MakeFilesFromList(list, deep, max) ==
  Taken(Kept(list, {i \in DOMAIN list : (deep \/ Len(list[i]) = 1) /\ tree[list[i]] = "media"}), max)

(* What a walk should find, by the paths alone.                               *)
MediaBelow(deep) ==
  {p \in DOMAIN tree : /\ tree[p] = "media" /\ (deep \/ Len(p) = 1)
                       /\ \A l \in 1..(Len(p) - 1) : tree[SubSeq(p, 1, l)] = "dir"}
FoundBy(deep, max) == Taken(Sorted(MediaBelow(deep)), NormalizedMax(max))

-------------------------------------------------------------------------------
(* queueMediaImport *)

ImportOver(i) == imports' = [imports EXCEPT ![i] = NoImport]

(* A short list at once, if there is anything in it; a long one by a timer.   *)
QueueMediaImport(i, count, list) ==
  IF count <= SyncLimit
  THEN /\ ImportOver(i) /\ UNCHANGED waits
       /\ files' = IF list = <<>> THEN files ELSE list
       /\ front' = IF list = <<>> THEN front ELSE "main-files"
  ELSE /\ imports' = [imports EXCEPT ![i] = [NoImport EXCEPT !.at = "timer", !.out = list]]
       /\ files' = <<>> /\ waits' = TRUE /\ front' = "main-files"

TimerFires(i) ==
  /\ imports[i].at = "timer"
  /\ files' = imports[i].out /\ waits' = FALSE
  /\ front' = IF imports[i].out = <<>> THEN "main-empty" ELSE front
  /\ ImportOver(i)
  /\ UNCHANGED <<tree, picks, wanted, tangled>>

-------------------------------------------------------------------------------
(* What the user does *)

Pick == picks < MaxImports /\ picks' = picks + 1
Begins(i) ==
  /\ imports[i] = NoImport /\ \A k \in Imports : k < i => imports[k] # NoImport
  /\ tangled' = (tangled \/ \E k \in Imports : imports[k] # NoImport)

(* addFiles, or a drop, which is not filtered by a dialog.                    *)
AddFiles(i, chosen) ==
  /\ front = "main-empty" \/ (front = "main-files" /\ ~waits)
  /\ Pick /\ Begins(i)
  /\ QueueMediaImport(i, Len(chosen), FilterSupportedMedia(chosen))
  /\ wanted' = FilterSupportedMedia(chosen)
  /\ UNCHANGED tree

(* addFolder: the walk of the main process begins; or the dialog is canceled, *)
(* which counts as a folder without media.                                    *)
AddFolder(i, deep, max) ==
  /\ front = "main-empty" /\ Pick /\ Begins(i)
  /\ LET options == [NoImport EXCEPT !.deep = deep, !.max = max] IN
     \/ /\ imports' = [imports EXCEPT ![i] = [options EXCEPT !.at = "walk", !.todo = Entries(<<>>)]]
        /\ wanted' = FoundBy(deep, max)
     \/ imports' = [imports EXCEPT ![i] = [options EXCEPT !.at = "input"]] /\ UNCHANGED wanted
  /\ UNCHANGED <<tree, files, waits, front>>

(* The list less one; the last one takes the screen along.  What a walk will  *)
(* find does not change by that.                                              *)
Without(list, p) == Kept(list, {i \in DOMAIN list : list[i] # p})
RemoveFile(p) ==
  /\ front = "main-files" /\ p \in Range(files) /\ Pick
  /\ files' = Without(files, p)
  /\ wanted' = IF \E i \in Imports : imports[i].at = "walk" THEN wanted ELSE Without(wanted, p)
  /\ front' = IF files' = <<>> THEN "main-empty" ELSE front
  /\ UNCHANGED <<tree, imports, waits, tangled>>

Leave(s) ==
  /\ s # front /\ Pick /\ front' = s
  /\ UNCHANGED <<tree, imports, files, waits, wanted, tangled>>

-------------------------------------------------------------------------------
(* listMediaFiles: the recursive walk, by what it has still to look at.       *)

(* Faulty: a directory that cannot be read ends the walk.                     *)
WalkedOrEnded(w, p, rest) ==
  CASE tree[p] = "media" -> [w EXCEPT !.out = Append(@, p), !.todo = rest]
    [] tree[p] = "dir" /\ w.deep -> [w EXCEPT !.todo = Entries(p) \o rest]
    [] tree[p] = "locked" /\ w.deep -> [w EXCEPT !.todo = <<>>]
    [] OTHER -> [w EXCEPT !.todo = rest]

(* The next entry: a file is taken, a directory entered and read, a link or   *)
(* what cannot be read passed over.                                           *)
Walked(w, p, rest) ==
  CASE tree[p] = "media" -> [w EXCEPT !.out = Append(@, p), !.todo = rest]
    [] tree[p] = "dir" /\ w.deep -> [w EXCEPT !.todo = Entries(p) \o rest]
    [] OTHER -> [w EXCEPT !.todo = rest]

Full(w) == Len(w.out) >= NormalizedMax(w.max)

Walk(i) ==
  LET w == imports[i] IN
  /\ w.at = "walk" /\ ~Full(w) /\ w.todo # <<>>
  /\ imports' = [imports EXCEPT ![i] = Walked(w, Head(w.todo), Tail(w.todo))]
  /\ UNCHANGED <<tree, files, waits, front, picks, wanted, tangled>>

(* The walk is over.  Without a file the folder input of the browser opens.   *)
WalkEnds(i) ==
  LET w == imports[i] IN
  /\ w.at = "walk" /\ (Full(w) \/ w.todo = <<>>)
  /\ IF w.out = <<>>
     THEN imports' = [imports EXCEPT ![i] = [w EXCEPT !.at = "input"]] /\ UNCHANGED <<files, waits, front>>
     ELSE QueueMediaImport(i, Len(w.out), Taken(FilterSupportedMedia(w.out), w.max))
  /\ UNCHANGED <<tree, picks, wanted, tangled>>

(* addBrowserFolder: the input lists the whole folder, in some order; or it   *)
(* is closed.                                                                 *)
InputAnswers(i) ==
  LET w == imports[i]
      all == {p \in DOMAIN tree : /\ tree[p] \in {"media", "other"}
                                  /\ \A l \in 1..(Len(p) - 1) : tree[SubSeq(p, 1, l)] # "locked"}
  IN /\ w.at = "input"
     /\ \/ ImportOver(i) /\ UNCHANGED <<files, waits, front, wanted>>
        \/ \E list \in {Sorted(all), Reverse(Sorted(all))} :
             /\ list # <<>>
             /\ QueueMediaImport(i, Len(list), MakeFilesFromList(list, w.deep, w.max))
             /\ wanted' = MakeFilesFromList(list, w.deep, w.max)
     /\ UNCHANGED <<tree, picks, tangled>>

FilesNext ==
  \/ \E i \in Imports :
       \/ TimerFires(i) \/ Walk(i) \/ WalkEnds(i) \/ InputAnswers(i)
       \/ \E chosen \in {<<p>> : p \in DOMAIN tree} \cup {Entries(<<>>)} :
            AddFiles(i, chosen)
       \/ \E deep \in BOOLEAN, max \in 1..(ScanCap + 1) : AddFolder(i, deep, max)
  \/ \E p \in DOMAIN tree : RemoveFile(p)
  \/ \E s \in {"main-empty", "main-files", "other"} : Leave(s)

FilesSpec(trees) == FilesInit(trees) /\ [][FilesNext]_fileVars

-------------------------------------------------------------------------------
(* Property *)

(* When no two imports overlapped: once an import is over, the list is what   *)
(* the last one should have brought, in its order and within its limit,       *)
(* whatever of the folder could not be read, less what was removed since; an  *)
(* import without media leaves the list or clears it.  Meanwhile, and only    *)
(* then, the screen says that it waits (AppShell.tsx:267).                    *)
FilesAreLastPicked ==
  LET over == \A i \in Imports : imports[i] = NoImport IN
  ~tangled =>
    /\ (over /\ wanted # <<>>) => files = wanted
    /\ Len(files) <= Cardinality(DOMAIN tree) /\ IsInjective(files)
    /\ waits <=> \E i \in Imports : imports[i].at = "timer"
    /\ waits => files = <<>>
==============================================================================
