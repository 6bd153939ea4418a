--------------------------- MODULE TranscriptFold ---------------------------
(***************************************************************************)
(* How the transcripts that sessions write in a rendered folder reach the  *)
(* durable store: an export folds the files of a real directory into the   *)
(* store, the newer file of a name winning, and puts a link in its place   *)
(* (src/src/materialize/inherit.rs, inherit/fold.rs, inherit/link_site.rs, *)
(* inherit/stranded.rs).                                                   *)
(*                                                                         *)
(* Files are inodes: a session that has one open goes on writing to it     *)
(* wherever it is, or when no directory has it any more.                   *)
(***************************************************************************)
EXTENDS Integers, FiniteSets

CONSTANTS Homes,     \* rendered folders
          Names,     \* transcripts
          Sessions,  \* sessions of Claude Code
          Folds,     \* exports
          MaxInodes, MaxStamp

ASSUME FoldAssumption == {MaxInodes, MaxStamp} \subseteq Nat \ {0}

Store == "store"
Inode == 1 .. MaxInodes
NoTranscript == 0

VARIABLES site,    \* folder -> what <folder>/projects is
          file,    \* directory -> name -> inode
          modified,\* inode -> when it was last written, 0 when it is not in use yet
          nameOf,  \* inode -> the name it was made with
          open,    \* session -> the inode it has open
          stamp,   \* the newest time stamp
          fold,    \* export -> where its fold stands
          busy     \* history: a decision of a fold met a file in use or changed since

foldVars == <<site, file, modified, nameOf, open, stamp, fold, busy>>

NoPair == <<NoTranscript, NoTranscript, 0, 0>>
FoldIdle == [at |-> "idle", f |-> "none", todo |-> {}, n |-> "none", saw |-> NoPair,
             left |-> FALSE, alone |-> TRUE]
FoldSteps == {"idle", "look", "list", "pick", "move", "drop", "clear", "attach", "done"}

FoldTypeOK ==
  /\ site \in [Homes -> {"absent", "dir", "link"}]
  /\ file \in [Homes \cup {Store} -> [Names -> Inode \cup {NoTranscript}]]
  /\ modified \in [Inode -> 0 .. MaxStamp]
  /\ nameOf \in [Inode -> Names \cup {"none"}]
  /\ open \in [Sessions -> Inode \cup {NoTranscript}]
  /\ stamp \in 0 .. MaxStamp
  /\ \A e \in Folds : fold[e].at \in FoldSteps /\ fold[e].todo \subseteq Names
  /\ busy \in BOOLEAN

\* Every rendered folder starts without the directory: Claude Code makes it.
FoldInit ==
  /\ site = [f \in Homes |-> "absent"]
  /\ file = [d \in Homes \cup {Store} |-> [n \in Names |-> NoTranscript]]
  /\ modified = [i \in Inode |-> 0]
  /\ nameOf = [i \in Inode |-> "none"]
  /\ open = [s \in Sessions |-> NoTranscript]
  /\ stamp = 0
  /\ fold = [e \in Folds |-> FoldIdle]
  /\ busy = FALSE

Overlapped(e) == [x \in Folds |-> IF x = e THEN fold[x]
                                  ELSE IF fold[x].at = "done" THEN FoldIdle
                                  ELSE [fold[x] EXCEPT !.alone = @ /\ fold[x].at = "idle"]]
FoldTo(e, to) == fold' = [Overlapped(e) EXCEPT ![e].at = to]
FoldEnd(e) == [fold[e] EXCEPT !.at = "done", !.todo = {}, !.n = "none", !.saw = NoPair]

\* What the comparison of two files sees: the inodes and their ages.
AgeOf(i) == IF i = NoTranscript THEN 0 ELSE modified[i]
Pair(f, n) == <<file[f][n], file[Store][n], AgeOf(file[f][n]), AgeOf(file[Store][n])>>
Open(i) == i # NoTranscript /\ \E s \in Sessions : open[s] = i

-----------------------------------------------------------------------------
(* Sessions of Claude Code (external).                                     *)

\* A transcript is opened by its path, through the link or in the folder, and
\* created when it is not there.
OpenTranscript(s, f, n) ==
  LET d == IF site[f] = "link" THEN Store ELSE f IN
  /\ open[s] = NoTranscript
  /\ site' = [site EXCEPT ![f] = IF @ = "absent" THEN "dir" ELSE @]
  /\ \/ /\ file[d][n] # NoTranscript
        /\ open' = [open EXCEPT ![s] = file[d][n]]
        /\ UNCHANGED <<file, modified, nameOf, stamp>>
     \/ /\ file[d][n] = NoTranscript
        /\ \E i \in Inode :
             /\ modified[i] = 0 /\ \A j \in Inode : modified[j] = 0 => i <= j
             /\ \E t \in {stamp, stamp + 1} :
                  /\ t \in 1 .. MaxStamp
                  /\ stamp' = t
                  /\ modified' = [modified EXCEPT ![i] = t]
             /\ file' = [file EXCEPT ![d][n] = i]
             /\ nameOf' = [nameOf EXCEPT ![i] = n]
             /\ open' = [open EXCEPT ![s] = i]
  /\ fold' = Overlapped("none")
  /\ UNCHANGED busy

AppendTranscript(s) ==
  /\ open[s] # NoTranscript
  /\ stamp < MaxStamp
  /\ stamp' = stamp + 1
  /\ modified' = [modified EXCEPT ![open[s]] = stamp + 1]
  /\ fold' = Overlapped("none")
  /\ UNCHANGED <<site, file, nameOf, open, busy>>

CloseTranscript(s) ==
  /\ open[s] # NoTranscript
  /\ open' = [open EXCEPT ![s] = NoTranscript]
  /\ fold' = Overlapped("none")
  /\ UNCHANGED <<site, file, modified, nameOf, stamp, busy>>

-----------------------------------------------------------------------------
(* One export: link_durable_dir of one folder, or the fold of a stranded   *)
(* one.                                                                    *)

StartFold(e, f) ==
  /\ fold[e].at \in {"idle", "done"}
  /\ fold' = [Overlapped(e) EXCEPT ![e] = [FoldIdle EXCEPT !.at = "look", !.f = f]]
  /\ UNCHANGED <<site, file, modified, nameOf, open, stamp, busy>>

\* clear_link_site: a link to the store is left alone.
LookAtSite(e) ==
  /\ fold[e].at = "look"
  /\ fold' = [Overlapped(e) EXCEPT
                ![e] = CASE site[fold[e].f] = "link" -> FoldEnd(e)
                         [] site[fold[e].f] = "absent" -> [fold[e] EXCEPT !.at = "attach"]
                         [] OTHER -> [fold[e] EXCEPT !.at = "list"]]
  /\ UNCHANGED <<site, file, modified, nameOf, open, stamp, busy>>

\* move_dir_at: the entries of the directory are listed once.
ListEntries(e) ==
  /\ fold[e].at = "list"
  /\ fold' = [Overlapped(e) EXCEPT ![e].at = "pick",
                                   ![e].todo = {n \in Names : file[fold[e].f][n] # NoTranscript}]
  /\ UNCHANGED <<site, file, modified, nameOf, open, stamp, busy>>

\* Mutant: the older file is kept.
CompareAgesOldest(e, n) ==
  /\ fold[e].at = "pick" /\ n \in fold[e].todo
  /\ LET src == file[fold[e].f][n]
         dst == file[Store][n]
         rest == [fold[e] EXCEPT !.todo = @ \ {n}]
         judged == [rest EXCEPT !.n = n, !.saw = Pair(fold[e].f, n)]
     IN fold' = [Overlapped(e) EXCEPT
                   ![e] = CASE src = NoTranscript -> [rest EXCEPT !.left = TRUE]
                            [] src # NoTranscript /\ AgeOf(src) > AgeOf(dst) /\ dst # NoTranscript ->
                                 [judged EXCEPT !.at = "drop"]
                            [] OTHER -> [judged EXCEPT !.at = "move"]]
  /\ UNCHANGED <<site, file, modified, nameOf, open, stamp, busy>>

\* age_order_at: a source without a copy, or newer than it, is moved; an older one
\* is removed; one as old as its copy stays, as does one that cannot be read.
CompareAges(e, n) ==
  /\ fold[e].at = "pick" /\ n \in fold[e].todo
  /\ LET src == file[fold[e].f][n]
         dst == file[Store][n]
         rest == [fold[e] EXCEPT !.todo = @ \ {n}]
         judged == [rest EXCEPT !.n = n, !.saw = Pair(fold[e].f, n)]
     IN fold' = [Overlapped(e) EXCEPT
                   ![e] = CASE src # NoTranscript /\ AgeOf(src) > AgeOf(dst) ->
                                 [judged EXCEPT !.at = "move"]
                            [] src # NoTranscript /\ AgeOf(src) < AgeOf(dst) ->
                                 [judged EXCEPT !.at = "drop"]
                            [] OTHER -> [rest EXCEPT !.left = TRUE]]
  /\ UNCHANGED <<site, file, modified, nameOf, open, stamp, busy>>

NextEntry(r) == [r EXCEPT !.at = "pick", !.n = "none", !.saw = NoPair]

\* The file that loses is open in a session, or the files are not those judged.
Loses(e, i) == Open(i) \/ fold[e].saw # Pair(fold[e].f, fold[e].n)

\* move_file_at: rename over the copy; a source that is gone fails the fold.
MoveFile(e) ==
  LET src == file[fold[e].f][fold[e].n] IN
  /\ fold[e].at = "move"
  /\ IF src = NoTranscript
     THEN fold' = [Overlapped(e) EXCEPT ![e] = FoldEnd(e)] /\ UNCHANGED <<file, busy>>
     ELSE /\ file' = [file EXCEPT ![Store][fold[e].n] = src, ![fold[e].f][fold[e].n] = NoTranscript]
          /\ busy' = (busy \/ Loses(e, file[Store][fold[e].n]))
          /\ fold' = [Overlapped(e) EXCEPT ![e] = NextEntry(fold[e])]
  /\ UNCHANGED <<site, modified, nameOf, open, stamp>>

\* remove_file_at of a source that is older than its copy.
DropFile(e) ==
  LET src == file[fold[e].f][fold[e].n] IN
  /\ fold[e].at = "drop"
  /\ IF src = NoTranscript
     THEN fold' = [Overlapped(e) EXCEPT ![e] = FoldEnd(e)] /\ UNCHANGED <<file, busy>>
     ELSE /\ file' = [file EXCEPT ![fold[e].f][fold[e].n] = NoTranscript]
          /\ busy' = (busy \/ Loses(e, src))
          /\ fold' = [Overlapped(e) EXCEPT ![e] = NextEntry(fold[e])]
  /\ UNCHANGED <<site, modified, nameOf, open, stamp>>

\* The directory stays when the fold left something.
EndFold(e) ==
  /\ fold[e].at = "pick" /\ fold[e].todo = {}
  /\ fold' = [Overlapped(e) EXCEPT ![e] = IF fold[e].left THEN FoldEnd(e)
                                          ELSE [fold[e] EXCEPT !.at = "clear"]]
  /\ UNCHANGED <<site, file, modified, nameOf, open, stamp, busy>>

\* remove_dir, which takes only an empty directory.
ClearSite(e) ==
  LET f == fold[e].f IN
  /\ fold[e].at = "clear"
  /\ IF site[f] = "dir" /\ \A n \in Names : file[f][n] = NoTranscript
     THEN site' = [site EXCEPT ![f] = "absent"] /\ FoldTo(e, "attach") /\ UNCHANGED file
     ELSE fold' = [Overlapped(e) EXCEPT ![e] = FoldEnd(e)] /\ UNCHANGED <<site, file>>
  /\ UNCHANGED <<modified, nameOf, open, stamp, busy>>

\* attach_store: the symlink fails when anything has the name by now.
AttachStore(e) ==
  /\ fold[e].at = "attach"
  /\ site' = [site EXCEPT ![fold[e].f] = IF @ = "absent" THEN "link" ELSE @]
  /\ fold' = [Overlapped(e) EXCEPT ![e] = FoldEnd(e)]
  /\ UNCHANGED <<file, modified, nameOf, open, stamp, busy>>

\* The export is stopped between two steps.
StopFold(e) ==
  /\ fold[e].at \notin {"idle", "done"}
  /\ fold' = [Overlapped(e) EXCEPT ![e] = FoldIdle]
  /\ UNCHANGED <<site, file, modified, nameOf, open, stamp, busy>>

FoldNext ==
  \/ \E s \in Sessions : \/ \E f \in Homes, n \in Names : OpenTranscript(s, f, n)
                         \/ AppendTranscript(s) \/ CloseTranscript(s)
  \/ \E e \in Folds : \/ \E f \in Homes : StartFold(e, f)
                      \/ LookAtSite(e) \/ ListEntries(e) \/ \E n \in Names : CompareAges(e, n)
                      \/ MoveFile(e) \/ DropFile(e) \/ EndFold(e) \/ ClearSite(e)
                      \/ AttachStore(e) \/ StopFold(e)

FoldSpec == FoldInit /\ [][FoldNext]_foldVars

-----------------------------------------------------------------------------
Reachable(i) == \E d \in Homes \cup {Store} : \E n \in Names : file[d][n] = i

\* move_dir_newest_wins keeps "whichever file is newer" (inherit/fold.rs): a file
\* that was written is in the store or in a folder, or another file of its name that
\* is no older is, unless a fold acted on a file in use or changed since it judged it.
NewestKept ==
  busy \/ \A i \in Inode :
            modified[i] # 0 => \E j \in Inode : /\ Reachable(j) /\ nameOf[j] = nameOf[i]
                                             /\ modified[j] >= modified[i]

\* clear_link_site: an export that ran alone leaves the link, or a directory with a
\* file as old as its copy in the store.
QuietFoldLinks ==
  \A e \in Folds :
    fold[e].at = "done" /\ fold[e].alone
      => \/ site[fold[e].f] = "link"
         \/ \E n \in Names : /\ file[fold[e].f][n] # NoTranscript /\ file[Store][n] # NoTranscript
                             /\ modified[file[fold[e].f][n]] = modified[file[Store][n]]

\* A folder that has the link has no files of its own: nothing is hidden behind it.
NothingBehindLink ==
  \A f \in Homes : site[f] # "dir" => \A n \in Names : file[f][n] = NoTranscript

\* Folds keep the transcripts: the newest of each name is kept, an export alone ends with
\* the link, and nothing is behind it.
TranscriptsKept == NewestKept /\ QuietFoldLinks /\ NothingBehindLink
=============================================================================
