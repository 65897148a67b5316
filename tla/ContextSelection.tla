--------------------------- MODULE ContextSelection ---------------------------
(********************************************************************************)
(* How files become context: the ranked search of the ContextEngine, its        *)
(* targeted expansion, the choice of a task's context from the planner's, and   *)
(* the context of a review.  All four go through candidates in order and take   *)
(* what fits a budget.                                                          *)
(*                                                                              *)
(* A file is its path, its size in units and the version of its content.  An    *)
(* entry is what is held of one: [path, size, cut, version, targeted], cut when *)
(* not all of it is held.                                                       *)
(********************************************************************************)
EXTENDS Naturals, Sequences, FiniteSets, SequencesExt, FiniteSetsExt

CONSTANTS
  Paths,          \* the paths anything can name
  Order,          \* their alphabetical order: a number of each
  Size,           \* the units of each file, 0 when there is none
  Symbols,        \* what a code search can look for
  Matches,        \* the files each symbol is found in
  Hits,           \* the score of each path for the words of the prompt
  TaskHits        \* and for those of the task

PathsOf(entries) == {entries[i].path : i \in DOMAIN entries}

Room(budget, taken) == Min({budget.perFile, budget.bytes - taken.total})

\* truncateUtf8 and readFile: as much as there is room for.
Bounded(entry, room) ==
  [entry EXCEPT !.size = Min({entry.size, room}), !.cut = entry.cut \/ entry.size > room]

\* One turn of the loop all four have: out of room, it stops and says so; a file
\* that is not there or is held already is passed over.  buildContextEvidence looks
\* for what it holds first, and at its room after that.
Take(budget, taken, entry, heldFirst) ==
  IF heldFirst /\ entry.path \in PathsOf(taken.files) THEN taken
  ELSE IF taken.full \/ Len(taken.files) >= budget.files \/ taken.total >= budget.bytes
  THEN [taken EXCEPT !.full = TRUE, !.cut = TRUE]
  ELSE IF entry.size = 0 \/ entry.path \in PathsOf(taken.files) THEN taken
  ELSE LET held == Bounded(entry, Room(budget, taken))
       IN [taken EXCEPT !.files = Append(@, held), !.total = @ + held.size, !.cut = @ \/ held.cut]

Gather(entries, budget, diff, heldFirst) ==
  LET upTo[n \in 0 .. Len(entries)] ==
        IF n = 0 THEN [files |-> << >>, total |-> diff.size, cut |-> diff.cut, full |-> FALSE]
        ELSE Take(budget, upTo[n - 1], entries[n], heldFirst)
  IN upTo[Len(entries)]

\* The units that files hold, of the first n of them for each n.
Sizes(files) ==
  LET upTo[n \in 0 .. Len(files)] == IF n = 0 THEN 0 ELSE upTo[n - 1] + files[n].size
  IN upTo

TotalSize(files) == Sizes(files)[Len(files)]

NoDiff == [size |-> 0, cut |-> FALSE]

\* A diff has a quarter of the budget.
BoundedDiff(size, cut, budget) ==
  LET room == Max({1, budget.bytes \div 4})
  IN [size |-> Min({size, room}), cut |-> cut \/ size > room]

\* A file as a tool reads it now.
Read(path, version, targeted) ==
  [path |-> path, size |-> Size[path], cut |-> FALSE, version |-> version[path],
   targeted |-> targeted]

ReadAll(paths, version, targeted) ==
  [i \in DOMAIN paths |-> Read(paths[i], version, targeted)]

(****************************** ContextEngine *****************************)

\* findCandidates: what was asked for, what git shows, what the words hit.
Score(path, focus, changed) ==
  (IF path \in focus.paths THEN 100 ELSE 0)
    + 40 * Cardinality({s \in focus.symbols : path \in Matches[s]})
    + (IF focus.exclusive THEN 0 ELSE (IF path \in changed THEN 20 ELSE 0) + Hits[path])

\* Array.prototype.sort: x goes before the first that is to come after it.
Inserted(s, x, after) ==
  LET place == Min({i \in DOMAIN s : s[i] \in after[x]} \union {Len(s) + 1})
  IN [i \in 1 .. Len(s) + 1 |-> IF i < place THEN s[i] ELSE IF i = place THEN x ELSE s[i - 1]]

Sorted(s, after) ==
  LET upTo[n \in 0 .. Len(s)] ==
        IF n = 0 THEN << >> ELSE Inserted(upTo[n - 1], s[n], after)
  IN upTo[Len(s)]

\* Paths of a higher score first, in alphabetical order where it is the same.
InOrder(paths, score) ==
  Sorted(SetToSeq(paths),
         [p \in paths |->
            {q \in paths :
               score[p] > score[q] \/ (score[p] = score[q] /\ Order[p] < Order[q])}])

Ranked(score) == InOrder({p \in Paths : score[p] > 0}, score)

\* build: an exclusive focus gets no diff.
Build(focus, changed, diffSize, version, budget) ==
  Gather(ReadAll(Ranked([p \in Paths |-> Score(p, focus, changed)]), version, FALSE), budget,
         IF focus.exclusive THEN NoDiff ELSE BoundedDiff(diffSize, FALSE, budget), FALSE)

\* Paths first, then the files of each symbol, in some order of the search.
Candidates(paths, symbols) ==
  LET found == (UNION {Matches[s] : s \in symbols}) \ paths
      same == [p \in Paths |-> 0]
  IN InOrder(paths, same) \o InOrder(found, same)

\* expandTargeted: issues are the paths that are not there and the symbols that are
\* not found.
ExpandTargeted(paths, symbols, version, budget) ==
  LET taken == Gather(ReadAll(Candidates(paths, symbols), version, TRUE), budget, NoDiff, FALSE)
  IN [files |-> taken.files,
      issues |-> {p \in paths : Size[p] = 0} \union {s \in symbols : Matches[s] = {}}]

(*************************** selectTaskContext ****************************)

TaskScore(entry, relevant) ==
  (IF entry.path \in relevant THEN 100 ELSE 0) + (IF entry.targeted THEN 80 ELSE 0)
    + TaskHits[entry.path]

\* Mutant: as they come.
Unsorted(files, relevant) == files

\* The most relevant files first.
ByRelevance(files, relevant) ==
  LET score(e) == TaskScore(e, relevant)
  IN Sorted(files,
            [e \in ToSet(files) |->
               {f \in ToSet(files) :
                  \/ score(e) > score(f)
                  \/ score(e) = score(f) /\ Order[e.path] < Order[f.path]}])

SelectTask(context, relevant, budget) ==
  Gather(ByRelevance(context.files, relevant), budget,
         BoundedDiff(context.diff.size, context.diff.cut, budget), FALSE)

MissingPaths(selection, relevant) == relevant \ PathsOf(selection.files)

\* A symbol is missing when no file that has it is shown; it may be in what was cut off.
MayMiss(selection, symbol) ==
  \A i \in DOMAIN selection.files :
    selection.files[i].path \in Matches[symbol] => selection.files[i].cut

MustMiss(selection, symbol) == Matches[symbol] \intersect PathsOf(selection.files) = {}

(***************************** Review context *****************************)

\* buildContextEvidence
ContextEvidence(entries, budget) == Gather(entries, budget, NoDiff, TRUE)

\* Mutant: what the review has stays first.
ExpandLast(evidence, files, budget) ==
  LET taken == ContextEvidence(evidence.files \o files, budget)
  IN [evidence EXCEPT !.files = taken.files, !.cut = @ \/ taken.cut]

\* Mutant: what was left out before is forgotten.
ExpandForgetful(evidence, files, budget) ==
  LET taken == ContextEvidence(files \o evidence.files, budget)
  IN [evidence EXCEPT !.files = taken.files, !.cut = taken.cut]

\* ReviewEvidenceBuilder.expand: new files push out old ones.
Expand(evidence, files, budget) ==
  LET taken == ContextEvidence(files \o evidence.files, budget)
  IN [evidence EXCEPT !.files = taken.files, !.cut = @ \/ taken.cut]
=============================================================================
