----------------------------- MODULE LineEdits -----------------------------
(***************************************************************************)
(* The line edits of the coding assistant: applyEdits of                   *)
(* src/src/author/workers-ai-author.ts, as the tool apply_line_edits of    *)
(* src/src/assistant/code-assistant.ts calls it.                           *)
(*                                                                         *)
(* A file is a nonempty sequence of lines; its text always ends in a       *)
(* newline.  Line <<0, k>> is the k-th line of the file as it was read and *)
(* <<i, k>> the k-th line of the body of the i-th edit.                    *)
(* Operators named X_Y are faulty variants of X that no action uses.       *)
(***************************************************************************)
EXTENDS Integers, FiniteSets, Sequences, SequencesExt

CONSTANTS
  Existing,   \* a path of the app
  Missing,    \* a path the app does not have
  MaxLines,   \* bound: lines of the file
  BodySizes,  \* lines the body of an edit has
  MaxEdits    \* bound: edits in one call of the tool

VARIABLES
  files,      \* path -> lines, what getFiles returned
  edits,      \* the edits the model has put in its tool call
  next,       \* the files handed to setFiles
  outcome     \* of the tool call: "none" yet, "applied" or "refused"

vars == <<files, edits, next, outcome>>

Blank == <<0, 0>>

\* The lines of a text, which has at least one.
ContentLines(lines) == IF lines = << >> THEN <<Blank>> ELSE lines

-----------------------------------------------------------------------------
(* applyEdits.                                                             *)

IsRange(op) == op.op \in {"replace", "delete"}

InBounds(op, n) ==
  IF op.op = "insert" THEN op.start \in 0 .. n
                      ELSE op.start >= 1 /\ op.end <= n /\ op.start <= op.end

\* Array.splice: it clamps an index past the end of the array.
Splice(lines, at, remove, body) ==
  SubSeq(lines, 1, Min({at, Len(lines)})) \o body
    \o SubSeq(lines, at + remove + 1, Len(lines))

ApplyOp(op, lines) ==
  CASE op.op = "insert"  -> Splice(lines, op.start, 0, op.body)
    [] op.op = "delete"  -> Splice(lines, op.start - 1, op.end - op.start + 1, << >>)
    [] op.op = "replace" -> Splice(lines, op.start - 1, op.end - op.start + 1, op.body)

Edited == {edits[i].path : i \in DOMAIN edits}
On(path) == {i \in DOMAIN edits : edits[i].path = path}
Creates(path) == {i \in On(path) : edits[i].op = "create"}
Ranges(path) == {i \in On(path) : IsRange(edits[i])}

\* The order of Array.sort by start: equal starts stay in their order.
Before(i, j) == edits[i].start < edits[j].start \/ (edits[i].start = edits[j].start /\ i < j)
NextTo(i, j, is) == Before(i, j) /\ ~\E k \in is : Before(i, k) /\ Before(k, j)

\* Ranges sorted by their start, each compared with the one before it.
Overlap(path) ==
  \E i, j \in Ranges(path) : NextTo(i, j, Ranges(path)) /\ edits[j].start <= edits[i].end

\* No failure is recorded for path.  A create wins over the path's line ops.
Accepted(path) ==
  \/ Creates(path) # {}
  \/ /\ path \in DOMAIN files
     /\ \A i \in On(path) : InBounds(edits[i], Len(files[path]))
     /\ ~Overlap(path)

LastApplied_TopDown(is) == CHOOSE i \in is : \A j \in is \ {i} : Before(j, i)

\* A file's ops are applied from the greatest start down, equal starts in their order:
\* of the ops in is this one comes last.
LastApplied(is) == CHOOSE i \in is : \A j \in is \ {i} :
  edits[j].start > edits[i].start \/ (edits[j].start = edits[i].start /\ j < i)

NewLines(path) ==
  IF Creates(path) # {} THEN ContentLines(edits[Max(Creates(path))].body)
  ELSE IF path \notin Edited THEN files[path]
  ELSE ContentLines(MapThenFoldSet(ApplyOp, files[path], LAMBDA i : edits[i], LastApplied, On(path)))

ApplyEdits_SkipsBadFiles ==
  [path \in DOMAIN files \cup {p \in Edited : Accepted(p)} |->
     IF path \notin Edited \/ Accepted(path) THEN NewLines(path) ELSE files[path]]

ApplyEdits == [path \in DOMAIN files \cup Edited |-> NewLines(path)]

-----------------------------------------------------------------------------
(* The tool call.                                                          *)

AddEdit(path, op, start, end, size) ==
  /\ outcome = "none"
  /\ Len(edits) < MaxEdits
  /\ edits' = Append(edits, [path |-> path, op |-> op, start |-> start, end |-> end,
                             body |-> [k \in 1 .. size |-> <<Len(edits) + 1, k>>]])
  /\ UNCHANGED <<files, next, outcome>>

Apply_SavesTheRest ==
  /\ outcome = "none"
  /\ edits # << >>
  /\ outcome' = IF \A path \in Edited : Accepted(path) THEN "applied" ELSE "refused"
  /\ next' = ApplyEdits_SkipsBadFiles
  /\ UNCHANGED <<files, edits>>

\* Any failure throws and nothing is saved.
Apply ==
  /\ outcome = "none"
  /\ edits # << >>
  /\ IF \A path \in Edited : Accepted(path)
     THEN outcome' = "applied" /\ next' = ApplyEdits
     ELSE outcome' = "refused" /\ next' = files
  /\ UNCHANGED <<files, edits>>

Init ==
  /\ \E n \in 1 .. MaxLines : files = [p \in {Existing} |-> [k \in 1 .. n |-> <<0, k>>]]
  /\ edits = << >>
  /\ next = files
  /\ outcome = "none"

Next ==
  \/ \E start \in 0 .. MaxLines + 1 :
       \/ \E end \in start - 1 .. MaxLines + 1 :
            \/ \E size \in BodySizes : AddEdit(Existing, "replace", start, end, size)
            \/ AddEdit(Existing, "delete", start, end, 0)
       \/ \E size \in BodySizes : AddEdit(Existing, "insert", start, start, size)
  \/ \E path \in {Existing, Missing}, size \in BodySizes : AddEdit(path, "create", 0, 0, size)
  \/ \E size \in BodySizes : AddEdit(Missing, "insert", 0, 0, size)
  \/ Apply

Spec == Init /\ [][Next]_vars

-----------------------------------------------------------------------------
(* Properties.                                                             *)

Inserts == {i \in On(Existing) : edits[i].op = "insert"}
Anchored(k) == {i \in Inserts : edits[i].start = k}
Covering(k) == {i \in Ranges(Existing) : k \in edits[i].start .. edits[i].end}
Body(is) == IF is = {} THEN << >> ELSE edits[CHOOSE i \in is : TRUE].body

\* What the line ops ask for, line by line: a line outside of all ranges is
\* kept, a range's body stands in place of its first line, and an insertion
\* follows its line.
AsAddressed ==
  LET n == Len(files[Existing])
      own(k) == IF k = 0 THEN << >>
                ELSE IF Covering(k) = {} THEN <<files[Existing][k]>>
                ELSE Body({i \in Covering(k) : edits[i].op = "replace" /\ edits[i].start = k}) IN
  ContentLines(FlattenSeq([k \in 1 .. n + 1 |-> own(k - 1) \o Body(Anchored(k - 1))]))

\* At most one insertion after a line, and none after a line of a range but
\* its last; not even there if the range is that line and comes first.
Unambiguous ==
  /\ \A i, j \in Inserts : i # j => edits[i].start # edits[j].start
  /\ \A i \in Inserts, j \in Ranges(Existing) :
       LET at == edits[i].start IN
       at \in edits[j].start .. edits[j].end
         => at = edits[j].end /\ (at = edits[j].start => i < j)

\* Edits that address separate places land where they say, in whatever order
\* the model lists them, though each shifts the lines of the ones below it:
\* no line is lost, doubled or moved (applyEdits).
EditsLandAsAddressed ==
  outcome = "applied" /\ Creates(Existing) = {} /\ Unambiguous
    => next[Existing] = AsAddressed

\* A call is refused exactly if it edits a file that is not there, or has a
\* line out of range or two ranges that share a line in a file it does not
\* create; no file is changed then, not even one whose edits are right.
RefusedAsAWhole ==
  outcome # "none" =>
    LET wrong == \E path \in Edited :
          /\ Creates(path) = {}
          /\ \/ path = Missing
             \/ \E i \in Ranges(path) :
                  ~(edits[i].start .. edits[i].end \subseteq DOMAIN files[path]
                    /\ edits[i].start <= edits[i].end)
             \/ \E i \in Inserts : edits[i].start > Len(files[path])
             \/ \E i, j \in Ranges(path), k \in DOMAIN files[path] :
                  i # j /\ {i, j} \subseteq Covering(k)
    IN /\ outcome = "refused" <=> wrong
       /\ outcome = "refused" => next = files
=============================================================================
