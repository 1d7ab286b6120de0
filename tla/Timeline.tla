----------------------------- MODULE Timeline ------------------------------
(***************************************************************************)
(* What an undo history promises to the person who paints: the document is *)
(* one of a line of versions, undo and redo walk along the line without    *)
(* changing it, a new edit replaces what was undone, and one stroke grows   *)
(* the version it is drawing.  A change that is made behind the history's  *)
(* back takes the promise away until the history starts afresh.            *)
(* PaintDocument.tla implements this module.                               *)
(***************************************************************************)
EXTENDS Integers, Sequences

CONSTANTS
  Documents,   \* a document is a sequence of layers, the lowest first
  Blank        \* an empty layer

VARIABLES
  shown,   \* the document on the screen
  past,    \* the versions undo and redo walk along, <<>> when out of line
  at       \* which of them is shown

timelineVars == <<shown, past, at>>

Intact == past # <<>>

TimelineInit ==
  /\ shown \in Documents
  /\ past = <<shown>>
  /\ at = 1

\* What was undone is given up, the new version becomes the last.
Edit ==
  /\ Intact
  /\ shown' \in Documents
  /\ past' = Append(SubSeq(past, 1, at), shown')
  /\ at' = at + 1

\* A stroke goes on: the last version is redrawn.  The first is never.
Amend ==
  /\ Intact /\ at = Len(past) /\ at > 1
  /\ shown' \in Documents
  /\ past' = [past EXCEPT ![at] = shown']
  /\ at' = at

Back ==
  /\ Intact /\ at > 1
  /\ at' = at - 1
  /\ shown' = past[at - 1]
  /\ past' = past

Forward ==
  /\ Intact /\ at < Len(past)
  /\ at' = at + 1
  /\ shown' = past[at + 1]
  /\ past' = past

\* A new layer is not a step of the history: every version has it.
Widen ==
  /\ Intact
  /\ shown' = Append(shown, Blank)
  /\ past' = [i \in 1..Len(past) |-> Append(past[i], Blank)]
  /\ at' = at

\* The history is cleared, or another picture is opened.
Renew ==
  /\ shown' \in Documents
  /\ past' = <<shown'>>
  /\ at' = 1

Stray ==
  /\ shown' \in Documents
  /\ past' = <<>>
  /\ at' = 0

TimelineNext ==
  Edit \/ Amend \/ Back \/ Forward \/ Widen \/ Renew \/ Stray

TimelineSpec == TimelineInit /\ [][TimelineNext]_timelineVars
=============================================================================
