------------------------------- MODULE EveTail -------------------------------
(***************************************************************************)
(* snort-bridge, _tail (main.py): the reader of Suricata's EVE file, which *)
(* grows while it is read, is truncated (copytruncate) and is renamed and  *)
(* created anew (logrotate without copytruncate).                          *)
(*                                                                         *)
(* A line is written in one or two pieces; <<l, 1>> and <<l, 2>> are its   *)
(* halves, the second with the newline.  Sizes and positions count halves. *)
(***************************************************************************)
EXTENDS Naturals, Sequences

CONSTANTS MaxLines, MaxRotations          \* bounds

EveTailAssumption == {MaxLines, MaxRotations} \subseteq Nat

VARIABLES
  disk,        \* inode -> content; inode 0 does not exist
  path,        \* the inode of the path, 0 while there is none
  out,         \* the inode Suricata has open
  lines,       \* lines begun so far
  torn,        \* lines read in two pieces (history)
  cut,         \* lines gone with a truncation before they were read (history)
  fh, tell,    \* the open file and the position in it; fh = 0 before the first
  eof,         \* readline found nothing, the checks come next
  blind,       \* how far the open file is not read: what it held when it was
               \* opened, or the position at an unnoticed truncation (history)
  handed,      \* lines handed on, in the order of their first time (history)
  repeated,    \* lines handed on more than once (history)
  rotations, renamed

tailVars == <<disk, path, out, lines, torn, cut, fh, tell, eof, blind, handed, repeated, rotations, renamed>>

TailInit ==
  /\ \E exists \in BOOLEAN :
       /\ disk = IF exists THEN <<(<<>>)>> ELSE <<>>
       /\ path = IF exists THEN 1 ELSE 0
       /\ out = path
  /\ lines = 0 /\ torn = {} /\ cut = {} /\ fh = 0 /\ tell = 0 /\ eof = FALSE /\ blind = 0
  /\ handed = <<>> /\ repeated = {} /\ rotations = 0 /\ renamed = FALSE

(* Suricata and logrotate.                                                 *)

Grow(chunks) == disk' = [disk EXCEPT ![out] = @ \o chunks]
MidLine == \E i \in DOMAIN disk : disk[i] # <<>> /\ disk[i][Len(disk[i])] = <<lines, 1>>

WriteLine ==
  /\ out # 0 /\ lines < MaxLines /\ ~MidLine
  /\ lines' = lines + 1
  /\ \/ Grow(<< <<lines + 1, 1>>, <<lines + 1, 2>> >>)
     \/ Grow(<< <<lines + 1, 1>> >>)
  /\ UNCHANGED <<path, out, torn, cut, fh, tell, eof, blind, handed, repeated, rotations, renamed>>

WriteRest ==
  /\ MidLine /\ Grow(<< <<lines, 2>> >>)
  /\ UNCHANGED <<path, out, lines, torn, cut, fh, tell, eof, blind, handed, repeated, rotations, renamed>>

\* What was not yet read is gone.  Suricata is not in the middle of a line.
Truncate ==
  /\ path # 0 /\ path = out /\ disk[path] # <<>> /\ ~MidLine /\ rotations < MaxRotations
  /\ rotations' = rotations + 1
  /\ cut' = cut \cup {disk[path][i][1] : i \in (IF fh = path THEN tell ELSE 0) + 1..Len(disk[path])}
  /\ disk' = [disk EXCEPT ![path] = <<>>]
  /\ blind' = IF fh = path THEN tell ELSE blind
  /\ UNCHANGED <<path, out, lines, torn, fh, tell, eof, handed, repeated, renamed>>

Rename ==
  /\ path # 0 /\ path = out /\ rotations < MaxRotations
  /\ rotations' = rotations + 1 /\ path' = 0 /\ renamed' = TRUE
  /\ UNCHANGED <<disk, out, lines, torn, cut, fh, tell, eof, blind, handed, repeated>>

\* Suricata opens its log, at its start or told by logrotate.
Create ==
  /\ path = 0 /\ ~MidLine
  /\ disk' = Append(disk, <<>>) /\ path' = Len(disk) + 1 /\ out' = Len(disk) + 1
  /\ UNCHANGED <<lines, torn, cut, fh, tell, eof, blind, handed, repeated, rotations, renamed>>

-----------------------------------------------------------------------------
(* The reader.                                                             *)

\* Bug: a bridge that starts reads the whole file.
OpenAtStart == fh = 0 /\ path # 0 /\ fh' = path /\ tell' = 0

\* Wait for the path, open it and skip what is there.
OpenAtEnd == fh = 0 /\ path # 0 /\ fh' = path /\ tell' = Len(disk[path])

Open ==
  /\ OpenAtEnd
  /\ blind' = Len(disk[path])
  /\ UNCHANGED <<disk, path, out, lines, torn, cut, eof, handed, repeated, rotations, renamed>>

Available == fh # 0 /\ tell < Len(disk[fh])
Chunk(i) == disk[fh][i]
Whole == Chunk(tell + 1)[2] = 1 /\ tell + 2 <= Len(disk[fh])

\* readline returns up to the newline, or what there is; the caller skips
\* what is no JSON, a lone half.
ReadLine ==
  /\ Available /\ ~eof
  /\ LET line == Chunk(tell + 1)[1]
         known == \E k \in DOMAIN handed : handed[k] = line
     IN  IF Whole THEN /\ tell' = tell + 2
                       /\ handed' = IF known THEN handed ELSE Append(handed, line)
                       /\ repeated' = IF known THEN repeated \cup {line} ELSE repeated
                       /\ UNCHANGED torn
         ELSE /\ tell' = tell + 1 /\ torn' = torn \cup {line}
              /\ UNCHANGED <<handed, repeated>>
  /\ UNCHANGED <<disk, path, out, lines, cut, fh, eof, blind, rotations, renamed>>

ReadNothing ==
  /\ fh # 0 /\ ~Available /\ ~eof /\ eof' = TRUE
  /\ UNCHANGED <<disk, path, out, lines, torn, cut, fh, tell, blind, handed, repeated, rotations, renamed>>

\* Bug: the position is compared as if the end of the file were a truncation.
TruncatedAtEnd == path # 0 /\ tell >= Len(disk[path])

\* Bug: truncation is not looked for.
TruncatedNever == FALSE

\* tell() > getsize(path); getsize raises when the path is gone.
Truncated == path # 0 /\ tell > Len(disk[path])

\* The inode of the path is no longer that of the open file.
Rotated == path # 0 /\ path # fh

\* Bug: as at the start, what the file holds already is skipped.
BeginningEnd == Len(disk[path])

Beginning == 0

\* The checks after an empty readline, in the order of the code.
CheckFile ==
  /\ eof /\ eof' = FALSE
  /\ IF Truncated THEN tell' = Beginning /\ fh' = fh /\ blind' = 0
     ELSE IF Rotated THEN tell' = Beginning /\ fh' = path /\ blind' = 0
     ELSE UNCHANGED <<tell, fh, blind>>
  /\ UNCHANGED <<disk, path, out, lines, torn, cut, handed, repeated, rotations, renamed>>

TailNext ==
  \/ WriteLine \/ WriteRest \/ Truncate \/ Rename \/ Create
  \/ Open \/ ReadLine \/ ReadNothing \/ CheckFile

TailSpec == TailInit /\ [][TailNext]_tailVars
TailFairness ==
  /\ WF_tailVars(Open) /\ WF_tailVars(ReadLine)
  /\ WF_tailVars(ReadNothing) /\ WF_tailVars(CheckFile)

TailFairSpec == TailSpec /\ TailFairness

-----------------------------------------------------------------------------
(* Properties.                                                             *)

\* Types of the variables.
TailTypeOK ==
  /\ \A i \in DOMAIN disk : disk[i] \in Seq((1..MaxLines) \X {1, 2})
  /\ {path, out, fh} \subseteq {0} \cup DOMAIN disk
  /\ lines \in 0..MaxLines /\ torn \cup cut \subseteq 1..lines
  /\ {tell, blind} \subseteq 0..(2 * MaxLines) /\ handed \in Seq(1..lines)
  /\ repeated \subseteq 1..lines
  /\ {eof, renamed} \subseteq BOOLEAN /\ rotations \in 0..MaxRotations

\* Without a rename the lines are handed on in the order in which Suricata
\* wrote them and none twice, though the file be truncated under the reader.
OrderedOnce ==
  renamed \/ /\ repeated = {}
             /\ \A i, j \in DOMAIN handed : i < j => handed[i] < handed[j]

\* Without a rename every line that lies before the position was handed on or
\* torn, unless the reader opened the file after it or the file was truncated
\* and grew past the old position unnoticed.
NoLineSkipped ==
  renamed \/ fh = 0 \/
    \A i \in (blind + 1)..tell :
      i \in DOMAIN disk[fh] /\ disk[fh][i][2] = 2 =>
        disk[fh][i][1] \in torn \cup {handed[k] : k \in DOMAIN handed}

\* main.py: a rotation is recognised and no line comes twice.
HandedOnce == repeated = {}

\* Without a rename the reader catches up: a file that is no longer written
\* is read to its end.
CatchesUp == []<>(renamed \/ path = 0 \/ (fh = path /\ tell = Len(disk[fh])))

=============================================================================
