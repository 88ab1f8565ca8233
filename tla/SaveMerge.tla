------------------------------ MODULE SaveMerge ------------------------------
(***************************************************************************)
(* scripts/merge-paper-mario-save-slot.py: copies one logical save file of *)
(* a donor FlashRAM image into a live one.  The game keeps its files in    *)
(* rotating physical sectors, the valid copy with the highest counter being *)
(* the file; the script writes the donor's file into a sector that holds no *)
(* other current file, under a counter higher than any, and checks what it *)
(* made before it writes it to a new path.                                 *)
(*                                                                         *)
(* A sector is six words: the magic, the two checksum words, the file, the *)
(* counter, and one word for the rest of the data.                         *)
(***************************************************************************)
EXTENDS Integers, FiniteSets

CONSTANTS
  PhysicalSaves,  \* PHYSICAL_SAVE_COUNT
  LogicalSaves,   \* LOGICAL_SAVE_COUNT
  Modulus,        \* 2^32, one more than the largest word
  Magic,          \* MAGIC
  Paths,          \* where images are
  Initial,        \* what may be at the paths before the first run
  Missing,        \* no file is there
  Partial         \* a file that is not FLASH_SIZE bytes long

Physical == 0..(PhysicalSaves - 1)
Logical  == 0..(LogicalSaves - 1)
Words    == 0..(Modulus - 1)
Sectors  == [magic : Words, crc1 : Words, crc2 : Words, file : Words, count : Words, body : Words]
Images   == [Physical -> Sectors]

ASSUME CountsAssumption ==
  LogicalSaves \in Nat \ {0} /\ PhysicalSaves \in Nat /\ LogicalSaves <= PhysicalSaves
ASSUME WordsAssumption == Modulus \in Nat /\ LogicalSaves < Modulus /\ Magic \in Words
ASSUME PathsAssumption ==
  /\ "none" \notin Paths
  /\ Missing \notin Images /\ Partial \notin Images /\ Missing # Partial
  /\ Initial \subseteq [Paths -> Images \cup {Missing, Partial}]

VARIABLES
  files,    \* files[p]: the image at path p, Missing or Partial
  writing,  \* the path write_bytes is writing to, or "none"
  merged,   \* merged_bytes of the run in progress
  outcome   \* how the last run ended

vars == <<files, writing, merged, outcome>>

-----------------------------------------------------------------------------
(* Records *)

\* ~word & 0xFFFFFFFF
Complement(word) == Modulus - 1 - word

Checksum(s) == (s.magic + s.crc1 + s.crc2 + s.file + s.count + s.body) % Modulus

\* parse_record returns a record.
Valid(s) ==
  /\ s.magic = Magic
  /\ s.crc2 = Complement(s.crc1)
  /\ Checksum(s) = s.crc1
  /\ s.file < LogicalSaves

Records(image)   == {p \in Physical : Valid(image[p])}
Copies(image, f) == {p \in Records(image) : image[p].file = f}

\* active_records keeps the first of the copies with the highest counter.
Prevails(image, p, q) ==
  \/ image[p].count > image[q].count
  \/ image[p].count = image[q].count /\ p <= q

Active(image, f) ==
  CHOOSE p \in Copies(image, f) : \A q \in Copies(image, f) : Prevails(image, p, q)

-----------------------------------------------------------------------------
(* The merge *)

Protected(live, f) ==
  {Active(live, g) : g \in {g \in Logical \ {f} : Copies(live, g) # {}}}

\* Mutant of Candidates: the sectors of other current files are not protected.
CandidatesAnywhere(live, f) == Physical

Candidates(live, f) == Physical \ Protected(live, f)

\* The sort key: sectors without a record first, then by counter, then by index.
Sooner(live, p, q) ==
  \/ p \notin Records(live) /\ (q \in Records(live) \/ p <= q)
  \/ /\ {p, q} \subseteq Records(live)
     /\ \/ live[p].count < live[q].count
        \/ live[p].count = live[q].count /\ p <= q

Destination(live, f) ==
  CHOOSE p \in Candidates(live, f) : \A q \in Candidates(live, f) : Sooner(live, p, q)

Counts(live, donor, f) ==
  {live[p].count : p \in Records(live)} \cup {donor[Active(donor, f)].count}

NextCount(live, donor, f) ==
  1 + CHOOSE n \in Counts(live, donor, f) : \A m \in Counts(live, donor, f) : m <= n

\* What rewrite_slot_and_count makes of a sector, given the checksum words.
Stamped(s, crc1, crc2, f, count) ==
  [magic |-> s.magic, crc1 |-> crc1, crc2 |-> crc2, file |-> f, count |-> count, body |-> s.body]

\* rewrite_slot_and_count: the sum is taken with the checksum words neutral.
Rewrite(s, f, count) ==
  LET sum == Checksum(Stamped(s, 0, Modulus - 1, f, count))
  IN  Stamped(s, sum, Complement(sum), f, count)

Merge(live, donor, f) ==
  [live EXCEPT ![Destination(live, f)] =
     Rewrite(donor[Active(donor, f)], f, NextCount(live, donor, f))]

\* The assertions about the merged image.
Asserted(live, donor, f) ==
  LET image == Merge(live, donor, f)
  IN  /\ Copies(image, f) # {}
      /\ Active(image, f) = Destination(live, f)
      /\ \A g \in Logical \ {f} : Copies(live, g) # {} =>
           /\ Copies(image, g) # {}
           /\ image[Active(image, g)] = live[Active(live, g)]

\* What main comes to once both images are loaded.  A counter that does not fit
\* its word makes struct.pack_into raise.
Verdict(live, donor, f) ==
  IF Copies(donor, f) = {} THEN "donor lacks the file"
  ELSE IF Candidates(live, f) = {} THEN "no sector"
  ELSE IF NextCount(live, donor, f) >= Modulus THEN "counter overflow"
  ELSE IF ~Asserted(live, donor, f) THEN "assertion"
  ELSE "merged"

-----------------------------------------------------------------------------
(* main, run any number of times, on the outputs of earlier runs too *)

\* Mutant of OutputFree: only the two inputs are protected from being overwritten.
OutputNotInput(live, donor, output) == output \notin {live, donor}

OutputFree(live, donor, output) == output \notin {live, donor} /\ files[output] = Missing

Loaded(path) == files[path] \in Images

Refuse(live, donor, output) ==
  /\ writing = "none"
  /\ \/ ~OutputFree(live, donor, output)
     \/ ~Loaded(live)
     \/ ~Loaded(donor)
  /\ outcome' = "refused"
  /\ UNCHANGED <<files, writing, merged>>

\* With both images loaded: an error ends the run, or write_bytes creates the output,
\* which it then fills.
Run(live, donor, output, f) ==
  /\ writing = "none"
  /\ OutputFree(live, donor, output)
  /\ Loaded(live)
  /\ Loaded(donor)
  /\ outcome' = Verdict(files[live], files[donor], f)
  /\ IF outcome' = "merged"
     THEN /\ merged' = Merge(files[live], files[donor], f)
          /\ writing' = output
          /\ files' = [files EXCEPT ![output] = Partial]
     ELSE UNCHANGED <<files, writing, merged>>

EndWrite ==
  /\ writing # "none"
  /\ files' = [files EXCEPT ![writing] = merged]
  /\ writing' = "none"
  /\ UNCHANGED <<merged, outcome>>

\* The disk is full, or the script is killed.
WriteFails ==
  /\ writing # "none"
  /\ writing' = "none"
  /\ UNCHANGED <<files, merged, outcome>>

-----------------------------------------------------------------------------
Init ==
  /\ files \in Initial
  /\ writing = "none"
  /\ merged = Missing
  /\ outcome = "none"

Next ==
  \/ \E live, donor, output \in Paths :
       \/ Refuse(live, donor, output)
       \/ \E f \in Logical : Run(live, donor, output, f)
  \/ EndWrite
  \/ WriteFails

Spec == Init /\ [][Next]_vars

-----------------------------------------------------------------------------
(* Properties *)

TypeOK ==
  /\ files \in [Paths -> Images \cup {Missing, Partial}]
  /\ writing \in Paths \cup {"none"}
  /\ merged \in Images \cup {Missing}
  /\ outcome \in {"none", "refused", "donor lacks the file", "counter overflow", "no sector",
                  "assertion", "merged"}

\* Whatever is in the six sectors, stale copies and damaged ones included, there is a
\* sector for the donor's file, the donor's file wins the rotation, and no other
\* current file is changed: no assertion of the script is ever raised.  Every word
\* that is written fits, the new counter too.
MergeIsSafe ==
  /\ outcome \notin {"no sector", "assertion"}
  /\ \A p \in Paths : files[p] \in Images \cup {Missing, Partial}

\* A run never touches a file it has not created itself, and what it leaves behind when
\* it dies is never taken for an image by a later run.
FilesKept ==
  [][\A p \in Paths : files[p] # Missing /\ files'[p] # files[p] =>
       files[p] = Partial /\ writing = p]_vars
=============================================================================
