------------------------------ MODULE FileProofs ------------------------------
(***************************************************************************)
(* What PaperPad keeps in files, and what becomes of it when a run, an      *)
(* import or a launch is cut short: the save images of the merge script,    *)
(* the ROM and what is made of it, and the logs of the last sessions.      *)
(***************************************************************************)
EXTENDS SaveMerge, RomLibrary, DiagnosticsSession, TLAPS, FiniteSetTheorems, WellFoundedInduction

-----------------------------------------------------------------------------
(* The save merge, for any number of sectors and files, any word size and   *)
(* every pair of images.                                                   *)

\* A nonempty set of natural numbers has a least element.
LEMMA Least ==
  ASSUME NEW S \in SUBSET Nat, S # {}
  PROVE  \E m \in S : \A n \in S : m <= n
<1>1. PICK m \in S : \A n \in S : <<n, m>> \notin OpToRel(<, Nat)
  BY NatLessThanWellFounded, WFMin
<1>2. \A n \in S : ~(n < m)
  BY <1>1, Zenon DEF OpToRel
<1> QED
  BY <1>2

\* A nonempty set of words has a greatest element.
LEMMA Greatest ==
  ASSUME NEW S \in SUBSET Words, S # {}
  PROVE  \E m \in S : \A n \in S : n <= m
<1> DEFINE T == {Modulus - n : n \in S}
<1>1. T \in SUBSET Nat /\ T # {}
  <2>1. \A n \in S : Modulus - n \in Nat
    BY WordsAssumption DEF Words
  <2>2. T # {}
    OBVIOUS
  <2> QED
    BY <2>1, <2>2
<1>2. PICK t \in T : \A u \in T : t <= u
  BY <1>1, Least
<1>3. PICK m \in S : t = Modulus - m
  BY <1>2
<1>4. ASSUME NEW n \in S PROVE n <= m
  <2>1. Modulus - n \in T
    OBVIOUS
  <2> QED
    BY <1>2, <1>3, <2>1, WordsAssumption DEF Words
<1> QED
  BY <1>4

-----------------------------------------------------------------------------
(* The choices the script makes *)

\* A file with a valid copy has a current one, and it is the only one that prevails
\* over all others.
LEMMA ActiveExists ==
  ASSUME NEW image \in Images, NEW f, Copies(image, f) # {}
  PROVE  /\ Active(image, f) \in Copies(image, f)
         /\ \A q \in Copies(image, f) : Prevails(image, Active(image, f), q)
<1> DEFINE C == Copies(image, f)
           counts == {image[p].count : p \in C}
<1>1. C \subseteq Physical /\ Physical \subseteq Nat
  BY CountsAssumption DEF Copies, Records, Physical
<1>2. counts \in SUBSET Words /\ counts # {}
  BY <1>1 DEF Images, Sectors
<1>3. PICK n \in counts : \A m \in counts : m <= n
  BY <1>2, Greatest
<1> DEFINE D == {p \in C : image[p].count = n}
<1>4. D \in SUBSET Nat /\ D # {}
  BY <1>1, <1>3
<1>5. PICK p \in D : \A q \in D : p <= q
  BY <1>4, Least
<1>6. ASSUME NEW q \in C PROVE Prevails(image, p, q)
  <2>1. image[q].count \in counts /\ image[q].count <= n
    BY <1>3
  <2>2. n \in Int /\ image[q].count \in Int
    BY <1>2, <2>1, WordsAssumption DEF Words
  <2>3. CASE image[q].count = n
    BY <1>5, <2>3 DEF Prevails
  <2>4. CASE image[q].count # n
    BY <1>5, <2>1, <2>2, <2>4 DEF Prevails
  <2> QED
    BY <2>3, <2>4
<1> QED
  BY <1>5, <1>6 DEF Active

\* Two copies that prevail over all others are the same copy.
LEMMA ActiveUnique ==
  ASSUME NEW image \in Images, NEW f, NEW p \in Copies(image, f),
         \A q \in Copies(image, f) : Prevails(image, p, q)
  PROVE  Active(image, f) = p
<1>1. /\ Active(image, f) \in Copies(image, f)
      /\ Prevails(image, Active(image, f), p)
  BY ActiveExists
<1>2. Prevails(image, p, Active(image, f))
  BY <1>1
<1>3. p \in Physical /\ Active(image, f) \in Physical
  BY <1>1 DEF Copies, Records
<1>4. image[p].count \in Words /\ image[Active(image, f)].count \in Words
  BY <1>3 DEF Images, Sectors
<1> QED
  BY <1>1, <1>2, <1>3, <1>4, CountsAssumption, WordsAssumption DEF Prevails, Physical, Words

\* With no more files than sectors, some sector holds no other current file.
LEMMA SectorAvailable ==
  ASSUME NEW live \in Images, NEW f \in Logical
  PROVE  Candidates(live, f) # {}
<1> DEFINE others == Logical \ {f}
           Current(g) == Active(live, g)
<1>1. IsFiniteSet(Logical) /\ Cardinality(Logical) = LogicalSaves
  BY FS_Interval, CountsAssumption DEF Logical
<1>2. IsFiniteSet(Physical) /\ Cardinality(Physical) = PhysicalSaves
  BY FS_Interval, CountsAssumption DEF Physical
<1>3. IsFiniteSet(others) /\ Cardinality(others) = LogicalSaves - 1
  BY <1>1, FS_RemoveElement
<1> DEFINE listed == {g \in others : Copies(live, g) # {}}
<1>4. IsFiniteSet(listed) /\ Cardinality(listed) <= LogicalSaves - 1
  BY <1>3, FS_Subset
<1> DEFINE h == [g \in listed |-> Active(live, g)]
<1>5. h \in Surjection(listed, Protected(live, f))
  BY DEF Surjection, Protected
<1>6. IsFiniteSet(Protected(live, f)) /\ Cardinality(Protected(live, f)) <= Cardinality(listed)
  BY <1>4, <1>5, FS_Surjection
<1>7. Protected(live, f) # Physical
  <2>1. Cardinality(Protected(live, f)) \in Nat /\ Cardinality(listed) \in Nat
    BY <1>4, <1>6, FS_CardinalityType
  <2> QED
    BY <1>2, <1>4, <1>6, <2>1, CountsAssumption
<1>8. Protected(live, f) \subseteq Physical
  BY ActiveExists DEF Protected, Copies, Records
<1> QED
  BY <1>7, <1>8 DEF Candidates

\* The sort of the candidates has a first element.
LEMMA DestinationExists ==
  ASSUME NEW live \in Images, NEW f \in Logical
  PROVE  Destination(live, f) \in Candidates(live, f)
<1> DEFINE C == Candidates(live, f)
           B == C \ Records(live)
<1>1. C \in SUBSET Nat /\ C # {}
  BY SectorAvailable, CountsAssumption DEF Candidates, Physical
<1>2. CASE B # {}
  <2>1. PICK p \in B : \A q \in B : p <= q
    BY <1>1, <1>2, Least
  <2>2. \A q \in C : Sooner(live, p, q)
    BY <2>1 DEF Sooner
  <2> QED
    BY <2>1, <2>2 DEF Destination
<1>3. CASE B = {}
  <2> DEFINE counts == {live[p].count : p \in C}
  <2>1. counts \in SUBSET Nat /\ counts # {}
    BY <1>1, WordsAssumption DEF Candidates, Images, Sectors, Words
  <2>2. PICK n \in counts : \A m \in counts : n <= m
    BY <2>1, Least
  <2> DEFINE D == {p \in C : live[p].count = n}
  <2>3. D \in SUBSET Nat /\ D # {}
    BY <1>1, <2>2
  <2>4. PICK p \in D : \A q \in D : p <= q
    BY <2>3, Least
  <2>5. ASSUME NEW q \in C PROVE Sooner(live, p, q)
    <3>1. {p, q} \subseteq Records(live)
      BY <1>3
    <3>2. live[q].count \in counts /\ n <= live[q].count
      BY <2>2
    <3>3. live[q].count \in Int /\ n \in Int
      BY <2>1, <3>2
    <3>4. CASE live[q].count = n
      BY <2>4, <3>1, <3>4 DEF Sooner
    <3>5. CASE live[q].count # n
      BY <2>4, <3>1, <3>2, <3>3, <3>5 DEF Sooner
    <3> QED
      BY <3>4, <3>5
  <2> QED
    BY <2>4, <2>5 DEF Destination
<1> QED
  BY <1>2, <1>3

\* The new counter is higher than that of every record of the live image.
LEMMA NextCountIsHighest ==
  ASSUME NEW live \in Images, NEW donor \in Images, NEW f, Copies(donor, f) # {}
  PROVE  /\ NextCount(live, donor, f) \in Nat
         /\ \A p \in Records(live) : live[p].count < NextCount(live, donor, f)
<1> DEFINE S == Counts(live, donor, f)
<1>1. Active(donor, f) \in Physical
  BY ActiveExists DEF Copies, Records
<1>2. S \in SUBSET Words /\ S # {}
  BY <1>1 DEF Counts, Records, Images, Sectors
<1>3. \E n \in S : \A m \in S : m <= n
  BY <1>2, Greatest
<1> DEFINE top == CHOOSE n \in S : \A m \in S : m <= n
<1>4. top \in S /\ \A m \in S : m <= top
  BY <1>3
<1>5. NextCount(live, donor, f) = 1 + top
  BY DEF NextCount
<1>6. \A p \in Records(live) : live[p].count \in S
  BY DEF Counts
<1>7. top \in Words
  BY <1>2, <1>4
<1>8. top \in Nat
  BY <1>7, WordsAssumption DEF Words
<1> HIDE DEF S, top
<1>9. NextCount(live, donor, f) \in Nat
  BY <1>5, <1>8
<1>10. ASSUME NEW p \in Records(live) PROVE live[p].count < NextCount(live, donor, f)
  <2>1. live[p].count <= top
    BY <1>4, <1>6
  <2>2. live[p].count \in Int
    BY WordsAssumption DEF Records, Images, Sectors, Words
  <2> QED
    BY <1>5, <1>8, <2>1, <2>2
<1> QED
  BY <1>9, <1>10

\* A rewritten record is valid: the two checksum words add up to the same sum
\* whether they are neutral or final.
LEMMA RewriteIsValid ==
  ASSUME NEW s \in Sectors, s.magic = Magic, NEW f \in Logical, NEW count \in Words
  PROVE  /\ Rewrite(s, f, count) \in Sectors
         /\ Valid(Rewrite(s, f, count))
         /\ Rewrite(s, f, count).file = f
         /\ Rewrite(s, f, count).count = count
<1> DEFINE c == Checksum(Stamped(s, 0, Modulus - 1, f, count))
           r == Stamped(s, c, Complement(c), f, count)
           n == s.magic + (Modulus - 1) + f + count + s.body
<1>1. Modulus \in Nat /\ Modulus > 0 /\ f \in Words /\ f < LogicalSaves
  BY CountsAssumption, WordsAssumption DEF Logical, Words
<1>2. s.magic \in Words /\ s.body \in Words
  BY DEF Sectors
<1>3. n \in Int
  BY <1>1, <1>2 DEF Words
<1>4. c = n % Modulus
  <2>1. s.magic + 0 + (Modulus - 1) + f + count + s.body = n
    BY <1>1, <1>2 DEF Words
  <2> QED
    BY <2>1 DEF Checksum, Stamped
<1>5. c \in Words
  BY <1>1, <1>3, <1>4 DEF Words
<1> HIDE DEF c
<1>6. Complement(c) \in Words
  BY <1>1, <1>5 DEF Complement, Words
<1>7. /\ r \in Sectors
      /\ r.magic = s.magic /\ r.body = s.body
      /\ r.crc1 = c /\ r.crc2 = Complement(c)
      /\ r.file = f /\ r.count = count
  BY <1>1, <1>2, <1>5, <1>6 DEF Sectors, Stamped
<1> HIDE DEF r
<1>8. Checksum(r) = c
  <2>1. r.magic + r.crc1 + r.crc2 + r.file + r.count + r.body = n
    BY <1>1, <1>2, <1>5, <1>7 DEF Complement, Words
  <2> QED
    BY <1>4, <2>1 DEF Checksum
<1>9. Rewrite(s, f, count) = r
  BY DEF Rewrite, r, c
<1> QED
  BY <1>1, <1>7, <1>8, <1>9 DEF Valid

-----------------------------------------------------------------------------
(* The assertions *)

\* The merged image is an image whose sectors are those of the live one, except for
\* the destination, which holds a valid copy of the file under the highest counter.
LEMMA MergeEffect ==
  ASSUME NEW live \in Images, NEW donor \in Images, NEW f \in Logical,
         Copies(donor, f) # {}, NextCount(live, donor, f) < Modulus
  PROVE  LET d == Destination(live, f)
             image == Merge(live, donor, f)
         IN  /\ image \in Images
             /\ d \in Physical /\ d \notin Protected(live, f)
             /\ Valid(image[d]) /\ image[d].file = f
             /\ \A p \in Records(live) : live[p].count < image[d].count
             /\ \A p \in Physical \ {d} : image[p] = live[p]
<1> DEFINE d == Destination(live, f)
           image == Merge(live, donor, f)
           source == donor[Active(donor, f)]
           count == NextCount(live, donor, f)
<1>1. Active(donor, f) \in Copies(donor, f)
  BY ActiveExists
<1>2. source \in Sectors /\ source.magic = Magic
  BY <1>1 DEF Copies, Records, Images, Valid
<1>3. count \in Words /\ \A p \in Records(live) : live[p].count < count
  BY NextCountIsHighest, WordsAssumption DEF Words
<1>4. d \in Physical /\ d \notin Protected(live, f)
  BY DestinationExists DEF Candidates
<1> DEFINE r == Rewrite(source, f, count)
<1>5. r \in Sectors /\ Valid(r) /\ r.file = f /\ r.count = count
  BY <1>2, <1>3, RewriteIsValid
<1>6. image = [live EXCEPT ![d] = r]
  BY DEF Merge
<1> HIDE DEF r, d, count, image
<1>7. /\ image \in Images
      /\ image[d] = r
      /\ \A p \in Physical \ {d} : image[p] = live[p]
  BY <1>4, <1>5, <1>6 DEF Images
<1> QED
  BY <1>3, <1>4, <1>5, <1>7 DEF d, image

\* The assertions of main always hold: the donor's file wins the rotation and every
\* other file keeps its current copy.
THEOREM AssertionsHold ==
  ASSUME NEW live \in Images, NEW donor \in Images, NEW f \in Logical,
         Copies(donor, f) # {}, NextCount(live, donor, f) < Modulus
  PROVE  Asserted(live, donor, f)
<1> DEFINE d == Destination(live, f)
           image == Merge(live, donor, f)
<1>1. /\ image \in Images
      /\ d \in Physical /\ d \notin Protected(live, f)
      /\ Valid(image[d]) /\ image[d].file = f
      /\ \A p \in Records(live) : live[p].count < image[d].count
      /\ \A p \in Physical \ {d} : image[p] = live[p]
  BY MergeEffect
<1> HIDE DEF d, image
<1>2. d \in Copies(image, f)
  BY <1>1 DEF Copies, Records
<1>3. ASSUME NEW q \in Copies(image, f) PROVE Prevails(image, d, q)
  <2>1. CASE q = d
    <3>1. d <= d
      BY <1>1, CountsAssumption DEF Physical
    <3> QED
      BY <2>1, <3>1 DEF Prevails
  <2>2. CASE q # d
    <3>1. q \in Records(live) /\ image[q] = live[q]
      BY <1>1, <2>2 DEF Copies, Records
    <3> QED
      BY <1>1, <3>1, WordsAssumption DEF Prevails, Records, Images, Sectors, Words
  <2> QED
    BY <2>1, <2>2
<1>4. Active(image, f) = d
  BY <1>1, <1>2, <1>3, ActiveUnique
<1>5. ASSUME NEW g \in Logical \ {f}, Copies(live, g) # {}
      PROVE  Copies(image, g) # {} /\ image[Active(image, g)] = live[Active(live, g)]
  <2> DEFINE p == Active(live, g)
  <2>1. p \in Copies(live, g) /\ \A q \in Copies(live, g) : Prevails(live, p, q)
    BY <1>5, ActiveExists
  <2>2. p \in Protected(live, f)
    BY <1>5 DEF Protected
  <2>3. p \in Physical \ {d} /\ image[p] = live[p]
    BY <1>1, <2>1, <2>2 DEF Copies, Records
  <2>4. p \in Copies(image, g)
    BY <2>1, <2>3 DEF Copies, Records
  <2>5. ASSUME NEW q \in Copies(image, g) PROVE Prevails(image, p, q)
    <3>1. q \in Physical \ {d}
      BY <1>1 DEF Copies, Records
    <3>2. image[q] = live[q]
      BY <1>1, <3>1
    <3>3. q \in Copies(live, g)
      BY <3>1, <3>2 DEF Copies, Records
    <3> QED
      BY <2>1, <2>3, <3>2, <3>3 DEF Prevails
  <2> HIDE DEF p
  <2>6. Active(image, g) = p
    BY <1>1, <2>4, <2>5, ActiveUnique
  <2> QED
    BY <2>3, <2>4, <2>6 DEF p
<1> QED
  BY <1>2, <1>4, <1>5 DEF Asserted, d, image

\* Whatever the two images are, main does not run out of sectors and none of its
\* assertions is raised.
LEMMA VerdictIsSafe ==
  ASSUME NEW live \in Images, NEW donor \in Images, NEW f \in Logical
  PROVE  /\ Verdict(live, donor, f) \in {"donor lacks the file", "counter overflow", "merged"}
         /\ Verdict(live, donor, f) = "merged" => Merge(live, donor, f) \in Images
<1>1. CASE Copies(donor, f) = {}
  BY <1>1 DEF Verdict
<1>2. CASE Copies(donor, f) # {} /\ NextCount(live, donor, f) >= Modulus
  BY <1>2, SectorAvailable DEF Verdict
<1>3. CASE Copies(donor, f) # {} /\ ~(NextCount(live, donor, f) >= Modulus)
  <2>1. NextCount(live, donor, f) < Modulus
    BY <1>3, NextCountIsHighest, WordsAssumption
  <2>2. Asserted(live, donor, f) /\ Merge(live, donor, f) \in Images
    BY <1>3, <2>1, AssertionsHold, MergeEffect
  <2> QED
    BY <1>3, <2>2, SectorAvailable DEF Verdict
<1> QED
  BY <1>1, <1>2, <1>3

-----------------------------------------------------------------------------
(* The specification *)

\* While an output is being written there is an image to write, and the output is the
\* file this run created.
Writing == writing # "none" => merged \in Images /\ writing \in Paths /\ files[writing] = Partial

MergeInv == TypeOK /\ MergeIsSafe /\ Writing

\* At first nothing is being written.
LEMMA InitMergeInv == Init => MergeInv
BY PathsAssumption DEF Init, MergeInv, TypeOK, MergeIsSafe, Writing

\* No run, and no crash of one, disturbs it.
LEMMA NextMergeInv == MergeInv /\ [Next]_vars => MergeInv'
<1> SUFFICES ASSUME MergeInv, [Next]_vars PROVE MergeInv'
  OBVIOUS
<1> USE DEF MergeInv
<1>1. CASE UNCHANGED vars
  BY <1>1 DEF vars, TypeOK, MergeIsSafe, Writing
<1>2. ASSUME NEW live \in Paths, NEW donor \in Paths, NEW output \in Paths,
             Refuse(live, donor, output)
      PROVE  MergeInv'
  BY <1>2 DEF Refuse, TypeOK, MergeIsSafe, Writing
<1>3. ASSUME NEW live \in Paths, NEW donor \in Paths, NEW output \in Paths, NEW f \in Logical,
             Run(live, donor, output, f)
      PROVE  MergeInv'
  <2>1. files[live] \in Images /\ files[donor] \in Images
    BY <1>3 DEF Run, Loaded
  <2> DEFINE v == Verdict(files[live], files[donor], f)
             m == Merge(files[live], files[donor], f)
  <2>2. v \in {"donor lacks the file", "counter overflow", "merged"} /\ (v = "merged" => m \in Images)
    BY <2>1, VerdictIsSafe
  <2>3. /\ writing = "none"
        /\ outcome' = v
        /\ IF v = "merged"
           THEN merged' = m /\ writing' = output /\ files' = [files EXCEPT ![output] = Partial]
           ELSE UNCHANGED <<files, writing, merged>>
    BY <1>3 DEF Run
  <2> HIDE DEF v, m
  <2>4. CASE v = "merged"
    BY <2>2, <2>3, <2>4 DEF TypeOK, MergeIsSafe, Writing
  <2>5. CASE v # "merged"
    BY <2>2, <2>3, <2>5 DEF TypeOK, MergeIsSafe, Writing
  <2> QED
    BY <2>4, <2>5
<1>4. CASE EndWrite
  BY <1>4 DEF EndWrite, TypeOK, MergeIsSafe, Writing
<1>5. CASE WriteFails
  BY <1>5 DEF WriteFails, TypeOK, MergeIsSafe, Writing
<1> QED
  BY <1>1, <1>2, <1>3, <1>4, <1>5 DEF Next

\* The inductive invariant holds in every behaviour.
THEOREM MergeInvariance == Spec => []MergeInv
BY InitMergeInv, NextMergeInv, PTL DEF Spec

\* For any number of sectors and files and any images, no merge runs out of sectors
\* and no assertion of the script is raised (MergeIsSafe).
THEOREM MergesAreSafe == Spec => []MergeIsSafe
BY MergeInvariance, PTL DEF MergeInv

\* What is written is always a whole image of well-typed sectors: no counter outgrows
\* its word (TypeOK).
THEOREM MergeTypeCorrect == Spec => []TypeOK
BY MergeInvariance, PTL DEF MergeInv

\* No run changes a file it has not created itself (FilesKept).
THEOREM FilesAreKept == Spec => FilesKept
<1> DEFINE Kept == \A p \in Paths : files[p] # Missing /\ files'[p] # files[p] =>
                     files[p] = Partial /\ writing = p
<1>1. MergeInv /\ [Next]_vars => [Kept]_vars
  <2> SUFFICES ASSUME MergeInv, Next PROVE Kept
    OBVIOUS
  <2>1. ASSUME NEW live \in Paths, NEW donor \in Paths, NEW output \in Paths,
               Refuse(live, donor, output)
        PROVE  Kept
    BY <2>1 DEF Refuse
  <2>2. ASSUME NEW live \in Paths, NEW donor \in Paths, NEW output \in Paths, NEW f \in Logical,
               Run(live, donor, output, f)
        PROVE  Kept
    <3>1. /\ files[output] = Missing
          /\ files' = files \/ files' = [files EXCEPT ![output] = Partial]
      BY <2>2 DEF Run, OutputFree
    <3> QED
      BY <3>1 DEF MergeInv, TypeOK
  <2>3. CASE EndWrite
    BY <2>3 DEF EndWrite, MergeInv, TypeOK, Writing
  <2>4. CASE WriteFails
    BY <2>4 DEF WriteFails
  <2> QED
    BY <2>1, <2>2, <2>3, <2>4 DEF Next
<1> QED
  BY <1>1, MergeInvariance, PTL DEF Spec, FilesKept

-----------------------------------------------------------------------------
(* The ROM library, for both builds and any operation that fails *)

\* Where a launch stands between its validation of the ROM and the game.
Preparing == {"prepare", "copy", "workspace", "extract", "commit", "clean"}

\* A removal that found the directory and was reported, or that is under way, has taken
\* the ROM.
RemovalInv ==
  /\ task \in {"none", "config", "remove config", "remove archive"}
  /\ reached => rom = "none"
  /\ task \in {"remove config", "remove archive"} => rom = "none" /\ phase = "running"
  /\ task = "config" => rom = "good" /\ ~reached /\ phase \in {"setup", "running"}
  /\ phase = "off" => task = "none"

\* The ROM that was validated stays as it is while the build prepares its own data.
PreparationInv ==
  /\ phase \in Preparing => rom = "good"
  /\ phase = "copy" => ~boat
  /\ phase \in {"workspace", "extract", "commit"} => boat
  /\ phase = "clean" => boat /\ archive = "good"

LibraryInv ==
  /\ boat \in BOOLEAN
  /\ StoredFilesAreWhole
  /\ RemovalAsksAgain
  /\ RemovalInv
  /\ PreparationInv

\* Importing and removing: the ROM changes before the task that follows it.
LEMMA TasksPreserve ==
  ASSUME LibraryInv,
         (\E pick \in Picks : Import(pick)) \/ StoreConfig \/ RemoveRom \/ RemoveNothing
           \/ RemoveRomFails \/ RemoveConfig \/ RemoveArchive
  PROVE  LibraryInv'
<1> USE DEF LibraryInv, StoredFilesAreWhole, RemovalAsksAgain, RemovalInv, PreparationInv, Preparing
<1>1. ASSUME NEW pick \in Picks, Import(pick) PROVE LibraryInv'
  <2>1. UNCHANGED <<boat, archive, phase>> /\ phase \in {"setup", "running"}
    BY <1>1 DEF Import
  <2>2. CASE /\ rom' = "good" /\ spoilt' = spoilt \ {"rom"} /\ task' = "config"
             /\ asked' = "no" /\ reached' = FALSE
    BY <2>1, <2>2
  <2>3. CASE task = "none" /\ UNCHANGED <<rom, spoilt, task, asked, reached>>
    BY <2>1, <2>3
  <2> QED
    BY <1>1, <2>2, <2>3 DEF Import, removal
<1>2. CASE StoreConfig
  BY <1>2 DEF StoreConfig, work, history, removal
<1>3. CASE RemoveRom
  BY <1>3 DEF RemoveRom, work, removal
<1>4. CASE RemoveNothing \/ RemoveRomFails
  <2>1. /\ phase = "running"
        /\ UNCHANGED <<boat, rom, archive, phase, task, spoilt, reached>>
    BY <1>4 DEF RemoveNothing, RemoveRomFails, storedFiles, progress, history, removal
  <2>2. asked' = asked \/ asked' = "told"
    BY <1>4 DEF RemoveNothing, RemoveRomFails, history, removal
  <2> QED
    BY <2>1, <2>2
<1>5. CASE RemoveConfig
  BY <1>5 DEF RemoveConfig, work, removal
<1>6. CASE RemoveArchive
  <2>1. UNCHANGED <<boat, rom, phase>> /\ task = "remove archive" /\ task' = "none"
    BY <1>6 DEF RemoveArchive
  <2>2. CASE /\ archive' = "none" /\ spoilt' = spoilt \ {"archive"}
             /\ asked' = "told" /\ reached' = TRUE
    BY <2>1, <2>2
  <2>3. CASE UNCHANGED <<archive, spoilt, asked, reached>>
    BY <2>1, <2>3
  <2> QED
    BY <1>6, <2>2, <2>3 DEF RemoveArchive, removal
<1> QED
  BY <1>1, <1>2, <1>3, <1>4, <1>5, <1>6

\* A launch goes on only with a good ROM, and makes the archive of PaperBoat or the copy
\* of the Original build good before it runs the game.
LEMMA LaunchPreserves ==
  ASSUME LibraryInv,
         Launch \/ LoadCopy \/ WriteCopy \/ LoadNewCopy \/ UseArchive \/ KeepInvalidArchive
           \/ MakeWorkspace \/ Extract \/ Commit \/ RemoveWorkspace
  PROVE  LibraryInv'
<1> USE DEF LibraryInv, StoredFilesAreWhole, RemovalAsksAgain, RemovalInv, PreparationInv, Preparing
<1>1. CASE Launch
  BY <1>1 DEF Launch, storedFiles, work, removal
<1>2. CASE LoadCopy \/ WriteCopy
  <2>1. /\ phase = "prepare" /\ ~boat /\ (phase' = "running" \/ phase' = "copy")
        /\ UNCHANGED <<boat, rom, archive, task, spoilt, asked, reached>>
    BY <1>2 DEF LoadCopy, WriteCopy, Goto, storedFiles, history, removal
  <2> QED
    BY <2>1
<1>3. CASE UseArchive \/ MakeWorkspace \/ Extract \/ RemoveWorkspace
  <2>1. UNCHANGED <<boat, rom, archive, task, spoilt, asked, reached>>
    BY <1>3 DEF UseArchive, MakeWorkspace, Extract, RemoveWorkspace, Goto, storedFiles, history, removal
  <2>2. CASE UseArchive
    BY <2>1, <2>2 DEF UseArchive, Goto
  <2>3. CASE MakeWorkspace
    BY <2>1, <2>3 DEF MakeWorkspace, Goto
  <2>4. CASE Extract
    BY <2>1, <2>4 DEF Extract, Goto
  <2>5. CASE RemoveWorkspace
    BY <2>1, <2>5 DEF RemoveWorkspace, Goto
  <2> QED
    BY <1>3, <2>2, <2>3, <2>4, <2>5
<1>4. CASE KeepInvalidArchive
  BY <1>4 DEF KeepInvalidArchive, work, removal
<1>5. CASE Commit
  <2>1. /\ phase = "commit"
        /\ UNCHANGED <<boat, rom, task, asked, reached>>
        /\ \/ archive' = "good" /\ phase' = "clean"
           \/ UNCHANGED archive /\ phase' = "failed"
        /\ UNCHANGED spoilt
    BY <1>5 DEF Commit, Goto, history, removal
  <2> QED
    BY <2>1
<1>6. CASE LoadNewCopy
  <2>1. /\ phase = "copy" /\ (phase' = "running" \/ phase' = "off")
        /\ UNCHANGED <<boat, rom, archive, task, spoilt, asked, reached>>
    BY <1>6 DEF LoadNewCopy, Goto, history, removal
  <2> QED
    BY <2>1
<1> QED
  BY <1>1, <1>2, <1>3, <1>4, <1>5, <1>6

\* The inductive invariant holds in every behaviour of the library, with or without failures of
\* the storage, and in both builds.
THEOREM LibraryInvariance == LibrarySpec => []LibraryInv
<1>1. InitLibrary => LibraryInv
  BY DEF InitLibrary, LibraryInv, StoredFilesAreWhole, RemovalAsksAgain, RemovalInv,
       PreparationInv, Preparing
<1>2. LibraryInv /\ [NextLibrary]_libraryVars => LibraryInv'
  <2> SUFFICES ASSUME LibraryInv, [NextLibrary]_libraryVars PROVE LibraryInv'
    OBVIOUS
  <2> USE DEF LibraryInv, StoredFilesAreWhole, RemovalAsksAgain, RemovalInv, PreparationInv, Preparing
  <2>1. CASE Stop
    BY <2>1 DEF Stop, storedFiles, history, removal
  <2>2. CASE Spoil
    BY <2>2 DEF Spoil, work, progress, removal
  <2>3. CASE UNCHANGED libraryVars
    BY <2>3 DEF libraryVars, storedFiles, work, progress, history, removal
  <2> HIDE DEF LibraryInv
  <2> QED
    BY <2>1, <2>2, <2>3, TasksPreserve, LaunchPreserves DEF NextLibrary
<1> QED
  BY <1>1, <1>2, PTL DEF LibrarySpec

\* Half a ROM or half an archive is never the program's own doing (StoredFilesAreWhole).
THEOREM StoredFilesStayWhole == LibrarySpec => []StoredFilesAreWhole
BY LibraryInvariance, PTL DEF LibraryInv

\* A launch after a reported removal that found the application support directory never gets
\* past the setup screen before a supported ROM is imported (RemovalAsksAgain).
THEOREM RemovalAlwaysAsksAgain == LibrarySpec => []RemovalAsksAgain
BY LibraryInvariance, PTL DEF LibraryInv

\* However launches, imports and extractions are cut short, the game starts only from a
\* verified ROM and from whole data made of it (StartsFromVerifiedData).
THEOREM GameStartsFromVerifiedData == LibrarySpec => StartsFromVerifiedData
<1> DEFINE Verified == phase # "running" /\ phase' = "running" =>
                         rom = "good" /\ IF boat THEN archive' = "good" ELSE copy' = "good"
<1>1. LibraryInv /\ [NextLibrary]_libraryVars => [Verified]_libraryVars
  <2> SUFFICES ASSUME LibraryInv, NextLibrary, phase # "running", phase' = "running"
               PROVE  rom = "good" /\ IF boat THEN archive' = "good" ELSE copy' = "good"
    OBVIOUS
  <2> USE DEF LibraryInv, PreparationInv, Preparing
  <2>1. ~\E pick \in Picks : Import(pick)
    BY DEF Import
  <2>2. ~(StoreConfig \/ RemoveRom \/ RemoveNothing \/ RemoveRomFails \/ RemoveConfig \/ RemoveArchive)
    BY DEF StoreConfig, RemoveRom, RemoveNothing, RemoveRomFails, RemoveConfig, RemoveArchive,
         progress, RemovalInv
  <2>3. ~(Launch \/ WriteCopy \/ KeepInvalidArchive \/ MakeWorkspace \/ Extract \/ Commit \/ Stop \/ Spoil)
    BY DEF Launch, WriteCopy, KeepInvalidArchive, MakeWorkspace, Extract, Commit, Goto, Stop, Spoil,
         progress
  <2>4. CASE LoadCopy \/ LoadNewCopy
    BY <2>4 DEF LoadCopy, LoadNewCopy, Goto, storedFiles
  <2>5. CASE UseArchive \/ RemoveWorkspace
    BY <2>5 DEF UseArchive, RemoveWorkspace, Goto, storedFiles
  <2> HIDE DEF LibraryInv
  <2> QED
    BY <2>1, <2>2, <2>3, <2>4, <2>5 DEF NextLibrary
<1> QED
  BY <1>1, LibraryInvariance, PTL DEF LibrarySpec, StartsFromVerifiedData

-----------------------------------------------------------------------------
(* The session log, for any number of launches, whether storage fails or not *)

\* Where paperpad_start_diagnostics_log stands: before it has moved the latest log, and
\* between that and the log of its own.
Rotating == {"remove", "rotate"}
Marking  == {"unmark", "label", "deactivate", "activate", "open"}

LogTypes ==
  /\ {launch, latest, previous} \subseteq Nat
  /\ stored \in 0..Cap
  /\ step \in {"off", "running"} \cup Rotating \cup Marking
  /\ ended \subseteq 1..launch /\ logged \subseteq 1..launch
  /\ step # "off" => launch > 0 /\ launch \notin ended

\* The latest log is that of the last launch that opened one.  It has a marker beside it
\* when its launch did not end; with storage that fails, when some launch since then
\* did not.
LatestInv ==
  /\ ~directory => latest = None /\ previous = None /\ ~active /\ step \in {"off", "running"}
  /\ latest <= launch
  /\ latest # None => \A k \in logged : k <= latest
  /\ step \in Rotating \cup Marking => launch \notin logged /\ latest < launch
  /\ active /\ latest # None =>
       \E k \in latest..launch : k \notin ended /\ (step \in Rotating => k < launch)
  /\ ~storageFails =>
       /\ latest # None /\ step \notin Marking => (active <=> latest \notin ended)
       /\ step \in Marking => latest = None
       /\ step = "open" => active

\* What a launch has noted before it moves the latest log is still so when it does.
LocalsInv ==
  /\ step \in Rotating => (hadLatest <=> latest # None) /\ (mayBeUnclean <=> hadLatest /\ active)
  /\ step = "rotate" => previous = None

\* What will be the label of the previous log
Label == IF step \in {"unmark", "label"} THEN mayBeUnclean ELSE unclean

\* Once moved, the previous log is the last one stored before this launch, and the label
\* is right.
PreviousInv ==
  /\ step = "running" => latest \in {None, launch}
  /\ step \in Marking \cup {"running"} /\ previous # None =>
       /\ previous < launch
       /\ \A k \in logged \ {launch} : k <= previous
       /\ Label => \E k \in previous..(launch - 1) : k \notin ended
       /\ ~storageFails => (Label <=> previous \notin ended)

LogInv == LogTypes /\ LatestInv /\ LocalsInv /\ PreviousInv

\* What the log needs to know about its constants.
LEMMA LogSizes == /\ {Launches, Cap, Chunk, Notice} \subseteq Nat
                  /\ Notice + Chunk <= Cap
BY SizesAssumption

\* A launch, which notes what it finds, or cannot log.
LEMMA StartPreserves ==
  ASSUME LogInv, StartLog \/ StartUnlogged
  PROVE  LogInv'
<1> USE DEF LogInv, LogTypes, LatestInv, LocalsInv, PreviousInv, Label, Rotating, Marking, None
<1>1. CASE StartLog
  <2>1. LogTypes'
    BY <1>1 DEF StartLog, logHistory
  <2>2. LatestInv'
    BY <1>1 DEF StartLog, logHistory
  <2>3. LocalsInv'
    BY <1>1 DEF StartLog, logHistory
  <2>4. PreviousInv'
    BY <1>1 DEF StartLog, logHistory
  <2> QED
    BY <2>1, <2>2, <2>3, <2>4
<1>2. CASE StartUnlogged
  <2>1. LogTypes'
    BY <1>2 DEF StartUnlogged, logFiles, locals, logHistory
  <2>2. LatestInv'
    BY <1>2 DEF StartUnlogged, logFiles, locals, logHistory
  <2>3. LocalsInv' /\ PreviousInv'
    BY <1>2 DEF StartUnlogged, logFiles, locals, logHistory
  <2> QED
    BY <2>1, <2>2, <2>3
<1> QED
  BY <1>1, <1>2

\* The latest log becomes the previous one.
LEMMA RotatePreserves ==
  ASSUME LogInv, RemovePrevious \/ Rotate
  PROVE  LogInv'
<1> USE DEF LogInv, LogTypes, LatestInv, LocalsInv, PreviousInv, Label, Rotating, Marking, None
<1>1. CASE RemovePrevious
  BY <1>1 DEF RemovePrevious, locals, logHistory
<1>2. CASE Rotate
  <2>1. LogTypes'
    BY <1>2 DEF Rotate, locals, logHistory
  <2>2. LatestInv'
    BY <1>2 DEF Rotate, locals, logHistory
  <2>3. LocalsInv'
    BY <1>2 DEF Rotate, locals, logHistory
  <2>4. PreviousInv'
    BY <1>2 DEF Rotate, locals, logHistory
  <2> QED
    BY <2>1, <2>2, <2>3, <2>4
<1> QED
  BY <1>1, <1>2

\* The two markers, and a log of this launch's own.
LEMMA MarkPreserves ==
  ASSUME LogInv, RemoveUnclean \/ LabelUnclean \/ RemoveActive \/ CreateActive \/ OpenLatest
  PROVE  LogInv'
<1> USE DEF LogInv, LogTypes, LatestInv, LocalsInv, PreviousInv, Label, Rotating, Marking, None
<1>1. CASE RemoveUnclean
  BY <1>1 DEF RemoveUnclean, locals, logHistory
<1>2. CASE LabelUnclean
  BY <1>2 DEF LabelUnclean, locals, logHistory
<1>3. CASE RemoveActive
  BY <1>3 DEF RemoveActive, locals, logHistory
<1>4. CASE CreateActive
  <2>1. active' \in BOOLEAN /\ (~storageFails => active')
    BY <1>4, Zenon DEF CreateActive
  <2>2. LogTypes' /\ LocalsInv' /\ PreviousInv'
    BY <1>4, <2>1 DEF CreateActive, locals, logHistory
  <2>3. LatestInv'
    BY <1>4, <2>1 DEF CreateActive, locals, logHistory
  <2> QED
    BY <2>2, <2>3
<1>5. CASE OpenLatest
  <2>1. /\ latest' = launch \/ (latest' = None /\ storageFails)
        /\ logged' = IF latest' = None THEN logged ELSE logged \cup {launch}
        /\ stored' = 0 /\ step = "open" /\ step' = "running"
        /\ UNCHANGED <<directory, previous, active, unclean, launch, mayBeUnclean, hadLatest,
                       storageFails, ended>>
    BY <1>5 DEF OpenLatest, locals
  <2>5. launch \in 1..launch /\ latest' \in Nat
    BY <2>1
  <2>6. logged' \subseteq 1..launch
    BY <2>1, <2>5
  <2>7. stored' \in 0..Cap
    BY <2>1, LogSizes
  <2>2. LogTypes' /\ LocalsInv'
    <3>1. LogTypes'
      BY <2>1, <2>5, <2>6, <2>7
    <3> QED
      BY <3>1, <2>1
  <2>3. LatestInv'
    BY <2>1
  <2>4. PreviousInv'
    BY <2>1
  <2> QED
    BY <2>2, <2>3, <2>4
<1> QED
  BY <1>1, <1>2, <1>3, <1>4, <1>5

\* A session writes, ends or is killed.
LEMMA SessionPreserves ==
  ASSUME LogInv, (\E count \in 1..Chunk : WriteLog(count)) \/ FinishSession \/ Crash \/ UNCHANGED logVars
  PROVE  LogInv'
<1> USE DEF LogInv, LogTypes, LatestInv, LocalsInv, PreviousInv, Label, Rotating, Marking, None
<1>1. ASSUME NEW count \in 1..Chunk, WriteLog(count) PROVE LogInv'
  BY <1>1, LogSizes DEF WriteLog, logFiles, locals, logHistory
<1>2. CASE FinishSession
  <2>1. /\ step = "running" /\ step' = "off" /\ ~active' /\ ended' = ended \cup {launch}
        /\ UNCHANGED <<directory, latest, previous, unclean, launch, hadLatest, mayBeUnclean,
                       storageFails, stored, logged>>
    BY <1>2 DEF FinishSession, locals
  <2>4. launch \in 1..launch
    BY <2>1
  <2>7. ended' \subseteq 1..launch
    BY <2>1, <2>4
  <2>5. LogTypes'
    BY <2>1, <2>7
  <2>6. LocalsInv'
    BY <2>1
  <2>2. LatestInv'
    BY <1>2 DEF FinishSession, locals
  <2>3. PreviousInv'
    BY <1>2 DEF FinishSession, locals
  <2> QED
    BY <2>2, <2>3, <2>5, <2>6
<1>3. CASE Crash
  BY <1>3 DEF Crash, logFiles, locals, logHistory
<1>4. CASE UNCHANGED logVars
  BY <1>4 DEF logVars, logFiles, locals, logHistory
<1> QED
  BY <1>1, <1>2, <1>3, <1>4

\* The inductive invariant holds in every behaviour of the session log.
THEOREM LogInvariance == LogSpec => []LogInv
<1>1. InitLog => LogInv
  <2>1. InitLog => LogTypes
    <3>1. 0 \in 0..Cap
      BY LogSizes
    <3> QED
      BY <3>1 DEF InitLog, LogTypes, None
  <2>2. InitLog => LatestInv
    BY DEF InitLog, LatestInv, Rotating, Marking, None
  <2>3. InitLog => LocalsInv /\ PreviousInv
    BY DEF InitLog, LocalsInv, PreviousInv, Rotating, Marking, None
  <2> QED
    BY <2>1, <2>2, <2>3 DEF LogInv
<1>2. LogInv /\ [NextLog]_logVars => LogInv'
  BY StartPreserves, RotatePreserves, MarkPreserves, SessionPreserves DEF NextLog
<1> QED
  BY <1>1, <1>2, PTL DEF LogSpec

\* A session's log is labelled as possibly unclean exactly when it did not end, and never
\* without reason when storage fails, whichever launch was killed where (LabelMatchesLog).
THEOREM LabelAlwaysMatches == LogSpec => []LabelMatchesLog
<1>1. LogInv => LabelMatchesLog
  BY DEF LogInv, PreviousInv, Label, LabelMatchesLog
<1> QED
  BY <1>1, LogInvariance, PTL

\* The logs on offer are this launch's and the last one stored before it, and within their
\* cap (LogsAreRecent).
THEOREM LogsStayRecent == LogSpec => []LogsAreRecent
<1>1. LogInv => LogsAreRecent
  BY LogSizes DEF LogInv, LogTypes, PreviousInv, LogsAreRecent
<1> QED
  BY <1>1, LogInvariance, PTL
=============================================================================
