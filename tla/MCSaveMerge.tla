----------------------------- MODULE MCSaveMerge -----------------------------
(* Three sectors for two files, words below eight.  The first image holds any *)
(* mixture of current, stale, tied and damaged copies, the second is a donor   *)
(* with two files or with one whose counter is the highest there is.          *)
EXTENDS SaveMerge, TLC

CONSTANTS here, there, new, newer

Copy(f, count, body) ==
  Rewrite([magic |-> Magic, crc1 |-> 0, crc2 |-> 0, file |-> 0, count |-> 0, body |-> body], f, count)

Damaged    == [Copy(1, 5, 1) EXCEPT !.body = 2]

MCImages == [Physical -> {Damaged, Copy(0, 0, 1), Copy(0, 3, 2), Copy(1, 3, 1), Copy(1, 4, 3)}]
MCDonors == {<<Copy(0, 2, 5), Copy(1, 1, 6), Damaged>>, <<Damaged, Copy(1, 7, 6), Copy(1, 0, 5)>>}

MCPaths    == {here, there, new, newer}
MCSymmetry == Permutations({new, newer})
MCInitial ==
  {[p \in MCPaths |-> CASE p = here -> live [] p = there -> donor [] OTHER -> Missing] :
     live \in MCImages, donor \in {[p \in Physical |-> d[p + 1]] : d \in MCDonors}}
=============================================================================
