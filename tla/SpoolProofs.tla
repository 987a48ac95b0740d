------------------------------ MODULE SpoolProofs ------------------------------
(***************************************************************************)
(* Theorems about the dump directory, for any number of dumps, files,      *)
(* limits and faults, any setting back of the local clock, any moment at   *)
(* which the daemon or the machine stops, and any earlier moment whose     *)
(* directory a power loss brings back.                                     *)
(***************************************************************************)
EXTENDS Spool, FiniteSetTheorems, TLAPS

Names == [at : Int, n : Nat, suffix : Nat]
File == [data : {"none", "partial", "whole"}, synced : BOOLEAN, mtime : Nat]
Found == [name : Names, doc : Nat]

\* Where a temporary name has been chosen for the document being written.
Named == Writing \union {"create"}

TypeInv ==
    /\ pc \in Named \union {"idle", "clean", "delete", "stopped"}
    /\ files \in [1..MaxDumps -> File]
    /\ doc \in 0..MaxDumps
    /\ name = FinalName(name.at, name.n) /\ name \in Names
    /\ dump_count \in Nat /\ now \in Nat /\ stops \in Nat
    /\ pc \in Named => doc >= 1

\* The names the document last begun may have: none before its file is there,
\* its temporary one while it is written.
Places == IF pc = "create" THEN {} ELSE IF pc \in Writing THEN {TempName} ELSE Names

\* What is true of the directory and of the disk alike: the names are of
\* documents begun, the last of them only at places, and the final ones of
\* documents that no power loss takes back.
Fits(d, last, places, contents) ==
    /\ DOMAIN d \subseteq Names /\ IsFiniteSet(DOMAIN d)
    /\ \A x \in DOMAIN d : d[x] \in 1..last
    /\ \A x \in DOMAIN d : d[x] = last => x \in places
    /\ \A x \in DOMAIN d :
          x.suffix = 0 => contents[d[x]].data = "whole" /\ contents[d[x]].synced = TRUE

DirInv == Fits(dir, doc, Places, files) /\ Fits(disk, doc, Places, files)

\* Only what was written whole and synced comes to be renamed.
DocInv ==
    /\ pc \in {"sync", "rename"} => files[doc].data = "whole"
    /\ pc = "rename" => files[doc].synced = TRUE

\* The disk may hold one temporary file that is not in the directory any more.
OrphanInv == OrphansAreCounted /\ Cardinality(TempsOf(disk)) <= stops + 1

\* What this run of the daemon has written bears counts below its own.
KeptInv ==
    /\ \A d \in kept : \E x \in Finals : dir[x] = d /\ x.n < dump_count
    /\ pc \in Named => name.n = dump_count

\* While it deletes, a name in its list is of the document it was found with
\* or is gone.
ListInv ==
    /\ list \in Seq(Found)
    /\ pc = "delete" =>
          \A i \in DOMAIN list :
              list[i].name \in DOMAIN dir => dir[list[i].name] = list[i].doc

SpoolInv == TypeInv /\ DirInv /\ DocInv /\ OrphanInv /\ KeptInv /\ ListInv

\* All that the invariant speaks of, but for the step the daemon is at.
spool == <<dir, disk, files, doc, name, dump_count, stops, kept>>

-------------------------------------------------------------------------------
(* The directory.                                                           *)

LEMMA WithoutIs ==
    ASSUME NEW names
    PROVE  /\ DOMAIN Without(names) = DOMAIN dir \ names
           /\ \A y \in DOMAIN dir \ names : Without(names)[y] = dir[y]
  BY DEF Without, Restrict

\* A temporary name has the suffix of its document, a final one has none.
LEMMA TempNameIs ==
    ASSUME TypeInv, doc >= 1
    PROVE  /\ TempName = [at |-> name.at, n |-> name.n, suffix |-> doc]
           /\ TempName \in Names /\ TempName.suffix # 0 /\ TempName.n = name.n
           /\ name.suffix = 0 /\ TempName # name
<1>1. name = [at |-> name.at, n |-> name.n, suffix |-> 0] /\ name \in Names /\ doc \in Nat
  BY BoundsAssumption DEF TypeInv, FinalName
<1>2. TempName = [at |-> name.at, n |-> name.n, suffix |-> doc]
  BY <1>1 DEF TempName
<1>3. TempName \in Names /\ TempName.suffix = doc /\ TempName.n = name.n
  BY <1>1, <1>2 DEF Names
<1> QED BY <1>1, <1>2, <1>3

\* More places, and other contents of the last document while it has no final
\* name or of those that were not synced.
LEMMA FitsStill ==
    ASSUME NEW d, NEW last \in Nat, NEW places, NEW contents,
           Fits(d, last, places, contents),
           NEW more, \A x \in places : x \in more, NEW after,
           \A n \in 1..last : \/ after[n] = contents[n]
                              \/ contents[n].synced # TRUE
                              \/ n = last /\ \A x \in places : x.suffix # 0
    PROVE  Fits(d, last, more, after)
<1>1. ASSUME NEW x \in DOMAIN d, x.suffix = 0 PROVE after[d[x]] = contents[d[x]]
  BY <1>1 DEF Fits
<1> QED BY <1>1 DEF Fits

\* Fewer names.
LEMMA FitsFewer ==
    ASSUME NEW d, NEW last, NEW places, NEW contents, Fits(d, last, places, contents),
           NEW e, DOMAIN e \subseteq DOMAIN d, \A x \in DOMAIN e : e[x] = d[x]
    PROVE  Fits(e, last, places, contents)
<1>1. IsFiniteSet(DOMAIN e)
  BY FS_Subset DEF Fits
<1> QED BY <1>1 DEF Fits

\* A new document has no name yet.
LEMMA FitsNext ==
    ASSUME NEW d, NEW last \in Nat, NEW places, NEW contents,
           Fits(d, last, places, contents), NEW any
    PROVE  Fits(d, last + 1, any, contents)
  BY DEF Fits

\* The final names are those of the directory alone, and temporary names of a
\* directory are finitely many.
LEMMA TempsAreFinite ==
    ASSUME NEW d, NEW last, NEW places, NEW contents, Fits(d, last, places, contents)
    PROVE  IsFiniteSet(TempsOf(d)) /\ Cardinality(TempsOf(d)) \in Nat
<1>1. IsFiniteSet(TempsOf(d))
  BY FS_Subset DEF Fits, TempsOf
<1> QED BY <1>1, FS_CardinalityType

\* The file in hand is one more.
LEMMA InHandIsOne ==
    ASSUME SpoolInv
    PROVE  /\ Cardinality(TempsOf(dir)) \in Nat /\ IsFiniteSet(TempsOf(dir))
           /\ Cardinality(TempsOf(dir)) <= stops + 1
           /\ pc \notin Writing => Cardinality(TempsOf(dir)) <= stops
<1>1. IsFiniteSet(TempsOf(dir)) /\ Cardinality(TempsOf(dir)) \in Nat
  <2>1. Fits(dir, doc, Places, files)
    BY DEF SpoolInv, DirInv
  <2> QED BY <2>1, TempsAreFinite
<1>2. stops \in Nat /\ Cardinality(TempsOf(dir) \ InHand) <= stops
  BY DEF SpoolInv, OrphanInv, OrphansAreCounted, TypeInv
<1>3. CASE pc \in Writing
  <2>1. TempsOf(dir) \ InHand = TempsOf(dir) \ {TempName}
    BY <1>3 DEF InHand
  <2>2. Cardinality(TempsOf(dir) \ {TempName}) =
           IF TempName \in TempsOf(dir) THEN Cardinality(TempsOf(dir)) - 1
                                        ELSE Cardinality(TempsOf(dir))
    BY <1>1, FS_RemoveElement
  <2>3. Cardinality(TempsOf(dir) \ {TempName}) <= stops
    BY <1>2, <2>1
  <2>4. Cardinality(TempsOf(dir)) <= stops + 1
    BY <1>1, <1>2, <2>2, <2>3
  <2> QED BY <1>1, <1>3, <2>4
<1>4. CASE pc \notin Writing
  <2>1. TempsOf(dir) \ InHand = TempsOf(dir)
    BY <1>4 DEF InHand
  <2> QED BY <1>1, <1>2, <2>1
<1> QED BY <1>3, <1>4

\* Temporary names only go: the count still holds.
LEMMA FewerOrphans ==
    ASSUME SpoolInv, stops' = stops, disk' = disk,
           TempsOf(dir') \ InHand' \subseteq TempsOf(dir) \ InHand
    PROVE  OrphanInv'
<1>1. IsFiniteSet(TempsOf(dir)) /\ IsFiniteSet(TempsOf(dir) \ InHand)
  BY InHandIsOne, FS_Difference
<1>2. /\ Cardinality(TempsOf(dir') \ InHand') <= Cardinality(TempsOf(dir) \ InHand)
      /\ Cardinality(TempsOf(dir') \ InHand') \in Nat
      /\ Cardinality(TempsOf(dir) \ InHand) \in Nat
  BY <1>1, FS_Subset, FS_CardinalityType
<1>3. stops \in Nat /\ Cardinality(TempsOf(dir) \ InHand) <= stops
      /\ Cardinality(TempsOf(disk)) <= stops + 1
  BY DEF SpoolInv, OrphanInv, OrphansAreCounted, TypeInv
<1>4. TempsOf(disk)' = TempsOf(disk) /\ TempsOf(dir)' = TempsOf(dir')
  BY DEF TempsOf
<1> QED BY <1>2, <1>3, <1>4 DEF OrphanInv, OrphansAreCounted

\* One more stop makes up for the file in hand.
LEMMA StopCountsOne ==
    ASSUME SpoolInv, stops' = stops + 1, disk' = disk, TempsOf(dir') \subseteq TempsOf(dir)
    PROVE  OrphanInv'
<1>1. /\ IsFiniteSet(TempsOf(dir)) /\ Cardinality(TempsOf(dir)) <= stops + 1
      /\ Cardinality(TempsOf(dir)) \in Nat
  BY InHandIsOne
<1>2. TempsOf(dir') \ InHand' \subseteq TempsOf(dir)
  OBVIOUS
<1>3. /\ Cardinality(TempsOf(dir') \ InHand') <= Cardinality(TempsOf(dir))
      /\ Cardinality(TempsOf(dir') \ InHand') \in Nat
  BY <1>1, <1>2, FS_Subset, FS_CardinalityType
<1>4. stops \in Nat /\ Cardinality(TempsOf(disk)) <= stops + 1
      /\ Cardinality(TempsOf(disk)) \in Nat
  <2>1. Fits(disk, doc, Places, files)
    BY DEF SpoolInv, DirInv
  <2> QED BY <2>1, TempsAreFinite DEF SpoolInv, OrphanInv, TypeInv
<1>5. TempsOf(disk)' = TempsOf(disk) /\ TempsOf(dir)' = TempsOf(dir')
  BY DEF TempsOf
<1> QED BY <1>1, <1>3, <1>4, <1>5 DEF OrphanInv, OrphansAreCounted

\* A step that writes nothing and has no document in hand afterwards.
LEMMA RestInv ==
    ASSUME SpoolInv, UNCHANGED spool,
           pc' \in {"idle", "clean", "stopped"} \/ pc' = pc,
           pc' \in {"idle", "clean", "stopped"} => pc \notin Writing,
           now' \in Nat, list' = list \/ list' = << >>
    PROVE  SpoolInv'
<1> USE DEF spool, Named, Writing
<1>1. TypeInv'
  BY DEF TypeInv, SpoolInv
<1>2. DirInv'
  <2>1. \A x \in Places : x \in Places'
    <3>1. pc \in Named => TempName \in Names
      BY TempNameIs DEF SpoolInv, TypeInv
    <3>2. TempName' = TempName
      BY DEF TempName
    <3> QED BY <3>1, <3>2 DEF Places
  <2>2. doc \in Nat /\ Fits(dir, doc, Places, files) /\ Fits(disk, doc, Places, files)
    BY BoundsAssumption DEF SpoolInv, DirInv, TypeInv
  <2>3. Fits(dir, doc, Places', files) /\ Fits(disk, doc, Places', files)
    BY <2>1, <2>2, FitsStill
  <2> QED BY <2>3 DEF DirInv
<1>3. DocInv'
  BY DEF DocInv, SpoolInv
<1>4. OrphanInv'
  <2>1. InHand' = InHand
    BY DEF InHand, TempName
  <2> QED BY <2>1, FewerOrphans
<1>5. KeptInv'
  BY DEF KeptInv, Finals, SpoolInv
<1>6. ListInv'
  <2>1. CASE list' = list
    BY <2>1 DEF ListInv, SpoolInv
  <2>2. CASE list' = << >>
    <3>1. DOMAIN list' = {} /\ list' \in Seq(Found)
      BY <2>2
    <3> QED BY <3>1, Zenon DEF ListInv
  <2> QED BY <2>1, <2>2
<1> QED BY <1>1, <1>2, <1>3, <1>4, <1>5, <1>6 DEF SpoolInv

\* A step that takes names away, and forgets what they were of.
LEMMA ShrinkInv ==
    ASSUME SpoolInv, NEW gone,
           DOMAIN dir' = DOMAIN dir \ gone, \A y \in DOMAIN dir' : dir'[y] = dir[y],
           UNCHANGED <<disk, files, doc, name, dump_count, stops, now>>,
           kept' \subseteq kept,
           \A x \in Finals : x \in gone => dir[x] \notin kept',
           pc' = pc \/ (pc = "unlink" /\ pc' = "clean" /\ gone = {TempName}),
           list' \in Seq(Found),
           pc = "delete" => \A j \in DOMAIN list' : \E i \in DOMAIN list : list'[j] = list[i]
    PROVE  SpoolInv'
<1> USE DEF Named, Writing
<1>0. Finals' = Finals \ gone /\ Finals \subseteq DOMAIN dir
  BY DEF Finals
<1>1. TypeInv'
  BY DEF TypeInv, SpoolInv
<1>2. DirInv'
  <2>1. \A x \in Places : x \in Places'
    <3>1. pc \in Named => TempName \in Names
      BY TempNameIs DEF SpoolInv, TypeInv
    <3>2. TempName' = TempName
      BY DEF TempName
    <3> QED BY <3>1, <3>2 DEF Places
  <2>2. doc \in Nat /\ Fits(dir, doc, Places, files) /\ Fits(disk, doc, Places, files)
    BY BoundsAssumption DEF SpoolInv, DirInv, TypeInv
  <2>3. Fits(dir, doc, Places', files) /\ Fits(disk, doc, Places', files)
    BY <2>1, <2>2, FitsStill
  <2>4. Fits(dir', doc, Places', files)
    BY <2>3, FitsFewer
  <2> QED BY <2>3, <2>4 DEF DirInv
<1>3. DocInv'
  BY DEF DocInv, SpoolInv
<1>4. OrphanInv'
  <2>1. TempsOf(dir') \subseteq TempsOf(dir) \ gone
    BY DEF TempsOf
  <2>2. TempsOf(dir') \ InHand' \subseteq TempsOf(dir) \ InHand
    BY <2>1 DEF InHand, TempName
  <2> QED BY <2>2, FewerOrphans
<1>5. KeptInv'
  <2>1. ASSUME NEW d \in kept' PROVE \E x \in Finals' : dir'[x] = d /\ x.n < dump_count'
    <3>1. PICK x \in Finals : dir[x] = d /\ x.n < dump_count
      BY DEF KeptInv, SpoolInv
    <3>2. x \in Finals' /\ dir'[x] = d
      BY <1>0, <3>1
    <3> QED BY <3>1, <3>2
  <2>2. pc' \in Named => name'.n = dump_count'
    BY DEF KeptInv, SpoolInv
  <2> QED BY <2>1, <2>2 DEF KeptInv
<1>6. ListInv'
  <2>1. ASSUME pc' = "delete", NEW j \in DOMAIN list', list'[j].name \in DOMAIN dir'
        PROVE  dir'[list'[j].name] = list'[j].doc
    <3>1. PICK i \in DOMAIN list : list'[j] = list[i]
      BY <2>1
    <3>2. list[i].name \in DOMAIN dir /\ dir[list[i].name] = list[i].doc
      BY <1>0, <2>1, <3>1 DEF ListInv, SpoolInv
    <3> QED BY <1>0, <2>1, <3>1, <3>2
  <2> QED BY <2>1, Zenon DEF ListInv
<1> QED BY <1>1, <1>2, <1>3, <1>4, <1>5, <1>6 DEF SpoolInv

-------------------------------------------------------------------------------
(* Writing.                                                                 *)

LEMMA NewDumpInv == ASSUME SpoolInv, NewDump PROVE SpoolInv'
<1> USE DEF NewDump, Named, Writing
<1>1. LocalTime(now) \in Int
  BY ClockAssumption DEF LocalTime, TypeInv, SpoolInv
<1>2. /\ doc' = doc + 1 /\ doc \in Nat /\ doc' \in 0..MaxDumps
      /\ name' = [at |-> LocalTime(now), n |-> dump_count, suffix |-> 0]
      /\ UNCHANGED <<dir, disk, files, dump_count, stops, kept, now, list>>
  BY BoundsAssumption DEF TypeInv, FinalName, cleaner, history, SpoolInv
<1>3. TypeInv'
  <2>1. name'.at = LocalTime(now) /\ name'.n = dump_count /\ name' \in Names
    BY <1>1, <1>2 DEF TypeInv, Names, SpoolInv
  <2> QED BY <1>2, <2>1 DEF TypeInv, FinalName, SpoolInv
<1>4. DirInv'
  <2>1. Fits(dir, doc, Places, files) /\ Fits(disk, doc, Places, files)
    BY DEF SpoolInv, DirInv
  <2>2. Fits(dir, doc + 1, Places', files) /\ Fits(disk, doc + 1, Places', files)
    BY <1>2, <2>1, FitsNext
  <2> QED BY <1>2, <2>2 DEF DirInv
<1>5. DocInv'
  BY DEF DocInv
<1>6. OrphanInv'
  <2>1. InHand' = InHand
    BY DEF InHand
  <2> QED BY <1>2, <2>1, FewerOrphans
<1>7. KeptInv'
  BY <1>2 DEF KeptInv, Finals, SpoolInv
<1>8. ListInv'
  BY <1>2 DEF ListInv, SpoolInv
<1> QED BY <1>3, <1>4, <1>5, <1>6, <1>7, <1>8 DEF SpoolInv

\* What the steps on a file do to the files.
LEMMA FileSet ==
    ASSUME TypeInv, doc >= 1, NEW f \in File, files' = [files EXCEPT ![doc] = f]
    PROVE  /\ files' \in [1..MaxDumps -> File] /\ files'[doc] = f
           /\ \A d \in 1..MaxDumps : d # doc => files'[d] = files[d]
  BY BoundsAssumption DEF TypeInv

LEMMA CreateInv == ASSUME SpoolInv, Create PROVE SpoolInv'
<1> USE DEF Named, Writing
<1>1. CASE Fault /\ pc' = "clean" /\ UNCHANGED <<dir, files>>
  <2>1. UNCHANGED spool /\ now' \in Nat /\ list' = list
    BY <1>1 DEF Create, spool, cleaner, history, TypeInv, SpoolInv
  <2> QED BY <1>1, <2>1, RestInv DEF Create
<1>2. CASE /\ dir' = Naming(TempName, DOMAIN dir)
           /\ files' = [files EXCEPT ![doc].data = "partial"]
           /\ pc' = "write"
  <2>1. /\ pc = "create" /\ doc >= 1 /\ doc \in 1..MaxDumps
        /\ UNCHANGED <<disk, doc, name, dump_count, stops, kept, now, list>>
    BY <1>2, BoundsAssumption DEF Create, TypeInv, cleaner, history, SpoolInv
  <2>2. TempName \in Names /\ TempName.suffix # 0 /\ TempName' = TempName
    BY <2>1, TempNameIs DEF TempName, SpoolInv
  <2>3. /\ DOMAIN dir' = {TempName} \union DOMAIN dir /\ dir'[TempName] = doc
        /\ \A y \in DOMAIN dir : y # TempName => dir'[y] = dir[y]
    BY <1>2 DEF Naming
  <2>4. Finals' = Finals /\ Finals \subseteq DOMAIN dir
    BY <2>2, <2>3 DEF Finals
  <2>5. [files[doc] EXCEPT !.data = "partial"] \in File
    BY <2>1 DEF TypeInv, File, SpoolInv
  <2>6. files' \in [1..MaxDumps -> File] /\ \A d \in 1..MaxDumps : d # doc => files'[d] = files[d]
    BY <1>2, <2>1, <2>5, FileSet DEF SpoolInv
  <2>7. TypeInv'
    BY <1>2, <2>1, <2>6 DEF TypeInv, FinalName, SpoolInv
  <2>8. DirInv'
    <3>1. Places' = {TempName} /\ \A x \in Places : x \in {TempName} /\ x.suffix # 0
      BY <1>2, <2>1, <2>2 DEF Places
    <3>2. /\ Fits(dir, doc, Places, files) /\ Fits(disk, doc, Places, files)
          /\ \A x \in DOMAIN dir : dir[x] # doc
      BY <2>1 DEF SpoolInv, DirInv, Fits, Places
    <3>3. \A n \in 1..doc : \/ files'[n] = files[n]
                            \/ n = doc /\ \A x \in Places : x.suffix # 0
      BY <2>1, <2>6, <3>1, BoundsAssumption
    <3>4. Fits(dir, doc, {TempName}, files') /\ Fits(disk, doc, {TempName}, files')
      <4>1. doc \in Nat
        BY <2>1
      <4> QED BY <3>1, <3>2, <3>3, <4>1, FitsStill
    <3>5. Fits(dir', doc, {TempName}, files')
      <4>1. IsFiniteSet(DOMAIN dir')
        BY <2>3, <3>4, FS_AddElement DEF Fits
      <4> QED BY <2>1, <2>2, <2>3, <3>4, <4>1 DEF Fits
    <3> QED BY <2>1, <3>1, <3>4, <3>5 DEF DirInv
  <2>9. DocInv'
    BY <1>2 DEF DocInv
  <2>10. OrphanInv'
    <3>1. InHand = {} /\ InHand' = {TempName}
      BY <1>2, <2>1, <2>2 DEF InHand
    <3>2. TempsOf(dir') \ InHand' \subseteq TempsOf(dir) \ InHand
      BY <2>3, <3>1 DEF TempsOf
    <3> QED BY <2>1, <3>2, FewerOrphans
  <2>11. KeptInv'
    <3>1. ASSUME NEW d \in kept' PROVE \E x \in Finals' : dir'[x] = d /\ x.n < dump_count'
      <4>1. PICK x \in Finals : dir[x] = d /\ x.n < dump_count
        BY <2>1 DEF KeptInv, SpoolInv
      <4>2. x # TempName
        BY <2>2 DEF Finals
      <4> QED BY <2>1, <2>3, <2>4, <4>1, <4>2
    <3> QED BY <1>2, <2>1, <3>1 DEF KeptInv, SpoolInv
  <2>12. ListInv'
    BY <1>2, <2>1 DEF ListInv, SpoolInv
  <2> QED BY <2>7, <2>8, <2>9, <2>10, <2>11, <2>12 DEF SpoolInv
<1> QED BY <1>1, <1>2 DEF Create

\* A step on the file alone.
LEMMA OnFileInv ==
    ASSUME SpoolInv, pc \in Writing, pc' \in Writing,
           UNCHANGED <<dir, disk, doc, name, dump_count, stops, kept, now, list>>,
           files' \in [1..MaxDumps -> File],
           \A d \in 1..MaxDumps : d # doc => files'[d] = files[d],
           pc' \in {"sync", "rename"} => files'[doc].data = "whole",
           pc' = "rename" => files'[doc].synced = TRUE
    PROVE  SpoolInv'
<1> USE DEF Named, Writing
<1>0. doc >= 1 /\ doc \in 1..MaxDumps
  BY BoundsAssumption DEF TypeInv, SpoolInv
<1>2. TypeInv'
  BY DEF TypeInv, FinalName, SpoolInv
<1>3. DirInv'
  <2>1. TempName.suffix # 0 /\ TempName' = TempName
    BY <1>0, TempNameIs DEF TempName, SpoolInv
  <2>2. Places = {TempName} /\ Places' = {TempName}
    BY <2>1 DEF Places
  <2>3. Fits(dir, doc, {TempName}, files) /\ Fits(disk, doc, {TempName}, files)
    BY <2>2 DEF SpoolInv, DirInv
  <2>4. \A n \in 1..doc : \/ files'[n] = files[n]
                          \/ n = doc /\ \A x \in {TempName} : x.suffix # 0
    BY <1>0, <2>1, BoundsAssumption
  <2>5. Fits(dir, doc, {TempName}, files') /\ Fits(disk, doc, {TempName}, files')
    <3>1. doc \in Nat
      BY <1>0
    <3> QED BY <2>3, <2>4, <3>1, FitsStill
  <2> QED BY <2>2, <2>5 DEF DirInv
<1>4. DocInv'
  BY DEF DocInv
<1>5. OrphanInv'
  <2>1. InHand' = InHand
    BY DEF InHand, TempName
  <2> QED BY <2>1, FewerOrphans
<1>6. KeptInv'
  BY DEF KeptInv, Finals, SpoolInv
<1>7. ListInv'
  BY DEF ListInv, SpoolInv
<1> QED BY <1>2, <1>3, <1>4, <1>5, <1>6, <1>7 DEF SpoolInv

LEMMA WriteInv == ASSUME SpoolInv, Write PROVE SpoolInv'
<1>1. /\ pc = "write" /\ doc \in 1..MaxDumps /\ now \in Nat
      /\ files \in [1..MaxDumps -> File]
      /\ UNCHANGED <<dir, disk, doc, name, dump_count, stops, kept, now, list>>
  BY BoundsAssumption
     DEF SpoolInv, TypeInv, Named, Writing, Write, WriteTo, cleaner, history
<1>2. CASE UNCHANGED files /\ pc' = "unlink"
  BY <1>1, <1>2, OnFileInv DEF Writing
<1>3. CASE files' = [files EXCEPT ![doc].data = "whole", ![doc].mtime = now] /\ pc' = "sync"
  <2> DEFINE g == [files EXCEPT ![doc].data = "whole"]
  <2>1. g \in [1..MaxDumps -> File] /\ g[doc].data = "whole"
        /\ \A d \in 1..MaxDumps : d # doc => g[d] = files[d]
    BY <1>1 DEF File
  <2>2. files' = [g EXCEPT ![doc].mtime = now]
    BY <1>3
  <2> HIDE DEF g
  <2>3. files' \in [1..MaxDumps -> File] /\ files'[doc].data = "whole"
        /\ \A d \in 1..MaxDumps : d # doc => files'[d] = g[d]
    BY <1>1, <2>1, <2>2 DEF File
  <2> QED BY <1>1, <1>3, <2>1, <2>3, OnFileInv DEF Writing
<1> QED BY <1>2, <1>3 DEF Write, WriteTo

LEMMA SyncInv == ASSUME SpoolInv, Sync PROVE SpoolInv'
<1>1. /\ pc = "sync" /\ doc \in 1..MaxDumps /\ files[doc].data = "whole"
      /\ files \in [1..MaxDumps -> File]
      /\ UNCHANGED <<dir, disk, doc, name, dump_count, stops, kept, now, list>>
  BY BoundsAssumption DEF SpoolInv, TypeInv, DocInv, Named, Writing, Sync, cleaner, history
<1>2. CASE UNCHANGED files /\ pc' = "unlink"
  BY <1>1, <1>2, OnFileInv DEF Writing
<1>3. CASE files' = [files EXCEPT ![doc].synced = TRUE] /\ pc' = "rename"
  <2>1. files' \in [1..MaxDumps -> File] /\ files'[doc].data = "whole"
        /\ files'[doc].synced = TRUE
        /\ \A d \in 1..MaxDumps : d # doc => files'[d] = files[d]
    BY <1>1, <1>3 DEF File
  <2> QED BY <1>1, <1>3, <2>1, OnFileInv DEF Writing
<1> QED BY <1>2, <1>3 DEF Sync

\* The final name may have been another document's, but of none that this run
\* of the daemon wrote.
LEMMA RenameInv == ASSUME SpoolInv, Rename PROVE SpoolInv'
<1> USE DEF Named, Writing
<1>1. /\ pc = "rename" /\ doc >= 1 /\ doc \in 1..MaxDumps
      /\ UNCHANGED <<disk, files, doc, name, stops, now, list>>
      /\ files[doc].data = "whole" /\ files[doc].synced = TRUE
  BY BoundsAssumption DEF Rename, RenameCounting, TypeInv, DocInv, cleaner, SpoolInv
<1>2. CASE pc' = "unlink" /\ UNCHANGED <<dir, dump_count, kept>>
  BY <1>1, <1>2, OnFileInv DEF TypeInv, SpoolInv
<1>3. CASE /\ dir' = Naming(name, DOMAIN dir \ {TempName})
           /\ dump_count' = dump_count + 1
           /\ kept' = kept \union {doc}
           /\ pc' = "clean"
  <2>1. TempName \in Names /\ TempName.suffix # 0 /\ name \in Names /\ name.suffix = 0
        /\ name.n = dump_count /\ dump_count \in Nat
    BY <1>1, TempNameIs DEF TypeInv, KeptInv, SpoolInv
  <2>2. DOMAIN dir' = {name} \union (DOMAIN dir \ {TempName}) /\ dir'[name] = doc
        /\ \A y \in DOMAIN dir' : y # name => y \in DOMAIN dir /\ dir'[y] = dir[y]
    BY <1>3 DEF Naming
  <2>3. /\ name \in Finals'
        /\ \A x \in Finals' : x = name \/ (x \in Finals /\ dir'[x] = dir[x])
        /\ \A x \in Finals : x \in Finals'
    BY <2>1, <2>2 DEF Finals
  <2>4. TypeInv'
    BY <1>1, <1>3, <2>1 DEF TypeInv, FinalName, SpoolInv
  <2>5. DirInv'
    <3>1. Places = {TempName} /\ Places' = Names
      BY <1>1, <1>3 DEF Places
    <3>2. Fits(dir, doc, {TempName}, files) /\ Fits(disk, doc, {TempName}, files)
      BY <3>1 DEF SpoolInv, DirInv
    <3>3. Fits(dir, doc, Names, files) /\ Fits(disk, doc, Names, files)
      <4>1. doc \in Nat /\ \A x \in {TempName} : x \in Names
        BY <1>1, <2>1
      <4> QED BY <3>2, <4>1, FitsStill
    <3>4. Fits(dir', doc, Names, files)
      <4>1. IsFiniteSet(DOMAIN dir \ {TempName})
        BY <3>2, FS_RemoveElement DEF Fits
      <4>2. IsFiniteSet({name} \union (DOMAIN dir \ {TempName}))
        BY <4>1, FS_AddElement
      <4>3. IsFiniteSet(DOMAIN dir') /\ DOMAIN dir' \subseteq Names
        BY <2>1, <2>2, <3>2, <4>2 DEF Fits
      <4> QED BY <1>1, <2>2, <3>3, <4>3 DEF Fits
    <3> QED BY <1>1, <3>1, <3>3, <3>4 DEF DirInv
  <2>6. DocInv'
    BY <1>3 DEF DocInv
  <2>7. OrphanInv'
    <3>1. InHand = {TempName} /\ InHand' = {}
      BY <1>1, <1>3 DEF InHand
    <3>2. TempsOf(dir') \ InHand' \subseteq TempsOf(dir) \ InHand
      BY <2>1, <2>2, <3>1 DEF TempsOf
    <3> QED BY <1>1, <3>2, FewerOrphans
  <2>8. KeptInv'
    <3>1. ASSUME NEW d \in kept' PROVE \E x \in Finals' : dir'[x] = d /\ x.n < dump_count'
      <4>1. CASE d = doc
        BY <1>3, <2>1, <2>2, <2>3, <4>1
      <4>2. CASE d \in kept
        <5>1. PICK x \in Finals : dir[x] = d /\ x.n < dump_count
          BY <4>2 DEF KeptInv, SpoolInv
        <5>2. x # name /\ x.n \in Nat
          BY <2>1, <5>1 DEF Finals, SpoolInv, DirInv, Fits, Names
        <5>3. x \in Finals' /\ dir'[x] = d
          BY <2>2, <2>3, <5>1, <5>2
        <5> QED BY <1>3, <2>1, <5>1, <5>2, <5>3
      <4> QED BY <1>3, <4>1, <4>2
    <3> QED BY <1>3, <3>1 DEF KeptInv
  <2>9. ListInv'
    BY <1>1, <1>3 DEF ListInv, SpoolInv
  <2> QED BY <2>4, <2>5, <2>6, <2>7, <2>8, <2>9 DEF SpoolInv
<1> QED BY <1>2, <1>3 DEF Rename, RenameCounting

\* unlink may fail, and the daemon goes on.
LEMMA UnlinkInv == ASSUME SpoolInv, Unlink PROVE SpoolInv'
<1> USE DEF Named, Writing
<1>1. /\ UNCHANGED <<disk, files, doc, name, dump_count, now, kept, list>>
      /\ pc = "unlink" /\ pc' = "clean" /\ list \in Seq(Found)
  BY DEF Unlink, writer, cleaner, SpoolInv, ListInv
<1>2. CASE dir' = Without({TempName}) /\ stops' = stops
  <2>1. DOMAIN dir' = DOMAIN dir \ {TempName} /\ \A y \in DOMAIN dir' : dir'[y] = dir[y]
    BY <1>2, WithoutIs
  <2>2. TempName \notin Finals
    BY <1>1, TempNameIs DEF SpoolInv, TypeInv, Finals
  <2> QED BY <1>1, <1>2, <2>1, <2>2, ShrinkInv
<1>3. CASE stops' = stops + 1 /\ dir' = dir
  <2>1. TypeInv'
    BY <1>1, <1>3 DEF TypeInv, FinalName, SpoolInv
  <2>2. DirInv'
    <3>1. Places = {TempName} /\ Places' = Names /\ TempName \in Names /\ doc \in Nat
      BY <1>1, TempNameIs, BoundsAssumption DEF Places, SpoolInv, TypeInv
    <3>2. Fits(dir, doc, Names, files) /\ Fits(disk, doc, Names, files)
      BY <3>1, FitsStill DEF SpoolInv, DirInv
    <3> QED BY <1>1, <1>3, <3>1, <3>2 DEF DirInv
  <2>3. OrphanInv'
    BY <1>1, <1>3, StopCountsOne
  <2>4. DocInv' /\ KeptInv' /\ ListInv'
    BY <1>1, <1>3 DEF DocInv, KeptInv, Finals, ListInv, SpoolInv
  <2> QED BY <2>1, <2>2, <2>3, <2>4 DEF SpoolInv
<1> QED BY <1>2, <1>3 DEF Unlink

-------------------------------------------------------------------------------
(* Stopping and starting.                                                   *)

\* A crash in the middle of a dump leaves its temporary file, and counts.
LEMMA CrashInv == ASSUME SpoolInv, Crash PROVE SpoolInv'
<1> USE DEF Named, Writing
<1>1. /\ pc' = "stopped" /\ list' = << >>
      /\ UNCHANGED <<dir, disk, files, doc, name, dump_count, now, kept>>
  BY DEF Crash, Stopped
<1>2. CASE pc \notin Writing
  <2>1. stops' = stops /\ now' \in Nat
    BY <1>1, <1>2 DEF Crash, SpoolInv, TypeInv
  <2> QED BY <1>1, <1>2, <2>1, RestInv DEF spool
<1>3. CASE pc \in Writing
  <2>1. stops' = stops + 1
    BY <1>3 DEF Crash
  <2>2. TypeInv'
    BY <1>1, <2>1 DEF TypeInv, FinalName, SpoolInv
  <2>3. DirInv'
    <3>1. Places = {TempName} /\ Places' = Names /\ TempName \in Names /\ doc \in Nat
      BY <1>1, <1>3, TempNameIs, BoundsAssumption DEF Places, SpoolInv, TypeInv
    <3>2. Fits(dir, doc, Names, files) /\ Fits(disk, doc, Names, files)
      BY <3>1, FitsStill DEF SpoolInv, DirInv
    <3> QED BY <1>1, <3>1, <3>2 DEF DirInv
  <2>4. OrphanInv'
    BY <1>1, <2>1, StopCountsOne
  <2>5. ListInv'
    <3>1. DOMAIN list' = {} /\ list' \in Seq(Found)
      BY <1>1
    <3> QED BY <3>1, Zenon DEF ListInv
  <2>6. DocInv' /\ KeptInv'
    BY <1>1 DEF DocInv, KeptInv, Finals, SpoolInv
  <2> QED BY <2>2, <2>3, <2>4, <2>5, <2>6 DEF SpoolInv
<1> QED BY <1>2, <1>3

\* The directory is what the disk had, which is as good; what was not synced
\* has no final name there either.
LEMMA PowerLossInv == ASSUME SpoolInv, PowerLoss PROVE SpoolInv'
<1> USE DEF Named, Writing
<1>1. /\ pc' = "stopped" /\ list' = << >> /\ dir' = disk /\ kept' = {}
      /\ stops' = stops + 1 /\ UNCHANGED <<disk, doc, name, dump_count, now>>
  BY DEF PowerLoss, Stopped
<1>2. files \in [1..MaxDumps -> File] /\ doc \in Nat
  BY BoundsAssumption DEF SpoolInv, TypeInv
<1>3. /\ files' \in [1..MaxDumps -> File]
      /\ \A d \in 1..MaxDumps : files'[d] = files[d] \/ files[d].synced # TRUE
  <2>1. files' = [d \in 1..MaxDumps |->
               IF files[d].synced THEN files[d] ELSE [files[d] EXCEPT !.data = "partial"]]
    BY <1>2 DEF PowerLoss
  <2> QED BY <1>2, <2>1 DEF File
<1>4. TypeInv'
  BY <1>1, <1>3 DEF TypeInv, FinalName, SpoolInv
<1>5. DirInv'
  <2>1. Places' = Names /\ \A x \in Places : x \in Names
    <3>1. pc \in Named => TempName \in Names
      BY TempNameIs DEF SpoolInv, TypeInv
    <3> QED BY <1>1, <3>1 DEF Places
  <2>2. \A n \in 1..doc : files'[n] = files[n] \/ files[n].synced # TRUE
    <3>1. \A n \in 1..doc : n \in 1..MaxDumps
      BY BoundsAssumption DEF SpoolInv, TypeInv
    <3> QED BY <1>3, <3>1
  <2>3. Fits(disk, doc, Places, files)
    BY DEF SpoolInv, DirInv
  <2>4. Fits(disk, doc, Names, files')
    BY <1>2, <2>1, <2>2, <2>3, FitsStill
  <2> QED BY <1>1, <2>1, <2>4 DEF DirInv
<1>6. OrphanInv'
  <2>1. TempsOf(dir') \ InHand' = TempsOf(disk)
    BY <1>1 DEF InHand
  <2>2. /\ stops \in Nat /\ Cardinality(TempsOf(disk)) <= stops + 1
        /\ Cardinality(TempsOf(disk)) \in Nat
    <3>1. Fits(disk, doc, Places, files)
      BY DEF SpoolInv, DirInv
    <3> QED BY <3>1, TempsAreFinite DEF SpoolInv, OrphanInv, TypeInv
  <2>3. TempsOf(disk)' = TempsOf(disk) /\ TempsOf(dir)' = TempsOf(dir')
    BY <1>1 DEF TempsOf
  <2>4. OrphansAreCounted'
    BY <1>1, <2>1, <2>2, <2>3 DEF OrphansAreCounted
  <2>5. Cardinality(TempsOf(disk)') <= stops' + 1
    BY <1>1, <2>2, <2>3
  <2> QED BY <2>4, <2>5 DEF OrphanInv
<1>7. ListInv'
  <2>1. DOMAIN list' = {} /\ list' \in Seq(Found)
    BY <1>1
  <2> QED BY <2>1, Zenon DEF ListInv
<1>8. DocInv' /\ KeptInv'
  BY <1>1 DEF DocInv, KeptInv
<1> QED BY <1>4, <1>5, <1>6, <1>7, <1>8 DEF SpoolInv

\* The disk has caught up.
LEMMA WritebackInv == ASSUME SpoolInv, Writeback PROVE SpoolInv'
<1>1. /\ disk' = dir
      /\ UNCHANGED <<pc, dir, files, doc, name, dump_count, now, list, stops, kept>>
  BY DEF Writeback, writer, cleaner, history
<1>2. TypeInv' /\ DocInv' /\ KeptInv' /\ ListInv'
  BY <1>1 DEF TypeInv, DocInv, KeptInv, ListInv, Finals, TempName, FinalName, SpoolInv
<1>3. DirInv'
  <2>1. Places' = Places
    BY <1>1 DEF Places, TempName
  <2> QED BY <1>1, <2>1 DEF DirInv, SpoolInv
<1>4. OrphanInv'
  <2>1. TempsOf(disk)' = TempsOf(dir) /\ TempsOf(dir)' = TempsOf(dir) /\ InHand' = InHand
    BY <1>1 DEF TempsOf, InHand, TempName
  <2>2. Cardinality(TempsOf(dir)) <= stops + 1
    BY InHandIsOne
  <2> QED BY <1>1, <2>1, <2>2 DEF OrphanInv, OrphansAreCounted, SpoolInv
<1> QED BY <1>2, <1>3, <1>4 DEF SpoolInv

LEMMA RestartInv == ASSUME SpoolInv, Restart PROVE SpoolInv'
<1> USE DEF Named, Writing
<1>1. /\ pc = "stopped" /\ pc' = "idle" /\ dump_count' = 0 /\ kept' = {}
      /\ UNCHANGED <<dir, disk, files, doc, name, list, now, stops>>
  BY DEF Restart
<1>2. TypeInv' /\ DocInv' /\ ListInv' /\ KeptInv'
  BY <1>1 DEF TypeInv, DocInv, ListInv, KeptInv, FinalName, SpoolInv
<1>3. DirInv'
  <2>1. Places' = Places
    BY <1>1 DEF Places
  <2> QED BY <1>1, <2>1 DEF DirInv, SpoolInv
<1>4. OrphanInv'
  <2>1. InHand' = InHand
    BY <1>1 DEF InHand
  <2> QED BY <1>1, <2>1, FewerOrphans
<1> QED BY <1>2, <1>3, <1>4 DEF SpoolInv

-------------------------------------------------------------------------------
(* Cleaning up.                                                             *)

\* Whatever the policy, what the cleanup tries to delete was found by its
\* scan.
LEMMA CandidatesAreFound ==
    ASSUME policy \in {"by_age", "by_count", "by_size"},
           NEW found, IsFiniteSet(found), NEW q \in Candidates(found)
    PROVE  q \in Seq(found)
<1>1. ASSUME NEW T \in SUBSET found, NEW r \in Orders(T) PROVE r \in Seq(found)
  <2>1. Cardinality(T) \in Nat
    BY FS_Subset, FS_CardinalityType
  <2>2. r \in [1..Cardinality(T) -> T]
    BY DEF Orders, SetToSeqs
  <2> HIDE DEF Orders
  <2> DEFINE n == Cardinality(T)
  <2> HIDE DEF n
  <2>3. r \in [1..n -> found] /\ n \in Nat
    BY <2>1, <2>2 DEF n
  <2> QED BY <2>3
<1>2. CASE policy = "by_age"
  <2>1. Candidates(found) = Orders({x \in found : now - Mtime(x) > MaxAge})
    BY <1>2, Zenon DEF Candidates
  <2> QED BY <1>1, <2>1
<1>3. CASE policy = "by_count"
  <2>1. Candidates(found) = {SubSeq(r, 1, Len(r) - MaxCount) : r \in OldestFirst(found)}
    BY <1>3, Zenon DEF Candidates
  <2>2. PICK r \in OldestFirst(found) : q = SubSeq(r, 1, Len(r) - MaxCount)
    BY <2>1
  <2>3. r \in Seq(found)
    BY <1>1 DEF OldestFirst
  <2> QED BY <2>2, <2>3, MaxCountAssumption
<1>4. CASE policy = "by_size"
  <2>1. Candidates(found) = IF Total(found) <= MaxSize THEN {<< >>} ELSE OldestFirst(found)
    BY <1>4, Zenon DEF Candidates
  <2>2. CASE q = << >>
    BY <2>2
  <2>3. CASE q \in OldestFirst(found)
    BY <1>1, <2>3 DEF OldestFirst
  <2> QED BY <2>1, <2>2, <2>3
<1> QED BY <1>2, <1>3, <1>4

LEMMA ScansAreFinite ==
    ASSUME DirInv, NEW listed \in Scans
    PROVE  IsFiniteSet({[name |-> x, doc |-> dir[x]] : x \in listed})
<1> DEFINE f == [x \in listed |-> [name |-> x, doc |-> dir[x]]]
           found == {[name |-> x, doc |-> dir[x]] : x \in listed}
<1>1. IsFiniteSet(listed)
  BY FS_Subset DEF DirInv, Fits, Scans, Finals
<1>2. f \in Surjection(listed, found)
  BY DEF Surjection
<1> QED BY <1>1, <1>2, FS_Surjection

LEMMA ScanInv == ASSUME SpoolInv, policy \in Policies, Scan PROVE SpoolInv'
<1> USE DEF Named, Writing
<1>1. /\ pc = "clean"
      /\ UNCHANGED <<dir, disk, files, doc, name, dump_count, now, stops, kept>>
  BY DEF Scan, writer, history
<1>2. CASE pc' = "idle" /\ UNCHANGED list
  BY <1>1, <1>2, RestInv DEF spool, TypeInv, SpoolInv
<1>3. ASSUME NEW listed \in Scans, pc' = "delete",
             seen' = {[name |-> x, doc |-> dir[x]] : x \in listed},
             list' \in Candidates(seen')
      PROVE  SpoolInv'
  <2>1. listed \subseteq DOMAIN dir
    BY DEF Scans, Finals
  <2>2. \A y \in seen' : y \in Found /\ y.name \in DOMAIN dir /\ y.doc = dir[y.name]
    <3>1. DOMAIN dir \subseteq Names /\ \A x \in DOMAIN dir : dir[x] \in Nat
      BY DEF SpoolInv, DirInv, Fits
    <3> QED BY <1>3, <2>1, <3>1 DEF Found
  <2>3. list' \in Seq(seen')
    <3>2. IsFiniteSet(seen')
      BY <1>3, ScansAreFinite DEF SpoolInv
    <3>1. policy \in {"by_age", "by_count", "by_size"}
      BY PoliciesAssumption DEF Scan
    <3> QED BY <1>3, <3>1, <3>2, CandidatesAreFound
  <2>4. ListInv'
    BY <1>1, <2>2, <2>3 DEF ListInv
  <2>5. TypeInv' /\ DocInv' /\ KeptInv'
    BY <1>1, <1>3 DEF TypeInv, DocInv, KeptInv, Finals, FinalName, SpoolInv
  <2>6. DirInv'
    <3>1. Places' = Places
      BY <1>1, <1>3 DEF Places
    <3> QED BY <1>1, <3>1 DEF DirInv, SpoolInv
  <2>7. OrphanInv'
    <3>1. InHand' = InHand
      BY <1>1, <1>3 DEF InHand
    <3> QED BY <1>1, <3>1, FewerOrphans
  <2> QED BY <2>4, <2>5, <2>6, <2>7 DEF SpoolInv
<1> QED BY <1>2, <1>3 DEF Scan

LEMMA DeleteInv == ASSUME SpoolInv, Delete PROVE SpoolInv'
<1> DEFINE x == Head(list)
<1>1. /\ pc = "delete" /\ pc' = pc /\ list # << >> /\ list \in Seq(Found)
      /\ UNCHANGED <<disk, files, doc, name, dump_count, now, stops>>
      /\ list' = Tail(list)
  BY DEF SpoolInv, ListInv, Delete, Finished, writer
<1>2. /\ list' \in Seq(Found)
      /\ \A j \in DOMAIN list' : \E i \in DOMAIN list : list'[j] = list[i]
  BY <1>1
<1>3. CASE dir' = Without({x.name}) /\ kept' = kept \ {x.doc}
  <2>1. x.name \in DOMAIN dir => dir[x.name] = x.doc
    <3>1. 1 \in DOMAIN list /\ x = list[1]
      BY <1>1
    <3> QED BY <1>1, <3>1 DEF SpoolInv, ListInv
  <2>2. \A y \in Finals : y \in {x.name} => dir[y] \notin kept'
    BY <1>3, <2>1 DEF Finals
  <2>3. /\ DOMAIN dir' = DOMAIN dir \ {x.name} /\ \A y \in DOMAIN dir' : dir'[y] = dir[y]
        /\ kept' \subseteq kept
    BY <1>3, WithoutIs
  <2> HIDE DEF x
  <2> QED BY <1>1, <1>2, <2>2, <2>3, ShrinkInv
<1>4. CASE UNCHANGED <<dir, kept>>
  <2> DEFINE gone == {}
  <2>1. /\ DOMAIN dir' = DOMAIN dir \ gone /\ \A y \in DOMAIN dir' : dir'[y] = dir[y]
        /\ kept' \subseteq kept /\ \A y \in Finals : y \in gone => dir[y] \notin kept'
    BY <1>4
  <2> HIDE DEF x, gone
  <2> QED BY <1>1, <1>2, <1>4, <2>1, ShrinkInv
<1> QED BY <1>3, <1>4 DEF Delete

LEMMA ViewerRemovesInv == ASSUME SpoolInv, NEW x \in Finals, ViewerRemoves(x) PROVE SpoolInv'
<1>1. /\ pc' = pc /\ list' = list /\ list \in Seq(Found)
      /\ UNCHANGED <<disk, files, doc, name, dump_count, now, stops>>
      /\ DOMAIN dir' = DOMAIN dir \ {x} /\ \A y \in DOMAIN dir' : dir'[y] = dir[y]
      /\ kept' = kept \ {dir[x]}
  BY WithoutIs DEF SpoolInv, ListInv, ViewerRemoves, writer, cleaner
<1> QED BY <1>1, ShrinkInv

-------------------------------------------------------------------------------

LEMMA InitInv == Init => SpoolInv
<1> SUFFICES ASSUME Init PROVE SpoolInv
  OBVIOUS
<1>1. /\ DOMAIN dir = {} /\ DOMAIN disk = {} /\ Finals = {} /\ kept = {} /\ pc = "idle"
      /\ TempsOf(dir) = {} /\ TempsOf(disk) = {} /\ stops = 0
  BY DEF Init, Finals, TempsOf
<1>2. TypeInv
  <2>1. files \in [1..MaxDumps -> File]
    BY DEF Init, File
  <2>2. name = [at |-> 0, n |-> 0, suffix |-> 0]
    BY DEF Init, FinalName
  <2> QED BY <1>1, <2>1, <2>2, BoundsAssumption DEF Init, TypeInv, FinalName, Names,
             Named, Writing
<1>3. DirInv
  BY <1>1, FS_EmptySet DEF DirInv, Fits
<1>4. DocInv /\ KeptInv
  BY <1>1 DEF DocInv, KeptInv, Named, Writing
<1>5. OrphanInv
  <2>1. TempsOf(dir) \ InHand = {}
    BY <1>1
  <2> QED BY <1>1, <2>1, FS_EmptySet DEF OrphanInv, OrphansAreCounted
<1>6. ListInv
  BY <1>1 DEF ListInv, Init
<1> QED BY <1>2, <1>3, <1>4, <1>5, <1>6 DEF SpoolInv

PolicyInv == policy \in Policies

LEMMA PolicyHolds == Spec => []PolicyInv
<1> USE DEF PolicyInv
<1>1. Init => PolicyInv
  BY DEF Init
<1>2. PolicyInv /\ [Next]_vars => PolicyInv'
  BY DEF Next, Daemon, NewDump, Create, Write, WriteTo, Sync, Rename, RenameCounting, Unlink,
         NoDump, SkipCleanup, Scan, Delete, FinishCleanup, IntervalPasses, Tick, Reload,
         ViewerRemoves, Writeback, Crash, PowerLoss, Stopped, Restart, vars, history
<1> HIDE DEF PolicyInv
<1> QED BY <1>1, <1>2, PTL DEF Spec

LEMMA StepInv == SpoolInv /\ PolicyInv /\ [Next]_vars => SpoolInv'
<1> SUFFICES ASSUME SpoolInv, PolicyInv, [Next]_vars PROVE SpoolInv'
  OBVIOUS
<1>1. CASE NoDump \/ SkipCleanup \/ FinishCleanup
  <2>1. /\ UNCHANGED spool /\ now' \in Nat /\ (list' = list \/ list' = << >>)
        /\ pc' \in {"idle", "clean"} /\ pc \notin Writing
    BY <1>1 DEF NoDump, SkipCleanup, FinishCleanup, spool, writer, cleaner, history,
                SpoolInv, TypeInv, Writing
  <2> QED BY <2>1, RestInv
<1>2. CASE IntervalPasses \/ Tick \/ UNCHANGED vars
  <2>1. UNCHANGED spool /\ now' \in Nat /\ list' = list /\ pc' = pc
    BY <1>2 DEF IntervalPasses, Tick, vars, spool, writer, cleaner, history, SpoolInv,
                TypeInv
  <2> QED BY <2>1, RestInv DEF Writing
<1>3. ASSUME NEW p \in Policies, Reload(p) PROVE SpoolInv'
  <2>1. UNCHANGED spool /\ now' \in Nat /\ list' = list /\ pc' = pc
    BY <1>3 DEF Reload, spool, writer, cleaner, history, SpoolInv, TypeInv
  <2> QED BY <2>1, RestInv DEF Writing
<1>4. CASE NewDump
  BY <1>4, NewDumpInv
<1>5. CASE Create
  BY <1>5, CreateInv
<1>6. CASE Write
  BY <1>6, WriteInv
<1>7. CASE Sync
  BY <1>7, SyncInv
<1>8. CASE Rename
  BY <1>8, RenameInv
<1>9. CASE Unlink
  BY <1>9, UnlinkInv
<1>10. CASE Scan
  BY <1>10, ScanInv DEF PolicyInv
<1>11. CASE Delete
  BY <1>11, DeleteInv
<1>12. ASSUME NEW x \in Finals, ViewerRemoves(x) PROVE SpoolInv'
  BY <1>12, ViewerRemovesInv
<1>13. CASE Crash
  BY <1>13, CrashInv
<1>14. CASE PowerLoss
  BY <1>14, PowerLossInv
<1>15. CASE Restart
  BY <1>15, RestartInv
<1>16. CASE Writeback
  BY <1>16, WritebackInv
<1> QED BY <1>1, <1>2, <1>3, <1>4, <1>5, <1>6, <1>7, <1>8, <1>9, <1>10, <1>11, <1>12,
           <1>13, <1>14, <1>15, <1>16 DEF Next, Daemon

LEMMA SpoolInvHolds == Spec => []SpoolInv
  BY InitInv, StepInv, PolicyHolds, PTL DEF Spec

\* Whenever the daemon crashes, the machine loses power or a call fails, and
\* whatever directory comes back, a file with a final name is a whole document
\* (spike_dump.c:649-746).
THEOREM FinalsAreAlwaysWhole == Spec => []FinalsAreWhole
<1>1. SpoolInv => FinalsAreWhole
  BY DEF SpoolInv, DirInv, Fits, Finals, FinalsAreWhole
<1> QED BY <1>1, SpoolInvHolds, PTL

\* There are at most as many temporary files beside the one in hand as there
\* were power losses, crashes in the middle of a dump and unlinks that failed
\* (spike_dump.c:649-746): every other failure removes its own.
THEOREM OrphansAreAlwaysCounted == Spec => []OrphansAreCounted
<1>1. SpoolInv => OrphansAreCounted
  BY DEF SpoolInv, OrphanInv
<1> QED BY <1>1, SpoolInvHolds, PTL

\* dump_count keeps the names of one run of the daemon apart, whatever the
\* clock does (spike_dump.c:819-838).
THEOREM DumpsAreAlwaysKept == Spec => []DumpsAreKept
<1>1. SpoolInv => DumpsAreKept
  BY DEF SpoolInv, KeptInv, DumpsAreKept
<1> QED BY <1>1, SpoolInvHolds, PTL

-------------------------------------------------------------------------------
(* What cleanup by count spares.                                            *)

\* A finding that has not been deleted: it is there as it was found, or the
\* viewer removed it.
Spared(x) == x.name \in removed \/ (x.name \in Finals /\ dir[x.name] = x.doc)

\* What is still to be tried is the scan's findings in the order of their age,
\* from somewhere on and without the MaxCount last, which have been spared.
\* The scan found no name twice.
PlanInv ==
    /\ IsFiniteSet(removed)
    /\ pc = "delete" /\ policy = "by_count" =>
        /\ IsFiniteSet(seen) /\ \A x, y \in seen : x.name = y.name => x = y
        /\ \E r \in OldestFirst(seen), k \in Nat :
              /\ list = SubSeq(r, k + 1, Len(r) - MaxCount)
              /\ \A i \in 1..Len(r) : i > Len(r) - MaxCount => Spared(r[i])

LEMMA OrderIs ==
    ASSUME NEW found, IsFiniteSet(found), NEW r \in OldestFirst(found)
    PROVE  /\ r \in Seq(found)
           /\ \A i, j \in 1..Len(r) : i # j => r[i] # r[j]
           /\ \A i, j \in 1..Len(r) : i < j => Mtime(r[i]) <= Mtime(r[j])
<1> DEFINE n == Cardinality(found)
<1>1. n \in Nat
  BY FS_CardinalityType
<1>2. /\ r \in [1..n -> found]
      /\ \A i, j \in 1..n : i # j => r[i] # r[j]
      /\ \A i, j \in DOMAIN r : i < j => Mtime(r[i]) <= Mtime(r[j])
  BY DEF OldestFirst, Orders, SetToSeqs
<1> HIDE DEF n
<1>3. r \in Seq(found) /\ Len(r) = n /\ DOMAIN r = 1..n
  BY <1>1, <1>2
<1> QED BY <1>2, <1>3

\* One deletion further on.
LEMMA PlanShortens ==
    ASSUME NEW S, NEW r \in Seq(S), NEW k \in Nat, NEW m \in Int,
           SubSeq(r, k + 1, Len(r) - m) # << >>, m >= 0
    PROVE  /\ k + 1 <= Len(r) - m
           /\ Head(SubSeq(r, k + 1, Len(r) - m)) = r[k + 1]
           /\ Tail(SubSeq(r, k + 1, Len(r) - m)) = SubSeq(r, k + 2, Len(r) - m)
  OBVIOUS

\* A step that has no part in the plan.
LEMMA PlanRests ==
    ASSUME PlanInv, UNCHANGED <<policy, seen, list, files, removed>>, pc' = pc,
           pc = "delete" => dir' = dir
    PROVE  PlanInv'
<1> SUFFICES ASSUME pc' = "delete", policy' = "by_count"
             PROVE  /\ IsFiniteSet(seen)' /\ (\A x, y \in seen : x.name = y.name => x = y)'
                    /\ (\E r \in OldestFirst(seen), k \in Nat :
                          /\ list = SubSeq(r, k + 1, Len(r) - MaxCount)
                          /\ \A i \in 1..Len(r) : i > Len(r) - MaxCount => Spared(r[i]))'
  BY DEF PlanInv
<1>1. OldestFirst(seen)' = OldestFirst(seen)
  BY DEF OldestFirst, Mtime
<1>2. ASSUME NEW x PROVE Spared(x)' <=> Spared(x)
  BY DEF Spared, Finals
<1> QED BY <1>1, <1>2 DEF PlanInv

LEMMA ScanPlans == ASSUME SpoolInv, PlanInv, Scan PROVE PlanInv'
<1>1. removed' = removed
  BY DEF Scan, history
<1> SUFFICES ASSUME pc' = "delete", policy' = "by_count"
             PROVE  /\ IsFiniteSet(seen)' /\ (\A x, y \in seen : x.name = y.name => x = y)'
                    /\ (\E r \in OldestFirst(seen), k \in Nat :
                          /\ list = SubSeq(r, k + 1, Len(r) - MaxCount)
                          /\ \A i \in 1..Len(r) : i > Len(r) - MaxCount => Spared(r[i]))'
  BY <1>1 DEF PlanInv
<1>2. PICK listed \in Scans :
        /\ seen' = {[name |-> x, doc |-> dir[x]] : x \in listed}
        /\ list' \in Candidates(seen')
  BY DEF Scan
<1>3. policy = "by_count" /\ UNCHANGED <<dir, files>>
  BY DEF Scan, writer
<1>4. IsFiniteSet(seen')
  BY <1>2, ScansAreFinite DEF SpoolInv
<1>5. \A x, y \in seen' : x.name = y.name => x = y
  BY <1>2
<1>6. ASSUME NEW x \in seen' PROVE Spared(x)'
  <2>1. x.name \in Finals /\ dir[x.name] = x.doc
    BY <1>2 DEF Scans
  <2> QED BY <1>3, <2>1 DEF Spared, Finals
<1>7. Candidates(seen') = {SubSeq(r, 1, Len(r) - MaxCount) : r \in OldestFirst(seen')}
  BY <1>3, Zenon DEF Candidates
<1>8. PICK r \in OldestFirst(seen') : list' = SubSeq(r, 1, Len(r) - MaxCount)
  BY <1>2, <1>7, Zenon
<1>9. \A i \in 1..Len(r) : Spared(r[i])'
  <2>1. r \in Seq(seen')
    BY <1>4, OrderIs
  <2> QED BY <1>6, <2>1
<1>10. OldestFirst(seen') = OldestFirst(seen)'
  BY <1>3 DEF OldestFirst, Mtime
<1>11. list' = SubSeq(r, 0 + 1, Len(r) - MaxCount)
  BY <1>8
<1> QED BY <1>4, <1>5, <1>8, <1>9, <1>10, <1>11

\* The head of the list is not among the last, which it leaves as they are.
LEMMA DeletePlans == ASSUME SpoolInv, PlanInv, Delete PROVE PlanInv'
<1>1. /\ pc = "delete" /\ pc' = "delete" /\ UNCHANGED <<policy, seen, files, removed>>
      /\ list # << >> /\ list' = Tail(list)
  BY DEF Delete, Finished, writer
<1> SUFFICES ASSUME policy' = "by_count"
             PROVE  /\ IsFiniteSet(seen)' /\ (\A x, y \in seen : x.name = y.name => x = y)'
                    /\ (\E r \in OldestFirst(seen), k \in Nat :
                          /\ list = SubSeq(r, k + 1, Len(r) - MaxCount)
                          /\ \A i \in 1..Len(r) : i > Len(r) - MaxCount => Spared(r[i]))'
  BY <1>1 DEF PlanInv
<1>2. /\ IsFiniteSet(seen) /\ \A x, y \in seen : x.name = y.name => x = y
      /\ \E r \in OldestFirst(seen), k \in Nat :
            /\ list = SubSeq(r, k + 1, Len(r) - MaxCount)
            /\ \A i \in 1..Len(r) : i > Len(r) - MaxCount => Spared(r[i])
  BY <1>1 DEF PlanInv
<1>3. PICK r \in OldestFirst(seen), k \in Nat :
            /\ list = SubSeq(r, k + 1, Len(r) - MaxCount)
            /\ \A i \in 1..Len(r) : i > Len(r) - MaxCount => Spared(r[i])
  BY <1>2
<1>4. r \in Seq(seen) /\ \A i, j \in 1..Len(r) : i # j => r[i] # r[j]
  BY <1>2, OrderIs
<1>5. /\ k + 1 <= Len(r) - MaxCount /\ Head(list) = r[k + 1]
      /\ Tail(SubSeq(r, k + 1, Len(r) - MaxCount)) = SubSeq(r, k + 2, Len(r) - MaxCount)
  BY <1>1, <1>3, <1>4, PlanShortens, MaxCountAssumption
<1>6. list' = SubSeq(r, (k + 1) + 1, Len(r) - MaxCount)
  <2>1. list' = SubSeq(r, k + 2, Len(r) - MaxCount)
    BY <1>1, <1>3, <1>5, Zenon
  <2>2. k + 2 = (k + 1) + 1
    OBVIOUS
  <2> QED BY <2>1, <2>2
<1>7. ASSUME NEW i \in 1..Len(r), i > Len(r) - MaxCount PROVE Spared(r[i])'
  <2>1. k + 1 \in 1..Len(r) /\ i # k + 1
    BY <1>4, <1>5, <1>7, MaxCountAssumption
  <2>2. r[i] \in seen /\ r[k + 1] \in seen /\ r[i] # r[k + 1]
    BY <1>4, <2>1
  <2>3. r[i].name # Head(list).name
    BY <1>2, <1>5, <2>2
  <2>4. Spared(r[i])
    BY <1>3, <1>7
  <2>5. r[i].name \in Finals /\ dir[r[i].name] = r[i].doc
           => r[i].name \in Finals' /\ dir'[r[i].name] = r[i].doc
    <3>1. CASE dir' = dir
      BY <3>1 DEF Finals
    <3>2. CASE dir' = Without({Head(list).name})
      <4>1. /\ DOMAIN dir' = DOMAIN dir \ {Head(list).name}
            /\ \A y \in DOMAIN dir' : dir'[y] = dir[y]
        BY <3>2, WithoutIs
      <4> QED BY <2>3, <4>1 DEF Finals
    <3> QED BY <3>1, <3>2 DEF Delete
  <2> QED BY <1>1, <2>4, <2>5 DEF Spared
<1>8. OldestFirst(seen)' = OldestFirst(seen)
  BY <1>1 DEF OldestFirst, Mtime
<1>9. k + 1 \in Nat
  OBVIOUS
<1> QED BY <1>1, <1>2, <1>6, <1>7, <1>8, <1>9

\* What the viewer removes it is known to have removed.
LEMMA ViewerPlans ==
    ASSUME PlanInv, NEW x \in Finals, ViewerRemoves(x) PROVE PlanInv'
<1>1. /\ UNCHANGED <<pc, policy, seen, list, files>>
      /\ removed' = IF pc = "delete" THEN removed \union {x} ELSE removed
      /\ DOMAIN dir' = DOMAIN dir \ {x} /\ \A y \in DOMAIN dir' : dir'[y] = dir[y]
  BY WithoutIs DEF ViewerRemoves, writer, cleaner
<1>2. IsFiniteSet(removed')
  <2>1. IsFiniteSet(removed \union {x})
    BY FS_AddElement DEF PlanInv
  <2> QED BY <1>1, <2>1 DEF PlanInv
<1> SUFFICES ASSUME pc' = "delete", policy' = "by_count"
             PROVE  /\ IsFiniteSet(seen)' /\ (\A y, z \in seen : y.name = z.name => y = z)'
                    /\ (\E r \in OldestFirst(seen), k \in Nat :
                          /\ list = SubSeq(r, k + 1, Len(r) - MaxCount)
                          /\ \A i \in 1..Len(r) : i > Len(r) - MaxCount => Spared(r[i]))'
  BY <1>2 DEF PlanInv
<1>3. OldestFirst(seen)' = OldestFirst(seen)
  BY <1>1 DEF OldestFirst, Mtime
<1>4. ASSUME NEW y, Spared(y) PROVE Spared(y)'
  BY <1>1, <1>4 DEF Spared, Finals
<1> QED BY <1>1, <1>3, <1>4 DEF PlanInv

LEMMA StepPlan == SpoolInv /\ PolicyInv /\ PlanInv /\ [Next]_vars => PlanInv'
<1> SUFFICES ASSUME SpoolInv, PolicyInv, PlanInv, [Next]_vars PROVE PlanInv'
  OBVIOUS
<1>1. CASE Scan
  BY <1>1, ScanPlans
<1>2. CASE Delete
  BY <1>2, DeletePlans
<1>3. ASSUME NEW x \in Finals, ViewerRemoves(x) PROVE PlanInv'
  BY <1>3, ViewerPlans
<1>4. CASE IntervalPasses \/ Tick \/ Writeback \/ UNCHANGED vars
  <2>1. UNCHANGED <<pc, dir, policy, seen, list, files, removed>>
    BY <1>4 DEF IntervalPasses, Tick, Writeback, vars, writer, cleaner, history
  <2> QED BY <2>1, PlanRests
<1>5. ASSUME pc' # "delete", removed' = removed \/ removed' = {} PROVE PlanInv'
  BY <1>5, FS_EmptySet DEF PlanInv
<1> QED
  BY <1>1, <1>2, <1>3, <1>4, <1>5
  DEF Next, Daemon, NewDump, Create, Write, WriteTo, Sync, Rename, RenameCounting, Unlink,
      NoDump, SkipCleanup, FinishCleanup, Reload, Crash, PowerLoss, Stopped, Restart, history

\* Cleanup by count deletes a dump only where MaxCount others, none older, stay
\* in the directory or were removed by the viewer since the scan, however many
\* of its own deletions fail and whatever part of the directory it saw
\* (log_manager.c:282-311).
THEOREM NewestAreAlwaysSpared == Spec => NewestAreSpared
<1> DEFINE Act == policy = "by_count" /\ pc = "delete" /\ list' # list /\ pc' = "delete" =>
                    Cardinality(NotOlder(Head(list)) \union removed) >= MaxCount
<1>1. Init => PlanInv
  BY FS_EmptySet DEF Init, PlanInv
<1>2. SpoolInv /\ PolicyInv /\ PlanInv /\ [Next]_vars => [Act]_vars
  <2> SUFFICES ASSUME SpoolInv, PlanInv, [Next]_vars,
                      policy = "by_count", list' # list, pc = "delete", pc' = "delete"
               PROVE  Cardinality(NotOlder(Head(list)) \union removed) >= MaxCount
    OBVIOUS
  <2>1. Delete
    BY DEF Next, Daemon, NewDump, Create, Write, WriteTo, Sync, Rename, RenameCounting, Unlink,
           NoDump, SkipCleanup, Scan, FinishCleanup, IntervalPasses, Tick, Writeback, Reload,
           ViewerRemoves, Crash, PowerLoss, Stopped, Restart, vars, writer, cleaner
  <2>2. list # << >>
    BY <2>1 DEF Delete, Finished
  <2>3. IsFiniteSet(seen) /\ \A x, y \in seen : x.name = y.name => x = y
    BY DEF PlanInv
  <2>4. PICK r \in OldestFirst(seen), k \in Nat :
          /\ list = SubSeq(r, k + 1, Len(r) - MaxCount)
          /\ \A i \in 1..Len(r) : i > Len(r) - MaxCount => Spared(r[i])
    BY DEF PlanInv
  <2>5. /\ r \in Seq(seen)
        /\ \A i, j \in 1..Len(r) : i # j => r[i] # r[j]
        /\ \A i, j \in 1..Len(r) : i < j => Mtime(r[i]) <= Mtime(r[j])
    BY <2>3, OrderIs
  <2>6. k + 1 <= Len(r) - MaxCount /\ Head(list) = r[k + 1]
    BY <2>2, <2>4, <2>5, PlanShortens, MaxCountAssumption
  <2> DEFINE n == Len(r) - MaxCount
             stay == NotOlder(Head(list)) \union removed
             f == [i \in 1..MaxCount |-> r[n + i].name]
  <2>7. ASSUME NEW i \in 1..MaxCount
        PROVE  n + i \in 1..Len(r) /\ k + 1 \in 1..Len(r) /\ k + 1 < n + i
    BY <2>5, <2>6, MaxCountAssumption
  <2>8. ASSUME NEW i \in 1..MaxCount PROVE r[n + i].name \in stay
    <3>1. n + i > Len(r) - MaxCount
      BY <2>5, MaxCountAssumption
    <3>2. Spared(r[n + i])
      BY <2>4, <2>7, <3>1
    <3>3. /\ r[n + i] \in seen /\ r[k + 1] \in seen /\ r[n + i] # r[k + 1]
          /\ Mtime(r[k + 1]) <= Mtime(r[n + i])
      BY <2>5, <2>7
    <3>4. r[n + i].name # r[k + 1].name
      BY <2>3, <3>3
    <3>5. CASE r[n + i].name \in Finals /\ dir[r[n + i].name] = r[n + i].doc
      <4>1. files[dir[r[n + i].name]].mtime >= Mtime(r[k + 1])
        BY <3>3, <3>5 DEF Mtime
      <4> QED BY <2>6, <3>4, <3>5, <4>1 DEF NotOlder
    <3> QED BY <3>2, <3>5 DEF Spared
  <2>9. f \in Injection(1..MaxCount, stay)
    <3>1. ASSUME NEW i \in 1..MaxCount, NEW j \in 1..MaxCount, f[i] = f[j] PROVE i = j
      <4>1. r[n + i] \in seen /\ r[n + j] \in seen
        BY <2>5, <2>7
      <4>2. r[n + i] = r[n + j]
        BY <2>3, <3>1, <4>1
      <4>3. n + i = n + j
        BY <2>5, <2>7, <4>2
      <4> QED BY <2>5, <4>3, MaxCountAssumption
    <3>2. f \in [1..MaxCount -> stay]
      BY <2>8
    <3> HIDE DEF f, stay
    <3> QED BY <3>1, <3>2 DEF Injection, IsInjective
  <2>10. IsFiniteSet(stay)
    <3>1. IsFiniteSet(DOMAIN dir)
      BY DEF SpoolInv, DirInv, Fits
    <3>2. IsFiniteSet(NotOlder(Head(list)))
      BY <3>1, FS_Subset DEF NotOlder, Finals
    <3> QED BY <3>2, FS_Union DEF PlanInv
  <2>11. Cardinality(1..MaxCount) = MaxCount /\ IsFiniteSet(1..MaxCount)
    BY FS_Interval, MaxCountAssumption
  <2> HIDE DEF f, stay
  <2>12. Cardinality(1..MaxCount) <= Cardinality(stay)
    BY <2>9, <2>10, FS_Injection
  <2>13. Cardinality(stay) \in Int
    BY <2>10, FS_CardinalityType
  <2>14. Cardinality(stay) >= MaxCount
    BY <2>11, <2>12, <2>13, MaxCountAssumption
  <2> QED BY <2>14 DEF stay
<1> QED BY <1>1, <1>2, StepPlan, SpoolInvHolds, PolicyHolds, PTL DEF Spec, NewestAreSpared
===============================================================================
