-------------------------- MODULE DirectoryProofs --------------------------
(****************************************************************************)
(* Theorems about Directory, for any number of processes and files and any  *)
(* bounds on crashes and failures.                                          *)
(****************************************************************************)
EXTENDS Directory, TLAPS

InMap == {"fstat", "ftruncate", "mmap", "restore"}
Makes == {"create", "magic", "unlink", "undo"}
FileSteps == {"create", "find", "stat", "magic", "unlink", "verify", "close"} \cup InMap

(* The file a process is at is one of the files, and no file is of a        *)
(* directory yet to be made.                                                *)
AtType ==
  /\ at \in [Proc -> [step : Steps, file : 0 .. NFiles]]
  /\ \A p \in Proc :
       at[p].step \in FileSteps => at[p].file \in File

HeldType == held \in [Proc -> [File -> 0 .. made]]
SizeType == size \in [Proc -> 0 .. 1] /\ st_size \in [Proc -> 0 .. 1]
DiskType ==
  /\ names \subseteq File /\ full \subseteq (0 .. made) \X File /\ magic \subseteq full
  /\ shrunk \in BOOLEAN
MiscType ==
  dir \in BOOLEAN /\ made \in Nat /\ creating \subseteq Proc /\ crashes \in Nat /\ failures \in Nat

Types == AtType /\ HeldType /\ SizeType /\ DiskType /\ MiscType

(* What is known of a process that makes the directory, and of one that     *)
(* does not.                                                                *)
Maker(p) ==
  /\ dir /\ at[p].step \in Makes \cup InMap
  /\ names = IF at[p].step = "create" THEN 1 .. at[p].file - 1 ELSE 1 .. at[p].file
  /\ at[p].step \in InMap \cup {"magic"} => held[p][at[p].file] = made
  /\ size[p] = 1
  /\ <<made, NFiles>> \notin magic

Own(p) ==
  /\ p \in creating => Maker(p)
  /\ p \notin creating => at[p].step \notin Makes
  /\ at[p].step \notin InMap => size[p] = 1 /\ st_size[p] = 1

(* One process makes or unmakes the directory at a time, and knows what is  *)
(* in it.                                                                   *)
OneMaker ==
  /\ \A p, q \in creating : p = q
  /\ \A p \in Proc : Own(p)
  /\ ~dir => names = {}

(* As long as no file was set back to size 0: the last file gets its magic  *)
(* when all others have it, and an open process has seen it.                *)
MakerIntact(p) ==
  /\ at[p].step \in {"mmap", "magic"} => <<made, at[p].file>> \in full
  /\ \A j \in 1 .. at[p].file - 1 : <<made, j>> \in magic

LastIsWhole == \A g \in Nat : <<g, NFiles>> \in magic => g = made /\ Whole

SeenLast(p) == Stands(p, "open") => <<held[p][NFiles], NFiles>> \in magic

Intact ==
  /\ \A p \in creating : MakerIntact(p)
  /\ LastIsWhole
  /\ \A p \in Proc : SeenLast(p)

(* Without a crash, what nobody is at is whole or not there.                *)
WholeOrNothing == creating = {} /\ dir => Whole

IInv ==
  /\ Types /\ OneMaker
  /\ ~shrunk => Intact
  /\ crashes = 0 /\ ~shrunk => WholeOrNothing

-----------------------------------------------------------------------------
(****************************************************************************)
(* Steps of one process.                                                    *)
(****************************************************************************)
Alike(q) ==
  /\ at'[q] = at[q] /\ held'[q] = held[q] /\ size'[q] = size[q] /\ st_size'[q] = st_size[q]
  /\ q \in creating' <=> q \in creating

LEMMA GoesAt ==
  ASSUME AtType, NEW p \in Proc, NEW s, NEW i, Goes(p, s, i)
  PROVE  /\ at'[p] = [step |-> s, file |-> i] /\ at'[p].step = s /\ at'[p].file = i
         /\ \A q \in Proc \ {p} : at'[q] = at[q]
BY DEF AtType, Goes

LEMMA MappedSizes ==
  ASSUME SizeType, NEW p \in Proc, Mapped(p)
  PROVE  /\ size'[p] = 1 /\ st_size'[p] = 1 /\ SizeType'
         /\ \A q \in Proc \ {p} : size'[q] = size[q] /\ st_size'[q] = st_size[q]
BY DEF SizeType, Mapped

LEMMA EndsAt ==
  ASSUME AtType, HeldType, SizeType, NEW p \in Proc, Ends(p)
  PROVE  /\ at'[p].step = "closed" /\ at'[p].file = 0 /\ size'[p] = 1 /\ st_size'[p] = 1
         /\ creating' = creating \ {p}
         /\ \A q \in Proc \ {p} : Alike(q)
<1>1. /\ at'[p].step = "closed" /\ at'[p].file = 0
      /\ \A q \in Proc \ {p} : at'[q] = at[q]
  BY GoesAt DEF Ends
<1>2. \A q \in Proc \ {p} : held'[q] = held[q]
  BY DEF Ends, HeldType
<1>3. /\ size'[p] = 1 /\ st_size'[p] = 1
      /\ \A q \in Proc \ {p} : size'[q] = size[q] /\ st_size'[q] = st_size[q]
  BY MappedSizes DEF Ends
<1> QED
  BY <1>1, <1>2, <1>3 DEF Ends, Alike

LEMMA GoesType ==
  ASSUME AtType, NEW p \in Proc, NEW s \in Steps, NEW i \in 0 .. NFiles,
         s \in FileSteps => i \in File,
         Goes(p, s, i)
  PROVE  AtType'
<1>1. [step |-> s, file |-> i] \in [step : Steps, file : 0 .. NFiles]
  OBVIOUS
<1>2. at' \in [Proc -> [step : Steps, file : 0 .. NFiles]]
  BY <1>1 DEF AtType, Goes
<1>3. \A q \in Proc : at'[q].step \in FileSteps => at'[q].file \in File
  <2>1. /\ at'[p].step = s /\ at'[p].file = i
        /\ \A q \in Proc \ {p} : at'[q] = at[q]
    BY GoesAt
  <2> QED
    BY <2>1 DEF AtType
<1> QED
  BY <1>2, <1>3 DEF AtType

LEMMA EndsType ==
  ASSUME Types, NEW p \in Proc, Ends(p), made' = made
  PROVE  AtType' /\ HeldType' /\ SizeType' /\ creating' \subseteq Proc
<1>1. AtType'
  BY GoesType, DirectoryAssumption DEF Ends, Types, Steps, FileSteps, InMap
<1>2. HeldType'
  <2>1. [i \in File |-> 0] \in [File -> 0 .. made]
    BY DEF Types, MiscType
  <2> QED
    BY <2>1 DEF Ends, Types, HeldType
<1>3. SizeType'
  BY MappedSizes DEF Ends, Types
<1> QED
  BY <1>1, <1>2, <1>3 DEF Ends, Types, MiscType

LEMMA SetSizeType ==
  ASSUME Types, NEW f \in (0 .. made) \X File, NEW n, SetSize(f, n),
         UNCHANGED <<names, made>>
  PROVE  DiskType'
BY DEF Types, DiskType, SetSize

LEMMA SetSizeKeeps ==
  ASSUME Types, NEW f, NEW n, SetSize(f, n)
  PROVE  /\ magic' \subseteq magic
         /\ ~shrunk' => ~shrunk /\ magic' = magic /\ full \subseteq full'
         /\ n # 0 => f \in full' /\ magic' = magic /\ full \subseteq full'
BY DEF Types, DiskType, SetSize

LEMMA HoldsType ==
  ASSUME Types, NEW p \in Proc, NEW i \in File, held' = [held EXCEPT ![p][i] = made],
         made' = made
  PROVE  /\ HeldType' /\ held'[p][i] = made
         /\ \A q \in Proc \ {p} : held'[q] = held[q]
<1>1. made \in 0 .. made
  BY DEF Types, MiscType
<1>2. [held[p] EXCEPT ![i] = made] \in [File -> 0 .. made]
  BY <1>1 DEF Types, HeldType
<1>3. held' = [held EXCEPT ![p] = [held[p] EXCEPT ![i] = made]]
  BY DEF Types, HeldType
<1> QED
  BY <1>2, <1>3 DEF Types, HeldType

LEMMA FdType ==
  ASSUME Types, NEW p \in Proc, at[p].file \in File
  PROVE  Fd(p) \in (0 .. made) \X File /\ SizeOf(Fd(p)) \in 0 .. 1
BY DEF Types, HeldType, Fd, SizeOf

LEMMA NextTypes == Types /\ [Next]_vars => Types'
<1> SUFFICES ASSUME Types, [Next]_vars
             PROVE  Types'
  OBVIOUS
<1>a. AtType /\ HeldType /\ SizeType /\ DiskType /\ MiscType /\ NFiles \in Nat \ {0}
  BY DirectoryAssumption DEF Types
<1>b. ASSUME AtType', HeldType', SizeType', DiskType', MiscType' PROVE Types'
  BY <1>b DEF Types
<1>c. ASSUME UNCHANGED <<held, made>> PROVE HeldType'
  BY <1>a, <1>c DEF HeldType
<1>d. ASSUME UNCHANGED <<size, st_size>> PROVE SizeType'
  BY <1>a, <1>d DEF SizeType
<1>e. ASSUME UNCHANGED <<names, made, files>> PROVE DiskType'
  BY <1>a, <1>e DEF DiskType, files
<1>f. \A p \in Proc, s \in FileSteps : Stands(p, s) => at[p].file \in File
  BY <1>a DEF AtType, Stands
<1>g. \A i \in File : i \in 0 .. NFiles /\ i - 1 \in 0 .. NFiles /\ (i < NFiles => i + 1 \in File)
  BY <1>a DEF File
<1>h. 1 \in File /\ 0 \in 0 .. NFiles /\ 1 \in 0 .. NFiles
  BY <1>a DEF File
<1>1. ASSUME NEW p \in Proc, Access(p) PROVE Types'
  <2>1. AtType'
    <3>1. CASE dir
      BY <1>1, <1>a, <1>h, <3>1, GoesType DEF Access, Steps
    <3>2. CASE ~dir
      BY <1>1, <1>a, <1>h, <3>2, GoesType DEF Access, Steps, FileSteps, InMap
    <3> QED
      BY <3>1, <3>2
  <2> QED
    BY <1>1, <1>a, <1>b, <1>c, <1>d, <1>e, <2>1 DEF Access, MiscType
<1>2. ASSUME NEW p \in Proc, MakeDir(p) PROVE Types'
  <2>1. CASE dir
    <3>1. AtType' /\ HeldType' /\ SizeType' /\ creating' \subseteq Proc
      BY <1>2, <2>1, EndsType DEF MakeDir
    <3> QED
      BY <1>2, <1>a, <1>b, <1>e, <2>1, <3>1 DEF MakeDir, MiscType
  <2>2. CASE ~dir
    <3>1. AtType'
      BY <1>2, <1>a, <1>h, <2>2, GoesType DEF MakeDir, Steps
    <3>2. made' = made + 1 /\ made \in Nat /\ 0 .. made \subseteq 0 .. made'
      BY <1>2, <1>a, <2>2 DEF MakeDir, MiscType
    <3>3. HeldType'
      BY <1>2, <1>a, <2>2, <3>2 DEF MakeDir, HeldType
    <3>4. DiskType'
      BY <1>2, <1>a, <2>2, <3>2 DEF MakeDir, DiskType, files
    <3>5. MiscType'
      BY <1>2, <1>a, <2>2, <3>2 DEF MakeDir, MiscType
    <3>6. SizeType'
      BY <1>2, <1>d, <2>2 DEF MakeDir
    <3> QED
      BY <1>b, <3>1, <3>3, <3>4, <3>5, <3>6
  <2> QED
    BY <2>1, <2>2
<1>3. ASSUME NEW p \in Proc, CreateFile(p) PROVE Types'
  <2>1. at[p].file \in File
    BY <1>3, <1>f DEF CreateFile, FileSteps
  <2>2. AtType'
    BY <1>3, <1>a, <1>g, <2>1, GoesType DEF CreateFile, Steps
  <2>3. HeldType'
    BY <1>3, <2>1, HoldsType DEF CreateFile
  <2>4. DiskType'
    BY <1>3, <1>a, <2>1 DEF CreateFile, DiskType
  <2> QED
    BY <1>3, <1>a, <1>b, <1>d, <2>2, <2>3, <2>4 DEF CreateFile, MiscType
<1>4. ASSUME NEW p \in Proc, CreateFails(p) PROVE Types'
  <2>1. at[p].file \in File
    BY <1>4, <1>f DEF CreateFails, FileSteps
  <2>2. AtType'
    BY <1>4, <1>a, <1>g, <2>1, GoesType DEF CreateFails, Steps, FileSteps, InMap
  <2> QED
    BY <1>4, <1>a, <1>b, <1>c, <1>d, <1>e, <2>2 DEF CreateFails, MiscType
<1>5. ASSUME NEW p \in Proc, FindFile(p) PROVE Types'
  <2>1. at[p].file \in File
    BY <1>5, <1>f DEF FindFile, FileSteps
  <2>2. CASE at[p].file \in names
    <3>1. AtType'
      BY <1>5, <1>a, <1>g, <2>1, <2>2, GoesType DEF FindFile, Steps
    <3>2. HeldType'
      BY <1>5, <2>1, <2>2, HoldsType DEF FindFile
    <3> QED
      BY <1>5, <1>a, <1>b, <1>d, <1>e, <2>2, <3>1, <3>2 DEF FindFile, MiscType
  <2>3. CASE at[p].file \notin names
    <3>1. AtType' /\ HeldType' /\ SizeType' /\ creating' \subseteq Proc
      BY <1>5, <2>3, EndsType DEF FindFile
    <3> QED
      BY <1>5, <1>a, <1>b, <1>e, <3>1 DEF FindFile, MiscType
  <2> QED
    BY <2>2, <2>3
<1>6. ASSUME NEW p \in Proc, StatFile(p) PROVE Types'
  <2>1. at[p].file \in File
    BY <1>6, <1>f DEF StatFile, FileSteps
  <2>2. AtType'
    BY <1>6, <1>a, <1>g, <2>1, GoesType DEF StatFile, Steps
  <2>3. SizeType'
    BY <1>6, <1>a, <2>1, FdType DEF StatFile, SizeType
  <2> QED
    BY <1>6, <1>a, <1>b, <1>c, <1>e, <2>2, <2>3 DEF StatFile, MiscType
<1>7. ASSUME NEW p \in Proc, MapStat(p) PROVE Types'
  <2>1. at[p].file \in File
    BY <1>7, <1>f DEF MapStat, FileSteps, InMap
  <2>2. AtType'
    BY <1>7, <1>a, <1>g, <2>1, GoesType DEF MapStat, Steps
  <2>3. SizeType'
    BY <1>7, <1>a, <2>1, FdType DEF MapStat, SizeType
  <2> QED
    BY <1>7, <1>a, <1>b, <1>c, <1>e, <2>2, <2>3 DEF MapStat, MiscType
<1>8. ASSUME NEW p \in Proc, MapTruncate(p) PROVE Types'
  <2>1. at[p].file \in File
    BY <1>8, <1>f DEF MapTruncate, FileSteps, InMap
  <2>2. AtType'
    BY <1>8, <1>a, <1>g, <2>1, GoesType DEF MapTruncate, Steps
  <2>3. DiskType'
    BY <1>8, <2>1, FdType, SetSizeType DEF MapTruncate
  <2> QED
    BY <1>8, <1>a, <1>b, <1>c, <1>d, <2>2, <2>3 DEF MapTruncate, MiscType
<1>9. ASSUME NEW p \in Proc, Map(p) PROVE Types'
  <2>1. at[p].file \in File
    BY <1>9, <1>f DEF Map, FileSteps, InMap
  <2>2. AtType'
    BY <1>9, <1>a, <1>g, <2>1, GoesType DEF Map, Steps
  <2>3. SizeType'
    BY <1>9, <1>a, MappedSizes DEF Map
  <2> QED
    BY <1>9, <1>a, <1>b, <1>c, <1>e, <2>2, <2>3 DEF Map, MiscType
<1>10. ASSUME NEW p \in Proc, MapFails(p) PROVE Types'
  <2>1. at[p].file \in File
    BY <1>10, <1>f DEF MapFails, FileSteps, InMap
  <2>2. AtType'
    BY <1>10, <1>a, <1>g, <2>1, GoesType DEF MapFails, Steps
  <2> QED
    BY <1>10, <1>a, <1>b, <1>c, <1>d, <1>e, <2>2 DEF MapFails, MiscType
<1>11. ASSUME NEW p \in Proc, GivesUp(p), at[p].file \in File, made' = made
       PROVE  AtType' /\ HeldType' /\ SizeType' /\ creating' \subseteq Proc
  <2>1. CASE p \in creating
    <3>1. AtType'
      BY <1>11, <1>a, <1>g, <2>1, GoesType DEF GivesUp, Steps
    <3>2. SizeType'
      BY <1>11, <1>a, <2>1, MappedSizes DEF GivesUp
    <3> QED
      BY <1>11, <1>a, <1>c, <2>1, <3>1, <3>2 DEF GivesUp, MiscType
  <2>2. CASE p \notin creating
    BY <1>11, <2>2, EndsType DEF GivesUp
  <2> QED
    BY <2>1, <2>2
<1>12. ASSUME NEW p \in Proc, Restore(p) PROVE Types'
  <2>1. at[p].file \in File
    BY <1>12, <1>f DEF Restore, FileSteps, InMap
  <2>2. AtType' /\ HeldType' /\ SizeType' /\ creating' \subseteq Proc
    BY <1>11, <1>12, <2>1 DEF Restore
  <2>3. DiskType'
    BY <1>12, <2>1, FdType, SetSizeType DEF Restore
  <2> QED
    BY <1>12, <1>a, <1>b, <2>2, <2>3 DEF Restore, MiscType
<1>13. ASSUME NEW p \in Proc, CallFails(p) PROVE Types'
  <2>1. at[p].file \in File
    BY <1>13, <1>a DEF CallFails, FileSteps, InMap, AtType
  <2>2. AtType' /\ HeldType' /\ SizeType' /\ creating' \subseteq Proc
    BY <1>11, <1>13, <2>1 DEF CallFails
  <2> QED
    BY <1>13, <1>a, <1>b, <1>e, <2>2 DEF CallFails, MiscType
<1>14. ASSUME NEW p \in Proc, WriteMagic(p) PROVE Types'
  <2>1. at[p].file \in File
    BY <1>14, <1>f DEF WriteMagic, FileSteps
  <2>2. CASE Fd(p) \in full
    <3>1. AtType'
      <4>1. CASE at[p].file < NFiles
        BY <1>14, <1>a, <1>g, <2>1, <2>2, <4>1, GoesType DEF WriteMagic, Steps
      <4>2. CASE ~(at[p].file < NFiles)
        BY <1>14, <1>a, <1>h, <2>2, <4>2, GoesType DEF WriteMagic, Steps, FileSteps, InMap
      <4> QED
        BY <4>1, <4>2
    <3>2. DiskType'
      BY <1>14, <1>a, <2>2 DEF WriteMagic, DiskType
    <3>3. creating' \subseteq Proc
      BY <1>14, <1>a, <2>2 DEF WriteMagic, MiscType
    <3> QED
      BY <1>14, <1>a, <1>b, <1>c, <1>d, <2>2, <3>1, <3>2, <3>3 DEF WriteMagic, MiscType
  <2>3. CASE Fd(p) \notin full
    <3>1. AtType' /\ HeldType' /\ SizeType' /\ creating' \subseteq Proc
      BY <1>14, <2>3, EndsType DEF WriteMagic
    <3> QED
      BY <1>14, <1>a, <1>b, <1>e, <2>3, <3>1 DEF WriteMagic, MiscType, files
  <2> QED
    BY <2>2, <2>3
<1>15. ASSUME NEW p \in Proc, Unlink(p) PROVE Types'
  <2>1. at[p].file \in File
    BY <1>15, <1>f DEF Unlink, FileSteps
  <2>2. AtType'
    BY <1>15, <1>a, <1>g, <2>1, GoesType DEF Unlink, Steps, FileSteps, InMap
  <2>3. DiskType'
    BY <1>15, <1>a DEF Unlink, DiskType, files
  <2> QED
    BY <1>15, <1>a, <1>b, <1>c, <1>d, <2>2, <2>3 DEF Unlink, MiscType
<1>16. ASSUME NEW p \in Proc, Undo(p) PROVE Types'
  <2>1. at[p].file \in 0 .. NFiles
    BY <1>a DEF AtType
  <2>2. CASE at[p].file > 0
    <3>1. at[p].file - 1 \in 0 .. NFiles
      BY <1>a, <2>1, <2>2
    <3>2. AtType'
      BY <1>16, <1>a, <2>2, <3>1, GoesType DEF Undo, Steps, FileSteps, InMap
    <3>3. DiskType'
      BY <1>16, <1>a, <2>2 DEF Undo, DiskType, files
    <3> QED
      BY <1>16, <1>a, <1>b, <1>c, <1>d, <2>2, <3>2, <3>3 DEF Undo, MiscType
  <2>3. CASE ~(at[p].file > 0)
    <3>1. AtType' /\ HeldType' /\ SizeType' /\ creating' \subseteq Proc
      BY <1>16, <2>3, EndsType DEF Undo
    <3> QED
      BY <1>16, <1>a, <1>b, <1>e, <2>3, <3>1 DEF Undo, MiscType
  <2> QED
    BY <2>2, <2>3
<1>17. ASSUME NEW p \in Proc, Verify(p) PROVE Types'
  <2>1. at[p].file \in File
    BY <1>17, <1>f DEF Verify, FileSteps
  <2>2. CASE Fd(p) \in magic
    <3>1. AtType'
      <4>1. CASE at[p].file < NFiles
        BY <1>17, <1>a, <1>g, <2>1, <2>2, <4>1, GoesType DEF Verify, Steps
      <4>2. CASE ~(at[p].file < NFiles)
        BY <1>17, <1>a, <1>h, <2>2, <4>2, GoesType DEF Verify, Steps, FileSteps, InMap
      <4> QED
        BY <4>1, <4>2
    <3> QED
      BY <1>17, <1>a, <1>b, <1>c, <1>d, <1>e, <2>2, <3>1 DEF Verify, MiscType
  <2>3. CASE Fd(p) \notin magic
    <3>1. AtType' /\ HeldType' /\ SizeType' /\ creating' \subseteq Proc
      BY <1>17, <2>3, EndsType DEF Verify
    <3> QED
      BY <1>17, <1>a, <1>b, <1>e, <2>3, <3>1 DEF Verify, MiscType
  <2> QED
    BY <2>2, <2>3
<1>18. ASSUME NEW p \in Proc, Close(p) PROVE Types'
  <2>1. CASE NFiles > 1
    <3>1. 2 \in File /\ 2 \in 0 .. NFiles
      BY <1>a, <2>1 DEF File
    <3>2. AtType'
      BY <1>18, <1>a, <2>1, <3>1, GoesType DEF Close, Steps
    <3> QED
      BY <1>18, <1>a, <1>b, <1>c, <1>d, <1>e, <2>1, <3>2 DEF Close, MiscType
  <2>2. CASE ~(NFiles > 1)
    <3>1. AtType' /\ HeldType' /\ SizeType' /\ creating' \subseteq Proc
      BY <1>18, <2>2, EndsType DEF Close
    <3> QED
      BY <1>18, <1>a, <1>b, <1>e, <3>1 DEF Close, MiscType
  <2> QED
    BY <2>1, <2>2
<1>19. ASSUME NEW p \in Proc, CloseFile(p) PROVE Types'
  <2>1. at[p].file \in File
    BY <1>19, <1>f DEF CloseFile, FileSteps
  <2>2. DiskType'
    BY <1>19, <1>e, <2>1, FdType, SetSizeType DEF CloseFile
  <2>3. CASE at[p].file < NFiles
    <3>1. AtType'
      BY <1>19, <1>a, <1>g, <2>1, <2>3, GoesType DEF CloseFile, Steps
    <3> QED
      BY <1>19, <1>a, <1>b, <1>c, <1>d, <2>2, <2>3, <3>1 DEF CloseFile, MiscType
  <2>4. CASE ~(at[p].file < NFiles)
    <3>1. AtType' /\ HeldType' /\ SizeType' /\ creating' \subseteq Proc
      BY <1>19, <2>4, EndsType DEF CloseFile
    <3> QED
      BY <1>19, <1>a, <1>b, <2>2, <3>1 DEF CloseFile, MiscType
  <2> QED
    BY <2>3, <2>4
<1>20. ASSUME NEW p \in Proc, Crash(p) PROVE Types'
  <2>1. AtType' /\ HeldType' /\ SizeType' /\ creating' \subseteq Proc
    BY <1>20, EndsType DEF Crash
  <2> QED
    BY <1>20, <1>a, <1>b, <1>e, <2>1 DEF Crash, MiscType
<1>21. CASE UNCHANGED vars
  <2>1. AtType'
    BY <1>21, <1>a DEF vars, AtType
  <2> QED
    BY <1>21, <1>a, <1>b, <1>c, <1>d, <1>e, <2>1 DEF vars, MiscType, files
<1> QED
  BY <1>1, <1>2, <1>3, <1>4, <1>5, <1>6, <1>7, <1>8, <1>9, <1>10, <1>12, <1>13, <1>14, <1>15,
     <1>16, <1>17, <1>18, <1>19, <1>20, <1>21 DEF Next, Runs, MapSteps
-----------------------------------------------------------------------------
(****************************************************************************)
(* One process makes the directory.                                         *)
(****************************************************************************)
(* A step of one process that keeps its part of OneMaker keeps the others'. *)
LEMMA OwnStays ==
  ASSUME Types, OneMaker, NEW p \in Proc, \A q \in Proc \ {p} : Alike(q),
         Own(p)', (~dir => names = {})', creating' \subseteq Proc,
         \/ p \in creating
         \/ creating = {}
         \/ UNCHANGED <<dir, made, names>> /\ magic' \subseteq magic /\ p \notin creating'
  PROVE  OneMaker'
<1>1. \A q \in Proc \ {p} : q \in creating' => q \in creating
  BY DEF Alike
<1>2. \A q, r \in creating' : q = r
  BY <1>1 DEF OneMaker, Types, MiscType
<1>3. ASSUME NEW q \in Proc \ {p} PROVE Own(q)'
  <2>1. /\ at'[q] = at[q] /\ size'[q] = size[q] /\ st_size'[q] = st_size[q] /\ Own(q)
        /\ held'[q] = held[q] /\ (q \in creating' <=> q \in creating)
    BY <1>3 DEF Alike, OneMaker
  <2>2. CASE q \notin creating
    BY <2>1, <2>2 DEF Own
  <2>3. CASE q \in creating
    <3>1. UNCHANGED <<dir, made, names>> /\ magic' \subseteq magic
      BY <1>3, <2>3 DEF OneMaker
    <3>2. Maker(q)'
      BY <2>1, <2>3, <3>1 DEF Own, Maker
    <3> QED
      BY <2>1, <2>3, <3>2 DEF Own
  <2> QED
    BY <2>2, <2>3
<1> QED
  BY <1>2, <1>3 DEF OneMaker

(* A process that ends, or gets to another step with the sizes of map_file()*)
(* it has there, while the directory stays as it is.                        *)
LEMMA EndsOwn ==
  ASSUME Types, OneMaker, NEW p \in Proc, Ends(p), creating' \subseteq Proc,
         (~dir => names = {})',
         p \in creating \/ (UNCHANGED <<dir, made, names>> /\ magic' \subseteq magic)
  PROVE  OneMaker'
<1>1. /\ at'[p].step = "closed" /\ size'[p] = 1 /\ st_size'[p] = 1
      /\ creating' = creating \ {p}
      /\ \A q \in Proc \ {p} : Alike(q)
  BY EndsAt DEF Types
<1>2. Own(p)'
  BY <1>1 DEF Own, Makes
<1> QED
  BY <1>1, <1>2, OwnStays

LEMMA OtherMoves ==
  ASSUME Types, OneMaker, NEW p \in Proc, p \notin creating, creating' = creating,
         \A q \in Proc \ {p} : Alike(q), UNCHANGED <<dir, made, names>>, magic' \subseteq magic,
         at'[p].step \notin Makes,
         at'[p].step \notin InMap => size'[p] = 1 /\ st_size'[p] = 1
  PROVE  OneMaker'
<1>1. Own(p)'
  BY DEF Own
<1> QED
  BY <1>1, OwnStays DEF OneMaker, Types, MiscType

(* The process that makes the directory, at its next step.                  *)
LEMMA MakerMoves ==
  ASSUME Types, OneMaker, NEW p \in Proc, p \in creating, creating' = creating,
         \A q \in Proc \ {p} : Alike(q), Maker(p)',
         at'[p].step \notin InMap => st_size'[p] = 1
  PROVE  OneMaker'
<1>1. Own(p)'
  BY DEF Own, Maker
<1>2. (~dir => names = {})'
  BY DEF Maker
<1> QED
  BY <1>1, <1>2, OwnStays DEF Types, MiscType

(* ... within map_file(), or out of it, nothing changes but the file.       *)
LEMMA MakerMaps ==
  ASSUME Types, OneMaker, NEW p \in Proc, p \in creating, creating' = creating,
         \A q \in Proc \ {p} : Alike(q),
         at[p].step \in InMap, at'[p].step \in InMap \cup {"magic", "unlink"},
         at'[p].file = at[p].file, size'[p] = size[p], held' = held,
         UNCHANGED <<dir, made, names>>, magic' \subseteq magic,
         at'[p].step \notin InMap => st_size'[p] = 1
  PROVE  OneMaker'
<1>1. Maker(p) /\ size[p] = 1
  BY DEF OneMaker, Own, Maker
<1>2. Maker(p)'
  BY <1>1 DEF Maker, InMap, Makes
<1> QED
  BY <1>2, MakerMoves

LEMMA MapStepAlike ==
  ASSUME Types, NEW p \in Proc, NEW s, Goes(p, s, at[p].file), UNCHANGED <<creating, held>>
  PROVE  /\ UNCHANGED <<size, st_size>> => \A q \in Proc \ {p} : Alike(q)
         /\ Mapped(p) => \A q \in Proc \ {p} : Alike(q)
         /\ \A x : size' = [size EXCEPT ![p] = x] /\ UNCHANGED st_size =>
              \A q \in Proc \ {p} : Alike(q)
         /\ \A x : st_size' = [st_size EXCEPT ![p] = x] /\ UNCHANGED size =>
              \A q \in Proc \ {p} : Alike(q)
<1>1. \A q \in Proc \ {p} : at'[q] = at[q] /\ held'[q] = held[q]
  BY GoesAt DEF Types
<1>2. Mapped(p) => \A q \in Proc \ {p} : size'[q] = size[q] /\ st_size'[q] = st_size[q]
  BY MappedSizes DEF Types
<1> QED
  BY <1>1, <1>2 DEF Alike, Types, SizeType

LEMMA GivesUpOwn ==
  ASSUME Types, OneMaker, NEW p \in Proc, GivesUp(p), UNCHANGED <<dir, made, names>>,
         magic' \subseteq magic, at[p].step \in InMap \cup {"stat"}, creating' \subseteq Proc
  PROVE  OneMaker'
<1>1. CASE p \in creating
  <2>1. /\ Goes(p, "unlink", at[p].file) /\ Mapped(p) /\ UNCHANGED <<creating, held>>
        /\ size[p] = 1 /\ at[p].step \in InMap
    BY <1>1 DEF GivesUp, OneMaker, Own, Maker, Makes, InMap
  <2>2. at'[p].step = "unlink" /\ at'[p].file = at[p].file
    BY <2>1, GoesAt DEF Types
  <2>3. size'[p] = 1 /\ st_size'[p] = 1
    BY <2>1, MappedSizes DEF Types
  <2>4. \A q \in Proc \ {p} : Alike(q)
    BY <2>1, MapStepAlike
  <2> QED
    BY <1>1, <2>1, <2>2, <2>3, <2>4, MakerMaps
<1>2. CASE p \notin creating
  <2>1. (~dir => names = {})'
    BY DEF OneMaker
  <2> QED
    BY <1>2, <2>1, EndsOwn DEF GivesUp
<1> QED
  BY <1>1, <1>2

LEMMA NextOneMaker == Types /\ OneMaker /\ [Next]_vars => OneMaker'
<1> SUFFICES ASSUME Types, OneMaker, [Next]_vars
             PROVE  OneMaker'
  OBVIOUS
<1>a. AtType /\ HeldType /\ SizeType /\ DiskType /\ MiscType /\ NFiles \in Nat \ {0}
  BY DirectoryAssumption DEF Types
<1>b. Types'
  BY NextTypes
<1>c. creating' \subseteq Proc
  BY <1>b DEF Types, MiscType
<1>d. ~dir => names = {}
  BY DEF OneMaker
<1>e. \A p \in Proc : Own(p)
  BY DEF OneMaker
<1>1. ASSUME NEW p \in Proc, Access(p) PROVE OneMaker'
  <2>1. p \notin creating /\ size[p] = 1 /\ st_size[p] = 1
    BY <1>1, <1>e DEF Access, Stands, Own, Maker, Makes, InMap
  <2>2. at'[p].step \in {"find", "mkdir"} /\ \A q \in Proc \ {p} : at'[q] = at[q]
    BY <1>1, <1>a, GoesAt DEF Access
  <2>3. \A q \in Proc \ {p} : Alike(q)
    BY <1>1, <2>2 DEF Access, Alike
  <2> QED
    BY <1>1, <2>1, <2>2, <2>3, OtherMoves DEF Access, files, Makes
<1>2. ASSUME NEW p \in Proc, MakeDir(p) PROVE OneMaker'
  <2>1. p \notin creating /\ size[p] = 1 /\ st_size[p] = 1
    BY <1>2, <1>e DEF MakeDir, Stands, Own, Maker, Makes, InMap
  <2>2. CASE dir
    BY <1>2, <1>c, <2>2, EndsOwn DEF MakeDir, files
  <2>3. CASE ~dir
    <3>1. creating = {}
      BY <1>a, <1>e, <2>3 DEF Own, Maker, MiscType
    <3>2. /\ at'[p].step = "create" /\ at'[p].file = 1
          /\ \A q \in Proc \ {p} : at'[q] = at[q]
      BY <1>2, <1>a, <2>3, GoesAt DEF MakeDir
    <3>3. \A q \in Proc \ {p} : Alike(q)
      BY <1>2, <2>3, <3>2 DEF MakeDir, Alike
    <3>4. <<made + 1, NFiles>> \notin magic
      BY <1>a DEF DiskType, MiscType
    <3>5. dir' /\ made' = made + 1 /\ names' = {} /\ magic' = magic /\ creating' = {p}
      BY <1>2, <1>d, <2>3, <3>1 DEF MakeDir, files
    <3>6. size'[p] = 1 /\ st_size'[p] = 1
      BY <1>2, <2>1, <2>3 DEF MakeDir
    <3>7. 1 .. 1 - 1 = {}
      OBVIOUS
    <3>8. Maker(p)'
      BY <3>2, <3>4, <3>5, <3>6, <3>7 DEF Maker, Makes, InMap
    <3>9. Own(p)'
      BY <3>5, <3>6, <3>8 DEF Own
    <3> QED
      BY <1>c, <3>1, <3>3, <3>5, <3>9, OwnStays
  <2> QED
    BY <2>2, <2>3
<1>3. ASSUME NEW p \in Proc, CreateFile(p) PROVE OneMaker'
  <2>1. p \in creating /\ Maker(p) /\ at[p].step = "create" /\ st_size[p] = 1
    BY <1>3, <1>e DEF CreateFile, Stands, Own, Makes, InMap
  <2>2. at[p].file \in File /\ at[p].file \in Nat \ {0}
    BY <1>a, <2>1 DEF AtType, FileSteps, File
  <2>3. /\ at'[p].step = "fstat" /\ at'[p].file = at[p].file
        /\ \A q \in Proc \ {p} : at'[q] = at[q]
    BY <1>3, <1>a, GoesAt DEF CreateFile
  <2>4. held'[p][at[p].file] = made /\ \A q \in Proc \ {p} : held'[q] = held[q]
    BY <1>3, <2>2, HoldsType DEF CreateFile
  <2>5. \A q \in Proc \ {p} : Alike(q)
    BY <1>3, <2>3, <2>4 DEF CreateFile, Alike
  <2>6. names' = 1 .. at[p].file
    BY <1>3, <2>1, <2>2 DEF CreateFile, Maker
  <2>7. magic' \subseteq magic /\ UNCHANGED <<dir, made, size, creating, st_size>>
    BY <1>3 DEF CreateFile
  <2>8. Maker(p)'
    BY <2>1, <2>3, <2>4, <2>6, <2>7 DEF Maker, Makes, InMap
  <2> QED
    BY <2>1, <2>3, <2>5, <2>7, <2>8, MakerMoves
<1>4. ASSUME NEW p \in Proc, CreateFails(p) \/ Unlink(p) PROVE OneMaker'
  <2>1. /\ p \in creating /\ Maker(p) /\ at[p].step \in {"create", "unlink"}
        /\ st_size[p] = 1 /\ size[p] = 1
    BY <1>4, <1>e DEF CreateFails, Unlink, Stands, Own, Makes, InMap
  <2>2. at[p].file \in File /\ at[p].file \in Nat \ {0}
    BY <1>a, <2>1 DEF AtType, FileSteps, File
  <2>3. /\ at'[p].step = "undo" /\ at'[p].file = at[p].file - 1
        /\ \A q \in Proc \ {p} : at'[q] = at[q]
    BY <1>4, <1>a DEF CreateFails, Unlink, Goes, AtType
  <2>4. \A q \in Proc \ {p} : Alike(q)
    BY <1>4, <2>3 DEF CreateFails, Unlink, Alike
  <2>5. names' = 1 .. at[p].file - 1
    <3>1. CASE CreateFails(p)
      BY <2>1, <3>1 DEF CreateFails, Stands, Maker
    <3>2. CASE Unlink(p)
      <4>1. names = 1 .. at[p].file
        BY <2>1, <3>2 DEF Unlink, Stands, Maker
      <4>2. (1 .. at[p].file) \ {at[p].file} = 1 .. at[p].file - 1
        BY <2>2
      <4> QED
        BY <3>2, <4>1, <4>2 DEF Unlink
    <3> QED
      BY <1>4, <3>1, <3>2
  <2>6. UNCHANGED <<dir, made, magic, size, st_size, creating>>
    BY <1>4 DEF CreateFails, Unlink, files
  <2>7. Maker(p)'
    BY <2>1, <2>3, <2>5, <2>6 DEF Maker, Makes, InMap
  <2> QED
    BY <2>1, <2>4, <2>6, <2>7, MakerMoves
<1>5. ASSUME NEW p \in Proc, FindFile(p) PROVE OneMaker'
  <2>1. p \notin creating /\ size[p] = 1 /\ st_size[p] = 1
    BY <1>5, <1>e DEF FindFile, Stands, Own, Maker, Makes, InMap
  <2>2. at[p].file \in File
    BY <1>5, <1>a DEF FindFile, Stands, AtType, FileSteps
  <2>3. CASE at[p].file \in names
    <3>1. at'[p].step = "stat" /\ \A q \in Proc \ {p} : at'[q] = at[q]
      BY <1>5, <1>a, <2>3, GoesAt DEF FindFile
    <3>2. \A q \in Proc \ {p} : held'[q] = held[q]
      BY <1>5, <2>2, <2>3, HoldsType DEF FindFile
    <3>3. \A q \in Proc \ {p} : Alike(q)
      BY <1>5, <2>3, <3>1, <3>2 DEF FindFile, Alike
    <3> QED
      BY <1>5, <2>1, <2>3, <3>1, <3>3, OtherMoves DEF FindFile, files, Makes
  <2>4. CASE at[p].file \notin names
    BY <1>5, <1>c, <1>d, <2>4, EndsOwn DEF FindFile, files
  <2> QED
    BY <2>3, <2>4
<1>6. ASSUME NEW p \in Proc, StatFile(p) PROVE OneMaker'
  <2>1. p \notin creating
    BY <1>6, <1>e DEF StatFile, Stands, Own, Maker, Makes, InMap
  <2>2. at'[p].step = "fstat"
    BY <1>6, <1>a, GoesAt DEF StatFile
  <2>3. \A q \in Proc \ {p} : Alike(q)
    BY <1>6, MapStepAlike DEF StatFile
  <2> QED
    BY <1>6, <2>1, <2>2, <2>3, OtherMoves DEF StatFile, files, Makes, InMap
<1>7. ASSUME NEW p \in Proc, MapStat(p) \/ MapTruncate(p) \/ Map(p) \/ MapFails(p)
      PROVE  OneMaker'
  <2>1. /\ at[p].step \in InMap /\ at'[p].file = at[p].file
        /\ at'[p].step \in InMap \/ (at'[p].step = IF p \in creating THEN "magic" ELSE "verify")
        /\ at'[p].step \notin InMap => Mapped(p)
    BY <1>7, <1>a, GoesAt DEF MapStat, MapTruncate, Map, MapFails, Stands, InMap
  <2>2. at'[p].step \notin InMap => size'[p] = 1 /\ st_size'[p] = 1
    BY <1>a, <2>1, MappedSizes
  <2>3. \A q \in Proc \ {p} : Alike(q)
    BY <1>7, MapStepAlike DEF MapStat, MapTruncate, Map, MapFails
  <2>4. UNCHANGED <<dir, made, names, creating, held>> /\ magic' \subseteq magic
    BY <1>7, SetSizeKeeps DEF MapStat, MapTruncate, Map, MapFails, files
  <2>5. CASE p \in creating
    <3>1. size[p] = 1
      BY <1>e, <2>5 DEF Own, Maker
    <3>2. size'[p] = size[p]
      BY <1>7, <1>a, <3>1, MappedSizes DEF MapStat, MapTruncate, Map, MapFails
    <3> QED
      BY <2>1, <2>2, <2>3, <2>4, <2>5, <3>2, MakerMaps
  <2>6. CASE p \notin creating
    <3>1. at'[p].step \notin Makes
      BY <2>1, <2>6 DEF Makes, InMap
    <3> QED
      BY <2>2, <2>3, <2>4, <2>6, <3>1, OtherMoves
  <2> QED
    BY <2>5, <2>6
<1>8. ASSUME NEW p \in Proc, Restore(p) PROVE OneMaker'
  <2>1. magic' \subseteq magic
    BY <1>8, SetSizeKeeps DEF Restore
  <2> QED
    BY <1>8, <1>c, <2>1, GivesUpOwn DEF Restore, Stands, InMap
<1>9. ASSUME NEW p \in Proc, CallFails(p) PROVE OneMaker'
  BY <1>9, <1>c, GivesUpOwn DEF CallFails, files, InMap
<1>10. ASSUME NEW p \in Proc, WriteMagic(p) PROVE OneMaker'
  <2>1. p \in creating /\ Maker(p) /\ at[p].step = "magic" /\ size[p] = 1 /\ st_size[p] = 1
    BY <1>10, <1>e DEF WriteMagic, Stands, Own, Makes, InMap
  <2>2. at[p].file \in File /\ at[p].file \in Nat \ {0} /\ held[p][at[p].file] = made
    BY <1>a, <2>1 DEF AtType, FileSteps, File, Maker
  <2>3. CASE Fd(p) \notin full
    BY <1>10, <1>c, <1>d, <2>1, <2>3, EndsOwn DEF WriteMagic
  <2>4. CASE Fd(p) \in full /\ at[p].file < NFiles
    <3>1. /\ at'[p].step = "create" /\ at'[p].file = at[p].file + 1
          /\ \A q \in Proc \ {p} : at'[q] = at[q]
      BY <1>10, <1>a, <2>4 DEF WriteMagic, Goes, AtType
    <3>2. \A q \in Proc \ {p} : Alike(q)
      BY <1>10, <2>4, <3>1 DEF WriteMagic, Alike
    <3>3. names = 1 .. at[p].file /\ (at[p].file + 1) - 1 = at[p].file
      BY <2>1, <2>2 DEF Maker
    <3>4. <<made, NFiles>> \notin magic'
      BY <1>10, <2>1, <2>2, <2>4 DEF WriteMagic, Maker, Fd
    <3>5. UNCHANGED <<dir, made, names, size, st_size, creating>>
      BY <1>10, <2>4 DEF WriteMagic
    <3>6. Maker(p)'
      BY <2>1, <3>1, <3>3, <3>4, <3>5 DEF Maker, Makes, InMap
    <3> QED
      BY <2>1, <3>2, <3>5, <3>6, MakerMoves
  <2>5. CASE Fd(p) \in full /\ ~(at[p].file < NFiles)
    <3>1. at'[p].step = "open" /\ \A q \in Proc \ {p} : at'[q] = at[q]
      BY <1>10, <1>a, <2>5, GoesAt DEF WriteMagic
    <3>2. \A q \in Proc \ {p} : Alike(q)
      BY <1>10, <2>5, <3>1 DEF WriteMagic, Alike
    <3>3. creating' = creating \ {p} /\ UNCHANGED <<dir, names, size, st_size>>
      BY <1>10, <2>5 DEF WriteMagic
    <3>4. Own(p)'
      BY <2>1, <3>1, <3>3 DEF Own, Makes, InMap
    <3> QED
      BY <1>c, <1>d, <2>1, <3>2, <3>3, <3>4, OwnStays
  <2> QED
    BY <2>3, <2>4, <2>5
<1>11. ASSUME NEW p \in Proc, Undo(p) PROVE OneMaker'
  <2>1. p \in creating /\ Maker(p) /\ at[p].step = "undo" /\ size[p] = 1 /\ st_size[p] = 1
    BY <1>11, <1>e DEF Undo, Stands, Own, Makes, InMap
  <2>2. at[p].file \in Nat /\ names = 1 .. at[p].file
    BY <1>a, <2>1 DEF AtType, Maker
  <2>3. CASE at[p].file > 0
    <3>1. /\ at'[p].step = "undo" /\ at'[p].file = at[p].file - 1
          /\ \A q \in Proc \ {p} : at'[q] = at[q]
      BY <1>11, <1>a, <2>3 DEF Undo, Goes, AtType
    <3>2. \A q \in Proc \ {p} : Alike(q)
      BY <1>11, <2>3, <3>1 DEF Undo, Alike
    <3>3. names' = names \ {at[p].file}
      BY <1>11, <2>3 DEF Undo
    <3>4. names' = 1 .. at[p].file - 1
      BY <2>2, <2>3, <3>3
    <3>5. UNCHANGED <<dir, made, magic, size, st_size, creating>>
      BY <1>11, <2>3 DEF Undo, files
    <3>6. Maker(p)'
      BY <2>1, <3>1, <3>4, <3>5 DEF Maker, Makes, InMap
    <3> QED
      BY <2>1, <3>2, <3>5, <3>6, MakerMoves
  <2>4. CASE ~(at[p].file > 0)
    <3>1. names = {}
      BY <2>2, <2>4
    <3>2. names' = {} /\ Ends(p)
      BY <1>11, <2>4, <3>1 DEF Undo
    <3> QED
      BY <1>c, <2>1, <3>2, EndsOwn
  <2> QED
    BY <2>3, <2>4
<1>12. ASSUME NEW p \in Proc, Verify(p) \/ Close(p) PROVE OneMaker'
  <2>1. p \notin creating /\ size[p] = 1 /\ st_size[p] = 1
    BY <1>12, <1>e DEF Verify, Close, Stands, Own, Maker, Makes, InMap
  <2>2. UNCHANGED <<dir, made, names, magic>>
    BY <1>12 DEF Verify, Close, files
  <2>3. CASE Ends(p)
    BY <1>c, <1>d, <2>2, <2>3, EndsOwn
  <2>4. CASE ~Ends(p)
    <3>1. UNCHANGED <<creating, held, size, st_size>>
      BY <1>12, <2>4 DEF Verify, Close
    <3>2. at'[p].step \in {"find", "open", "close"} /\ \A q \in Proc \ {p} : at'[q] = at[q]
      BY <1>12, <1>a, <2>4, GoesAt DEF Verify, Close
    <3>3. \A q \in Proc \ {p} : Alike(q)
      BY <3>1, <3>2 DEF Alike
    <3> QED
      BY <2>1, <2>2, <3>1, <3>2, <3>3, OtherMoves DEF Makes
  <2> QED
    BY <2>3, <2>4
<1>13. ASSUME NEW p \in Proc, CloseFile(p) PROVE OneMaker'
  <2>1. p \notin creating /\ size[p] = 1 /\ st_size[p] = 1
    BY <1>13, <1>e DEF CloseFile, Stands, Own, Maker, Makes, InMap
  <2>2. UNCHANGED <<dir, made, names>> /\ magic' \subseteq magic
    BY <1>13, SetSizeKeeps DEF CloseFile, files
  <2>3. CASE Ends(p)
    BY <1>c, <1>d, <2>2, <2>3, EndsOwn
  <2>4. CASE ~Ends(p)
    <3>1. UNCHANGED <<creating, held, size, st_size>>
      BY <1>13, <2>4 DEF CloseFile
    <3>2. at'[p].step = "close" /\ \A q \in Proc \ {p} : at'[q] = at[q]
      BY <1>13, <1>a, <2>4, GoesAt DEF CloseFile
    <3>3. \A q \in Proc \ {p} : Alike(q)
      BY <3>1, <3>2 DEF Alike
    <3> QED
      BY <2>1, <2>2, <3>1, <3>2, <3>3, OtherMoves DEF Makes
  <2> QED
    BY <2>3, <2>4
<1>14. ASSUME NEW p \in Proc, Crash(p) PROVE OneMaker'
  BY <1>14, <1>c, <1>d, EndsOwn DEF Crash, files
<1>15. CASE UNCHANGED vars
  BY <1>15 DEF vars, OneMaker, Own, Maker
<1> QED
  BY <1>1, <1>2, <1>3, <1>4, <1>5, <1>6, <1>7, <1>8, <1>9, <1>10, <1>11, <1>12, <1>13, <1>14,
     <1>15 DEF Next, Runs, MapSteps
-----------------------------------------------------------------------------
(****************************************************************************)
(* As long as no file is set back to size 0, the last magic says that all   *)
(* is there.                                                                *)
(****************************************************************************)
LEMMA FdOfMaker ==
  ASSUME Types, OneMaker, NEW p \in creating, at[p].step \in InMap \cup {"magic"}
  PROVE  Fd(p) = <<made, at[p].file>> /\ size[p] = 1 /\ at[p].file \in File
BY DEF Types, MiscType, AtType, FileSteps, OneMaker, Own, Maker, Fd

(* Nobody has the directory open while it is being made.                    *)
LEMMA NoneWhileMade ==
  ASSUME Types, OneMaker, Intact, NEW p \in creating
  PROVE  /\ \A g \in Nat : <<g, NFiles>> \notin magic
         /\ creating = {p} /\ p \in Proc
         /\ \A q \in Proc : at[q].step # "open"
<1>1. p \in Proc /\ creating = {p} /\ <<made, NFiles>> \notin magic
  BY DEF Types, MiscType, OneMaker, Own, Maker
<1>2. \A g \in Nat : <<g, NFiles>> \notin magic
  BY <1>1 DEF Intact, LastIsWhole
<1>3. \A q \in Proc : held[q][NFiles] \in Nat
  BY DirectoryAssumption DEF Types, HeldType, MiscType, File
<1> QED
  BY <1>1, <1>2, <1>3 DEF Intact, SeenLast, Stands

LEMMA IntactWithoutLast ==
  ASSUME NEW p \in Proc, creating' \subseteq {p},
         \A g \in Nat : <<g, NFiles>> \notin magic',
         \A q \in Proc \ {p} : Alike(q), \A q \in Proc : at[q].step # "open",
         at'[p].step # "open",
         p \in creating' => MakerIntact(p)'
  PROVE  Intact'
<1>1. LastIsWhole'
  BY DEF LastIsWhole
<1>2. \A q \in Proc : at'[q].step # "open"
  BY DEF Alike
<1>3. \A q \in creating' : q = p
  OBVIOUS
<1> QED
  BY <1>1, <1>2, <1>3 DEF Intact, SeenLast, Stands

(* A step of the process that makes the directory.                          *)
LEMMA MakerKeeps ==
  ASSUME Types, OneMaker, Intact, NEW p \in creating, creating' \subseteq {p},
         \A g \in Nat : <<g, NFiles>> \in magic' => <<g, NFiles>> \in magic,
         \A q \in Proc \ {p} : Alike(q), at'[p].step # "open",
         p \in creating' => MakerIntact(p)'
  PROVE  Intact'
BY NoneWhileMade, IntactWithoutLast

(* A step of another one.                                                   *)
LEMMA OtherKeeps ==
  ASSUME Types, Intact, NEW p \in Proc, p \notin creating, creating' = creating,
         UNCHANGED <<dir, made, names, magic>>, full \subseteq full',
         \A q \in Proc \ {p} : Alike(q), SeenLast(p)'
  PROVE  Intact'
<1>1. \A q \in creating : MakerIntact(q)'
  BY DEF Intact, MakerIntact, Alike, Types, MiscType
<1>2. Whole' = Whole
  BY DEF Whole
<1>3. LastIsWhole'
  BY <1>2 DEF Intact, LastIsWhole
<1>4. \A q \in Proc \ {p} : SeenLast(q)'
  BY DEF Intact, SeenLast, Alike, Stands
<1> QED
  BY <1>1, <1>3, <1>4 DEF Intact

(* A process ends.                                                          *)
LEMMA EndsIntact ==
  ASSUME Types, OneMaker, Intact, NEW p \in Proc, Ends(p),
         p \in creating \/ UNCHANGED <<dir, made, names>>, magic' = magic, full \subseteq full'
  PROVE  Intact'
<1>1. /\ at'[p].step = "closed" /\ creating' = creating \ {p}
      /\ \A q \in Proc \ {p} : Alike(q)
  BY EndsAt DEF Types
<1>2. CASE p \in creating
  <2>1. creating' \subseteq {p} /\ p \notin creating'
    BY <1>1, <1>2, NoneWhileMade
  <2> QED
    BY <1>1, <1>2, <2>1, MakerKeeps
<1>3. CASE p \notin creating
  <2>1. SeenLast(p)'
    BY <1>1 DEF SeenLast, Stands
  <2>2. creating' = creating
    BY <1>1, <1>3
  <2> QED
    BY <1>1, <1>3, <2>1, <2>2, OtherKeeps
<1> QED
  BY <1>2, <1>3

(* A process goes on within map_file(), leaves it or gives up.              *)
LEMMA MapIntact ==
  ASSUME Types, OneMaker, Intact, NEW p \in Proc, creating' = creating,
         UNCHANGED <<dir, made, names, magic>>, full \subseteq full',
         \A q \in Proc \ {p} : Alike(q), at[p].step \in InMap \cup {"stat"},
         at'[p].step # "open", at'[p].file = at[p].file,
         at'[p].step \in {"mmap", "magic"} /\ p \in creating => Fd(p) \in full'
  PROVE  Intact'
<1>1. CASE p \in creating
  <2>1. at[p].step \in InMap
    BY <1>1 DEF OneMaker, Own, Maker, Makes, InMap
  <2>2. Fd(p) = <<made, at[p].file>>
    BY <1>1, <2>1, FdOfMaker
  <2>3. MakerIntact(p)
    BY <1>1 DEF Intact
  <2>4. MakerIntact(p)'
    BY <1>1, <2>2, <2>3 DEF MakerIntact
  <2>5. creating' \subseteq {p}
    BY <1>1, NoneWhileMade
  <2> QED
    BY <1>1, <2>4, <2>5, MakerKeeps
<1>2. CASE p \notin creating
  BY <1>2, OtherKeeps DEF SeenLast, Stands
<1> QED
  BY <1>1, <1>2

LEMMA GivesUpIntact ==
  ASSUME Types, OneMaker, Intact, NEW p \in Proc, GivesUp(p),
         UNCHANGED <<dir, made, names, magic>>, full \subseteq full',
         at[p].step \in InMap \cup {"stat"}
  PROVE  Intact'
<1>1. CASE p \in creating
  <2>1. Goes(p, "unlink", at[p].file) /\ Mapped(p) /\ UNCHANGED <<creating, held>>
    BY <1>1 DEF GivesUp
  <2>2. at'[p].step = "unlink" /\ at'[p].file = at[p].file
    BY <2>1, GoesAt DEF Types
  <2>3. \A q \in Proc \ {p} : Alike(q)
    BY <2>1, MapStepAlike
  <2> QED
    BY <2>1, <2>2, <2>3, MapIntact
<1>2. CASE p \notin creating
  BY <1>2, EndsIntact DEF GivesUp
<1> QED
  BY <1>1, <1>2

LEMMA NextIntact ==
  Types /\ OneMaker /\ (~shrunk => Intact) /\ [Next]_vars => (~shrunk => Intact)'
<1> SUFFICES ASSUME Types, OneMaker, ~shrunk => Intact, [Next]_vars, ~shrunk'
             PROVE  Intact'
  OBVIOUS
<1>a. AtType /\ HeldType /\ SizeType /\ DiskType /\ MiscType /\ NFiles \in Nat \ {0}
  BY DirectoryAssumption DEF Types
<1>b. \A p \in Proc : Own(p)
  BY DEF OneMaker
<1>c. ~shrunk
  <2>1. \A f, n : SetSize(f, n) => ~shrunk
    BY DEF SetSize
  <2> QED
    BY <2>1 DEF Next, Runs, MapSteps, Access, MakeDir, CreateFile, CreateFails, FindFile,
       StatFile, MapStat, MapTruncate, Map, MapFails, Restore, CallFails, WriteMagic, Unlink,
       Undo, Verify, Close, CloseFile, Crash, files, vars
<1>d. Intact
  BY <1>c
<1>1. ASSUME NEW p \in Proc, Access(p) PROVE Intact'
  <2>1. p \notin creating
    BY <1>1, <1>b DEF Access, Stands, Own, Maker, Makes, InMap
  <2>2. at'[p].step \in {"find", "mkdir"} /\ \A q \in Proc \ {p} : at'[q] = at[q]
    BY <1>1, <1>a, GoesAt DEF Access
  <2>3. (\A q \in Proc \ {p} : Alike(q)) /\ SeenLast(p)'
    BY <1>1, <2>2 DEF Access, Alike, SeenLast, Stands
  <2> QED
    BY <1>1, <1>d, <2>1, <2>3, OtherKeeps DEF Access, files
<1>2. ASSUME NEW p \in Proc, MakeDir(p) PROVE Intact'
  <2>1. CASE dir
    BY <1>2, <1>d, <2>1, EndsIntact DEF MakeDir, files
  <2>2. CASE ~dir
    <3>1. creating = {} /\ \A g \in Nat : <<g, NFiles>> \notin magic
      BY <1>a, <1>b, <1>d, <2>2 DEF Own, Maker, MiscType, Intact, LastIsWhole, Whole
    <3>2. /\ at'[p].step = "create" /\ at'[p].file = 1
          /\ \A q \in Proc \ {p} : at'[q] = at[q]
      BY <1>2, <1>a, <2>2, GoesAt DEF MakeDir
    <3>3. \A q \in Proc \ {p} : Alike(q)
      BY <1>2, <2>2, <3>2 DEF MakeDir, Alike
    <3>4. \A q \in Proc : held[q][NFiles] \in Nat
      BY <1>a DEF HeldType, MiscType, File
    <3>5. \A q \in Proc : at[q].step # "open"
      BY <1>d, <3>1, <3>4 DEF Intact, SeenLast, Stands
    <3>6. 1 .. 1 - 1 = {}
      OBVIOUS
    <3>7. MakerIntact(p)'
      BY <3>2, <3>6 DEF MakerIntact
    <3>8. creating' \subseteq {p} /\ magic' = magic
      BY <1>2, <2>2, <3>1 DEF MakeDir, files
    <3> QED
      BY <3>1, <3>2, <3>3, <3>5, <3>7, <3>8, IntactWithoutLast
  <2> QED
    BY <2>1, <2>2
<1>3. ASSUME NEW p \in Proc, CreateFile(p) PROVE Intact'
  <2>1. p \in creating /\ at[p].step = "create"
    BY <1>3, <1>b DEF CreateFile, Stands, Own, Makes, InMap
  <2>2. at[p].file \in File /\ at[p].file \in Nat \ {0}
    BY <1>a, <2>1 DEF AtType, FileSteps, File
  <2>3. /\ at'[p].step = "fstat" /\ at'[p].file = at[p].file
        /\ \A q \in Proc \ {p} : at'[q] = at[q]
    BY <1>3, <1>a, GoesAt DEF CreateFile
  <2>4. \A q \in Proc \ {p} : held'[q] = held[q]
    BY <1>3, <2>2, HoldsType DEF CreateFile
  <2>5. \A q \in Proc \ {p} : Alike(q)
    BY <1>3, <2>3, <2>4 DEF CreateFile, Alike
  <2>6. magic' = magic \ {<<made, at[p].file>>} /\ made' = made /\ creating' = creating
    BY <1>3 DEF CreateFile
  <2>7. MakerIntact(p)
    BY <1>d, <2>1 DEF Intact
  <2>8. MakerIntact(p)'
    BY <2>2, <2>3, <2>6, <2>7 DEF MakerIntact
  <2>9. creating' \subseteq {p}
    BY <1>d, <2>1, <2>6, NoneWhileMade
  <2> QED
    BY <1>d, <2>1, <2>3, <2>5, <2>6, <2>8, <2>9, MakerKeeps
<1>4. ASSUME NEW p \in Proc, CreateFails(p) \/ Unlink(p) PROVE Intact'
  <2>1. p \in creating /\ at[p].step \in {"create", "unlink"}
    BY <1>4, <1>b DEF CreateFails, Unlink, Stands, Own, Makes, InMap
  <2>2. at[p].file \in Nat \ {0}
    BY <1>a, <2>1 DEF AtType, FileSteps, File
  <2>3. /\ at'[p].step = "undo" /\ at'[p].file = at[p].file - 1
        /\ \A q \in Proc \ {p} : at'[q] = at[q]
    BY <1>4, <1>a DEF CreateFails, Unlink, Goes, AtType
  <2>4. \A q \in Proc \ {p} : Alike(q)
    BY <1>4, <2>3 DEF CreateFails, Unlink, Alike
  <2>5. UNCHANGED <<made, magic, creating>>
    BY <1>4 DEF CreateFails, Unlink, files
  <2>6. MakerIntact(p)
    BY <1>d, <2>1 DEF Intact
  <2>7. MakerIntact(p)'
    BY <2>2, <2>3, <2>5, <2>6 DEF MakerIntact
  <2>8. creating' \subseteq {p}
    BY <1>d, <2>1, <2>5, NoneWhileMade
  <2> QED
    BY <1>d, <2>1, <2>3, <2>4, <2>5, <2>7, <2>8, MakerKeeps
<1>5. ASSUME NEW p \in Proc, FindFile(p) PROVE Intact'
  <2>1. p \notin creating
    BY <1>5, <1>b DEF FindFile, Stands, Own, Maker, Makes, InMap
  <2>2. at[p].file \in File
    BY <1>5, <1>a DEF FindFile, Stands, AtType, FileSteps
  <2>3. CASE at[p].file \in names
    <3>1. at'[p].step = "stat" /\ \A q \in Proc \ {p} : at'[q] = at[q]
      BY <1>5, <1>a, <2>3, GoesAt DEF FindFile
    <3>2. \A q \in Proc \ {p} : held'[q] = held[q]
      BY <1>5, <2>2, <2>3, HoldsType DEF FindFile
    <3>3. (\A q \in Proc \ {p} : Alike(q)) /\ SeenLast(p)'
      BY <1>5, <2>3, <3>1, <3>2 DEF FindFile, Alike, SeenLast, Stands
    <3> QED
      BY <1>5, <1>d, <2>1, <2>3, <3>3, OtherKeeps DEF FindFile, files
  <2>4. CASE at[p].file \notin names
    BY <1>5, <1>d, <2>4, EndsIntact DEF FindFile, files
  <2> QED
    BY <2>3, <2>4
<1>6. ASSUME NEW p \in Proc, StatFile(p) PROVE Intact'
  <2>1. at'[p].step = "fstat" /\ at'[p].file = at[p].file
    BY <1>6, <1>a, GoesAt DEF StatFile
  <2>2. \A q \in Proc \ {p} : Alike(q)
    BY <1>6, MapStepAlike DEF StatFile
  <2> QED
    BY <1>6, <1>d, <2>1, <2>2, MapIntact DEF StatFile, files, Stands
<1>7. ASSUME NEW p \in Proc, MapStat(p) \/ MapTruncate(p) \/ Map(p) \/ MapFails(p)
      PROVE  Intact'
  <2>1. /\ at[p].step \in InMap /\ at'[p].file = at[p].file
        /\ at'[p].step \in {"ftruncate", "mmap", "magic", "verify", "restore"}
    BY <1>7, <1>a, GoesAt DEF MapStat, MapTruncate, Map, MapFails, Stands, InMap
  <2>2. \A q \in Proc \ {p} : Alike(q)
    BY <1>7, MapStepAlike DEF MapStat, MapTruncate, Map, MapFails
  <2>3. UNCHANGED <<dir, made, names, creating, held, magic>> /\ full \subseteq full'
    BY <1>7, SetSizeKeeps DEF MapStat, MapTruncate, Map, MapFails, files
  <2>4. ASSUME at'[p].step \in {"mmap", "magic"}, p \in creating PROVE Fd(p) \in full'
    <3>1. Fd(p) = <<made, at[p].file>> /\ size[p] = 1
      BY <2>1, <2>4, FdOfMaker
    <3>2. CASE MapTruncate(p)
      BY <3>1, <3>2, SetSizeKeeps DEF MapTruncate
    <3>3. CASE Map(p)
      <4>1. Stands(p, "mmap") /\ UNCHANGED full /\ MakerIntact(p)
        BY <1>d, <2>4, <3>3 DEF Map, files, Intact
      <4> QED
        BY <3>1, <4>1 DEF MakerIntact, Stands
    <3>4. CASE MapStat(p) \/ MapFails(p)
      BY <1>a, <2>4, <3>4, GoesAt DEF MapStat, MapFails
    <3> QED
      BY <1>7, <3>2, <3>3, <3>4
  <2> QED
    BY <1>d, <2>1, <2>2, <2>3, <2>4, MapIntact
<1>8. ASSUME NEW p \in Proc, Restore(p) PROVE Intact'
  <2>1. magic' = magic /\ full \subseteq full'
    BY <1>8, SetSizeKeeps DEF Restore
  <2> QED
    BY <1>8, <1>d, <2>1, GivesUpIntact DEF Restore, Stands, InMap
<1>9. ASSUME NEW p \in Proc, CallFails(p) PROVE Intact'
  BY <1>9, <1>d, GivesUpIntact DEF CallFails, files, InMap
<1>10. ASSUME NEW p \in Proc, WriteMagic(p) PROVE Intact'
  <2>1. p \in creating /\ Maker(p) /\ at[p].step = "magic"
    BY <1>10, <1>b DEF WriteMagic, Stands, Own, Makes, InMap
  <2>2. at[p].file \in Nat \ {0} /\ at[p].file <= NFiles /\ Fd(p) = <<made, at[p].file>>
    BY <1>a, <2>1, FdOfMaker DEF File
  <2>3. MakerIntact(p) /\ creating = {p} /\ \A g \in Nat : <<g, NFiles>> \notin magic
    BY <1>d, <2>1, NoneWhileMade DEF Intact
  <2>4. Fd(p) \in full
    BY <2>1, <2>2, <2>3 DEF MakerIntact
  <2>5. CASE at[p].file < NFiles
    <3>1. /\ at'[p].step = "create" /\ at'[p].file = at[p].file + 1
          /\ \A q \in Proc \ {p} : at'[q] = at[q]
      BY <1>10, <1>a, <2>4, <2>5 DEF WriteMagic, Goes, AtType
    <3>2. \A q \in Proc \ {p} : Alike(q)
      BY <1>10, <2>4, <2>5, <3>1 DEF WriteMagic, Alike
    <3>3. magic' = magic \cup {<<made, at[p].file>>} /\ UNCHANGED <<made, creating>>
      BY <1>10, <2>2, <2>4, <2>5 DEF WriteMagic
    <3>4. \A j \in 1 .. (at[p].file + 1) - 1 : j \in 1 .. at[p].file - 1 \/ j = at[p].file
      BY <2>2
    <3>5. MakerIntact(p)'
      BY <2>3, <3>1, <3>3, <3>4 DEF MakerIntact
    <3>6. \A g \in Nat : <<g, NFiles>> \notin magic'
      BY <2>3, <2>5, <3>3, <2>2
    <3> QED
      BY <1>d, <2>1, <2>3, <3>1, <3>2, <3>3, <3>5, <3>6, MakerKeeps
  <2>6. CASE ~(at[p].file < NFiles)
    <3>1. at'[p].step = "open" /\ \A q \in Proc \ {p} : at'[q] = at[q]
      BY <1>10, <1>a, <2>4, <2>6, GoesAt DEF WriteMagic
    <3>2. at[p].file = NFiles
      BY <1>a, <2>2, <2>6
    <3>3. /\ magic' = magic \cup {<<made, NFiles>>} /\ creating' = {}
          /\ UNCHANGED <<dir, made, names, held>>
      BY <1>10, <2>2, <2>3, <2>4, <2>6, <3>2 DEF WriteMagic
    <3>4. Whole'
      <4>1. dir /\ names = File
        BY <2>1, <3>2 DEF Maker, Makes, InMap, File
      <4>2. \A i \in File : i \in 1 .. at[p].file - 1 \/ i = NFiles
        BY <1>a, <3>2 DEF File
      <4>3. \A i \in File : <<made, i>> \in magic'
        BY <2>3, <3>3, <4>2 DEF MakerIntact
      <4> QED
        BY <3>3, <4>1, <4>3 DEF Whole
    <3>5. LastIsWhole'
      BY <2>3, <3>3, <3>4 DEF LastIsWhole
    <3>6. \A q \in Proc : SeenLast(q)'
      <4>1. SeenLast(p)'
        BY <2>1, <3>2, <3>3 DEF SeenLast, Maker
      <4>2. \A q \in Proc : at[q].step # "open"
        BY <1>d, <2>1, NoneWhileMade
      <4> QED
        BY <3>1, <4>1, <4>2 DEF SeenLast, Stands
    <3> QED
      BY <3>3, <3>5, <3>6 DEF Intact
  <2> QED
    BY <2>5, <2>6
<1>11. ASSUME NEW p \in Proc, Undo(p) PROVE Intact'
  <2>1. p \in creating /\ at[p].step = "undo"
    BY <1>11, <1>b DEF Undo, Stands, Own, Makes, InMap
  <2>2. magic' = magic /\ full' = full /\ made' = made
    BY <1>11 DEF Undo, files
  <2>3. CASE at[p].file > 0
    <3>1. /\ at'[p].step = "undo" /\ at'[p].file = at[p].file - 1
          /\ \A q \in Proc \ {p} : at'[q] = at[q]
      BY <1>11, <1>a, <2>3 DEF Undo, Goes, AtType
    <3>2. (\A q \in Proc \ {p} : Alike(q)) /\ creating' = creating
      BY <1>11, <2>3, <3>1 DEF Undo, Alike
    <3>3. MakerIntact(p) /\ creating = {p} /\ at[p].file \in Nat
      BY <1>a, <1>d, <2>1, NoneWhileMade DEF Intact, AtType
    <3>4. MakerIntact(p)'
      BY <2>2, <3>1, <3>3 DEF MakerIntact
    <3> QED
      BY <1>d, <2>1, <2>2, <3>1, <3>2, <3>3, <3>4, MakerKeeps
  <2>4. CASE ~(at[p].file > 0)
    <3>1. Ends(p)
      BY <1>11, <2>4 DEF Undo
    <3> QED
      BY <1>d, <2>1, <2>2, <3>1, EndsIntact
  <2> QED
    BY <2>3, <2>4
<1>12. ASSUME NEW p \in Proc, Verify(p) \/ Close(p) \/ CloseFile(p) PROVE Intact'
  <2>1. p \notin creating
    BY <1>12, <1>b DEF Verify, Close, CloseFile, Stands, Own, Maker, Makes, InMap
  <2>2. UNCHANGED <<dir, made, names, magic>> /\ full \subseteq full'
    BY <1>12, SetSizeKeeps DEF Verify, Close, CloseFile, files
  <2>3. CASE Ends(p)
    BY <1>d, <2>2, <2>3, EndsIntact
  <2>4. CASE ~Ends(p)
    <3>1. UNCHANGED <<creating, held, size, st_size>>
      BY <1>12, <2>4 DEF Verify, Close, CloseFile
    <3>2. /\ at'[p].step \in {"find", "open", "close"}
          /\ \A q \in Proc \ {p} : at'[q] = at[q]
      BY <1>12, <1>a, <2>4, GoesAt DEF Verify, Close, CloseFile
    <3>3. \A q \in Proc \ {p} : Alike(q)
      BY <3>1, <3>2 DEF Alike
    <3>4. ASSUME at'[p].step = "open" PROVE <<held[p][NFiles], NFiles>> \in magic
      <4>1. Verify(p)
        BY <1>12, <1>a, <2>4, <3>4 DEF Close, CloseFile, Goes, AtType
      <4>2. Fd(p) \in magic /\ at[p].file \in File
        BY <1>a, <2>4, <4>1 DEF Verify, AtType, FileSteps, Stands
      <4>3. ~(at[p].file < NFiles)
        BY <1>a, <2>4, <3>4, <4>1 DEF Verify, Goes, AtType
      <4>4. at[p].file = NFiles
        BY <1>a, <4>2, <4>3 DEF File
      <4> QED
        BY <4>2, <4>4 DEF Fd
    <3>5. SeenLast(p)'
      BY <2>2, <3>1, <3>4 DEF SeenLast, Stands
    <3> QED
      BY <1>d, <2>1, <2>2, <3>1, <3>3, <3>5, OtherKeeps
  <2> QED
    BY <2>3, <2>4
<1>13. ASSUME NEW p \in Proc, Crash(p) PROVE Intact'
  BY <1>13, <1>d, EndsIntact DEF Crash, files
<1>14. CASE UNCHANGED vars
  BY <1>14, <1>d DEF vars, Intact, MakerIntact, LastIsWhole, Whole, SeenLast, Stands
<1> QED
  BY <1>1, <1>2, <1>3, <1>4, <1>5, <1>6, <1>7, <1>8, <1>9, <1>10, <1>11, <1>12, <1>13, <1>14
     DEF Next, Runs, MapSteps
-----------------------------------------------------------------------------
(****************************************************************************)
(* Without a crash, a failed creation leaves nothing.                       *)
(****************************************************************************)
LEMMA KeepsWholeOrNothing ==
  ASSUME WholeOrNothing, UNCHANGED <<dir, made, names, magic>>, creating' = {} => creating = {}
  PROVE  WholeOrNothing'
BY DEF WholeOrNothing, Whole

LEMMA NextWholeOrNothing == IInv /\ [Next]_vars => (crashes = 0 /\ ~shrunk => WholeOrNothing)'
<1> SUFFICES ASSUME IInv, [Next]_vars, crashes' = 0, ~shrunk'
             PROVE  WholeOrNothing'
  OBVIOUS
<1>a. /\ Types /\ OneMaker
      /\ AtType /\ HeldType /\ SizeType /\ DiskType /\ MiscType /\ NFiles \in Nat \ {0}
  BY DirectoryAssumption DEF IInv, Types
<1>b. \A p \in Proc : Own(p)
  BY <1>a DEF OneMaker
<1>c. ~shrunk /\ crashes = 0
  <2>1. \A f, n : SetSize(f, n) => ~shrunk
    BY DEF SetSize
  <2> QED
    BY <1>a, <2>1 DEF Next, Runs, MapSteps, Access, MakeDir, CreateFile, CreateFails, FindFile,
       StatFile, MapStat, MapTruncate, Map, MapFails, Restore, CallFails, WriteMagic, Unlink,
       Undo, Verify, Close, CloseFile, Crash, files, vars, MiscType
<1>d. Intact /\ Intact' /\ WholeOrNothing
  BY <1>a, <1>c, NextIntact DEF IInv
<1>e. ASSUME NEW p \in Proc, Ends(p), p \notin creating PROVE creating' = creating
  BY <1>e DEF Ends
<1>1. ASSUME NEW p \in Proc, MakeDir(p) PROVE WholeOrNothing'
  <2>1. CASE dir
    <3>1. p \notin creating
      BY <1>1, <1>b DEF MakeDir, Stands, Own, Maker, Makes, InMap
    <3> QED
      BY <1>1, <1>d, <1>e, <2>1, <3>1, KeepsWholeOrNothing DEF MakeDir, files
  <2>2. CASE ~dir
    BY <1>1, <2>2 DEF MakeDir, WholeOrNothing
  <2> QED
    BY <2>1, <2>2
<1>2. ASSUME NEW p \in Proc,
             Access(p) \/ FindFile(p) \/ StatFile(p) \/ Verify(p) \/ Close(p) \/ CloseFile(p)
      PROVE  WholeOrNothing'
  <2>1. p \notin creating
    BY <1>2, <1>b DEF Access, FindFile, StatFile, Verify, Close, CloseFile, Stands, Own, Maker,
       Makes, InMap
  <2>2. UNCHANGED <<dir, made, names, magic>>
    BY <1>2, <1>a, SetSizeKeeps
       DEF Access, FindFile, StatFile, Verify, Close, CloseFile, files
  <2>3. creating' = creating
    BY <1>2, <1>e, <2>1 DEF Access, FindFile, StatFile, Verify, Close, CloseFile
  <2> QED
    BY <1>d, <2>2, <2>3, KeepsWholeOrNothing
<1>3. ASSUME NEW p \in Proc,
             \/ MapStat(p) \/ MapTruncate(p) \/ Map(p) \/ MapFails(p) \/ Restore(p) \/ CallFails(p)
      PROVE  WholeOrNothing'
  <2>1. UNCHANGED <<dir, made, names, magic>>
    BY <1>3, <1>a, SetSizeKeeps
       DEF MapStat, MapTruncate, Map, MapFails, Restore, CallFails, files
  <2>2. creating' = creating
    BY <1>3, <1>e DEF MapStat, MapTruncate, Map, MapFails, Restore, CallFails, GivesUp
  <2> QED
    BY <1>d, <2>1, <2>2, KeepsWholeOrNothing
<1>4. ASSUME NEW p \in Proc, CreateFile(p) \/ CreateFails(p) \/ Unlink(p) PROVE WholeOrNothing'
  <2>1. p \in creating /\ creating' = creating
    BY <1>4, <1>b DEF CreateFile, CreateFails, Unlink, Stands, Own, Makes
  <2> QED
    BY <2>1 DEF WholeOrNothing
<1>5. ASSUME NEW p \in Proc, WriteMagic(p) PROVE WholeOrNothing'
  <2>1. p \in creating /\ Maker(p) /\ at[p].step = "magic"
    BY <1>5, <1>b DEF WriteMagic, Stands, Own, Makes
  <2>2. at[p].file \in File /\ Fd(p) = <<made, at[p].file>>
    BY <1>a, <2>1, FdOfMaker
  <2>3. Fd(p) \in full
    BY <1>d, <2>1, <2>2 DEF Intact, MakerIntact
  <2>4. CASE at[p].file < NFiles
    BY <1>5, <2>1, <2>3, <2>4 DEF WriteMagic, WholeOrNothing
  <2>5. CASE ~(at[p].file < NFiles)
    <3>1. at[p].file = NFiles
      BY <1>a, <2>2, <2>5 DEF File
    <3>2. <<made', NFiles>> \in magic' /\ made' \in Nat
      BY <1>5, <1>a, <2>2, <2>3, <3>1 DEF WriteMagic, MiscType
    <3>3. Whole'
      BY <1>d, <3>2 DEF Intact, LastIsWhole
    <3> QED
      BY <3>3 DEF WholeOrNothing
  <2> QED
    BY <2>4, <2>5
<1>6. ASSUME NEW p \in Proc, Undo(p) PROVE WholeOrNothing'
  <2>1. p \in creating /\ Maker(p) /\ at[p].step = "undo"
    BY <1>6, <1>b DEF Undo, Stands, Own, Makes
  <2>2. CASE at[p].file > 0
    BY <1>6, <2>1, <2>2 DEF Undo, WholeOrNothing
  <2>3. CASE ~(at[p].file > 0)
    <3>1. at[p].file \in Nat /\ names = 1 .. at[p].file
      BY <1>a, <2>1 DEF AtType, Maker
    <3>2. names = {}
      BY <2>3, <3>1
    <3> QED
      BY <1>6, <2>3, <3>2 DEF Undo, WholeOrNothing
  <2> QED
    BY <2>2, <2>3
<1>7. ASSUME NEW p \in Proc, Crash(p) PROVE WholeOrNothing'
  BY <1>7, <1>c DEF Crash
<1>8. CASE UNCHANGED vars
  BY <1>8, <1>d, KeepsWholeOrNothing DEF vars
<1> QED
  BY <1>1, <1>2, <1>3, <1>4, <1>5, <1>6, <1>7, <1>8 DEF Next, Runs, MapSteps

-----------------------------------------------------------------------------
(****************************************************************************)
(* Theorems.                                                                *)
(****************************************************************************)
LEMMA InitIInv == Init => IInv
<1> SUFFICES ASSUME Init
             PROVE  IInv
  OBVIOUS
<1>1. Types
  <2>1. AtType
    BY DirectoryAssumption DEF Init, AtType, Steps, FileSteps, InMap
  <2>2. HeldType
    BY DEF Init, HeldType
  <2>3. SizeType
    BY DEF Init, SizeType
  <2>4. DiskType
    BY DEF Init, DiskType
  <2>5. MiscType
    BY DEF Init, MiscType
  <2> QED
    BY <2>1, <2>2, <2>3, <2>4, <2>5 DEF Types
<1>2. OneMaker
  BY DEF Init, OneMaker, Own, Makes
<1>3. Intact /\ WholeOrNothing
  BY DEF Init, Intact, LastIsWhole, SeenLast, Stands, WholeOrNothing
<1> QED
  BY <1>1, <1>2, <1>3 DEF IInv

(* Whatever the processes do, one of them at a time makes or unmakes the    *)
(* directory and knows which files are in it (em_dict.c:572-597, 536-545),  *)
(* and as long as map_file() sets no file back to size 0, the last file has *)
(* its magic only when all of them have.                                    *)
THEOREM Inductive == Spec => []IInv
<1>1. IInv /\ [Next]_vars => IInv'
  BY NextTypes, NextOneMaker, NextIntact, NextWholeOrNothing DEF IInv
<1> QED
  BY InitIInv, <1>1, PTL DEF Spec

(* The type invariant of Directory.                                         *)
THEOREM TypeCorrect == Spec => []TypeOK
<1>1. IInv => TypeOK
  BY DEF IInv, Types, TypeOK, AtType, HeldType, SizeType, DiskType, MiscType
<1> QED
  BY <1>1, Inductive, PTL

(* open() returns with all files of the directory there and complete        *)
(* (em_dict.c:572-597), unless map_file() sets one back to size 0           *)
(* (mapped_file.c:724, 743): without that, nothing that another process     *)
(* does, fails to do or dies doing, can break it.                           *)
THEOREM OpenIsWhole == Spec => []OpenedWhole
<1>1. IInv => OpenedWhole
  <2> SUFFICES ASSUME IInv, ~shrunk, NEW p \in Proc, Stands(p, "open")
               PROVE  Whole /\ held[p][NFiles] = made
    BY DEF OpenedWhole
  <2>1. held[p][NFiles] \in Nat
    BY DirectoryAssumption DEF IInv, Types, HeldType, MiscType, File
  <2>2. <<held[p][NFiles], NFiles>> \in magic
    BY DEF IInv, Intact, SeenLast
  <2> QED
    BY <2>1, <2>2 DEF IInv, Intact, LastIsWhole
<1> QED
  BY <1>1, Inductive, PTL

(* Unless a process died or map_file() set a file back to size 0, a         *)
(* creation that fails leaves no directory (em_dict.c:536-545).             *)
THEOREM FailureLeavesNothing == Spec => []NothingLeftBehind
<1>1. IInv => NothingLeftBehind
  BY DEF IInv, NothingLeftBehind, WholeOrNothing, OneMaker
<1> QED
  BY <1>1, Inductive, PTL

LEMMA SafeKeeps ==
  ASSUME Types, Safe, NEW p \in Proc, UNCHANGED <<dir, made, names>>,
         \A i \in File : <<made, i>> \in magic', \A q \in Proc \ {p} : Alike(q), ~SawEmpty(p)'
  PROVE  Safe'
<1>1. Whole'
  BY DEF Safe, Whole
<1>2. \A q \in Proc \ {p} : ~SawEmpty(q)'
  BY DEF Safe, SawEmpty, Alike
<1> QED
  BY <1>1, <1>2 DEF Safe

(* A directory that is whole stays whole, whatever processes that open it,  *)
(* close it, fail or die do to its files, if none of them is about to set   *)
(* one back to a size of 0 it saw while the directory was being made        *)
(* (mapped_file.c:724, 743).                                                *)
THEOREM WholeStays == Spec => SafeStays
<1>1. ASSUME IInv, Safe, [Next]_vars PROVE Safe'
  <2>a. /\ Types /\ OneMaker /\ Whole
        /\ AtType /\ HeldType /\ SizeType /\ DiskType /\ MiscType /\ NFiles \in Nat \ {0}
    BY <1>1, DirectoryAssumption DEF IInv, Types, Safe
  <2>b. dir /\ (\A i \in File : <<made, i>> \in magic /\ <<made, i>> \in full)
    BY <2>a DEF Whole, DiskType
  <2>c. creating = {} /\ NFiles \in File
    BY <2>a, <2>b DEF OneMaker, Own, Maker, MiscType, File
  <2>d. /\ \A p \in Proc : at[p].step \notin Makes
        /\ \A p \in Proc : at[p].step \notin InMap => size[p] = 1 /\ st_size[p] = 1
    BY <2>a, <2>c DEF OneMaker, Own
  <2>e. ASSUME NEW p \in Proc, at[p].file \in File, held[p][at[p].file] = made
        PROVE  SizeOf(Fd(p)) = 1
    BY <2>b, <2>e DEF SizeOf, Fd
  <2>f. ASSUME NEW p \in Proc, NEW n, SetSize(Fd(p), n), n = 0 => held[p][at[p].file] # made
        PROVE  \A i \in File : <<made, i>> \in magic'
    BY <2>b, <2>f DEF SetSize, Fd
  <2>g. UNCHANGED magic => \A i \in File : <<made, i>> \in magic'
    BY <2>b
  <2>h. ASSUME NEW p \in Proc, Ends(p), UNCHANGED <<dir, made, names>>,
               \A i \in File : <<made, i>> \in magic'
        PROVE  Safe'
    <3>1. at'[p].step = "closed" /\ \A q \in Proc \ {p} : Alike(q)
      BY <2>a, <2>h, EndsAt
    <3> QED
      BY <1>1, <2>a, <2>h, <3>1, SafeKeeps DEF SawEmpty
  <2>1. ASSUME NEW p \in Proc, Access(p) PROVE Safe'
    <3>1. at'[p].step = "find" /\ \A q \in Proc \ {p} : at'[q] = at[q]
      BY <2>1, <2>a, <2>b, GoesAt DEF Access
    <3>2. (\A q \in Proc \ {p} : Alike(q)) /\ ~SawEmpty(p)'
      BY <2>1, <3>1 DEF Access, Alike, SawEmpty
    <3> QED
      BY <1>1, <2>1, <2>a, <2>g, <3>2, SafeKeeps DEF Access, files
  <2>2. ASSUME NEW p \in Proc, MakeDir(p) PROVE Safe'
    BY <2>2, <2>b, <2>g, <2>h DEF MakeDir, files
  <2>3. ASSUME NEW p \in Proc, FindFile(p) PROVE Safe'
    <3>1. at[p].file \in File
      BY <2>3, <2>a DEF FindFile, Stands, AtType, FileSteps
    <3>2. CASE at[p].file \in names
      <4>1. at'[p].step = "stat" /\ \A q \in Proc \ {p} : at'[q] = at[q]
        BY <2>3, <2>a, <3>2, GoesAt DEF FindFile
      <4>2. \A q \in Proc \ {p} : held'[q] = held[q]
        BY <2>3, <2>a, <3>1, <3>2, HoldsType DEF FindFile
      <4>3. (\A q \in Proc \ {p} : Alike(q)) /\ ~SawEmpty(p)'
        BY <2>3, <3>2, <4>1, <4>2 DEF FindFile, Alike, SawEmpty
      <4> QED
        BY <1>1, <2>3, <2>a, <2>g, <4>3, SafeKeeps DEF FindFile, files
    <3>3. CASE at[p].file \notin names
      BY <2>3, <2>g, <2>h, <3>3 DEF FindFile, files
    <3> QED
      BY <3>2, <3>3
  <2>4. ASSUME NEW p \in Proc, StatFile(p) \/ MapStat(p) PROVE Safe'
    <3>1. at[p].step \in {"stat", "fstat"} /\ at[p].file \in File
      BY <2>4, <2>a DEF StatFile, MapStat, Stands, AtType, FileSteps, InMap
    <3>2. at'[p].step \in {"fstat", "ftruncate"} /\ at'[p].file = at[p].file
      BY <2>4, <2>a, GoesAt DEF StatFile, MapStat
    <3>3. \A q \in Proc \ {p} : Alike(q)
      BY <2>4, <2>a, MapStepAlike DEF StatFile, MapStat
    <3>4. held' = held /\ made' = made
      BY <2>4 DEF StatFile, MapStat
    <3>5. ASSUME held[p][at[p].file] = made PROVE 0 \notin {size'[p], st_size'[p]}
      <4>1. SizeOf(Fd(p)) = 1
        BY <2>e, <3>1, <3>5
      <4>2. CASE StatFile(p)
        BY <2>a, <2>d, <4>1, <4>2 DEF StatFile, Stands, InMap, SizeType
      <4>3. CASE MapStat(p)
        <5>1. ~SawEmpty(p) /\ Stands(p, "fstat")
          BY <1>1, <4>3 DEF Safe, MapStat
        <5>2. size[p] # 0
          BY <3>5, <5>1 DEF SawEmpty, Stands
        <5> QED
          BY <2>a, <4>1, <4>3, <5>2 DEF MapStat, SizeType
      <4> QED
        BY <2>4, <4>2, <4>3
    <3>6. ~SawEmpty(p)'
      BY <3>2, <3>4, <3>5 DEF SawEmpty
    <3> QED
      BY <1>1, <2>4, <2>a, <2>g, <3>3, <3>6, SafeKeeps DEF StatFile, MapStat, files
  <2>5. ASSUME NEW p \in Proc, MapTruncate(p) \/ Map(p) \/ MapFails(p) PROVE Safe'
    <3>1. at[p].step \in {"ftruncate", "mmap"} /\ at'[p].file = at[p].file
      BY <2>5, <2>a, GoesAt DEF MapTruncate, Map, MapFails, Stands
    <3>2. ~SawEmpty(p)
      BY <1>1 DEF Safe
    <3>3. \A q \in Proc \ {p} : Alike(q)
      BY <2>5, <2>a, MapStepAlike DEF MapTruncate, Map, MapFails
    <3>4. \A i \in File : <<made, i>> \in magic'
      <4>1. size[p] = 0 => held[p][at[p].file] # made
        BY <3>1, <3>2 DEF SawEmpty
      <4> QED
        BY <2>5, <2>f, <2>g, <4>1 DEF MapTruncate, Map, MapFails, files
    <3>5. UNCHANGED <<dir, made, names, held>>
      BY <2>5 DEF MapTruncate, Map, MapFails
    <3>6. ~SawEmpty(p)'
      <4>1. CASE Map(p)
        BY <2>a, <4>1, MappedSizes DEF Map, SawEmpty
      <4>2. CASE MapTruncate(p) \/ MapFails(p)
        <5>1. UNCHANGED <<size, st_size>>
          BY <4>2 DEF MapTruncate, MapFails
        <5> QED
          BY <3>1, <3>2, <3>5, <5>1 DEF SawEmpty
      <4> QED
        BY <2>5, <4>1, <4>2
    <3> QED
      BY <1>1, <2>a, <3>3, <3>4, <3>5, <3>6, SafeKeeps
  <2>6. ASSUME NEW p \in Proc, Restore(p) \/ CallFails(p) PROVE Safe'
    <3>1. Ends(p) /\ UNCHANGED <<dir, made, names>>
      BY <2>6, <2>c DEF Restore, CallFails, GivesUp
    <3>2. CASE Restore(p)
      <4>1. st_size[p] = 0 => held[p][at[p].file] # made
        BY <1>1, <3>2 DEF Safe, SawEmpty, Restore, Stands
      <4> QED
        BY <2>f, <2>h, <3>1, <3>2, <4>1 DEF Restore
    <3>3. CASE CallFails(p)
      BY <2>g, <2>h, <3>1, <3>3 DEF CallFails, files
    <3> QED
      BY <2>6, <3>2, <3>3
  <2>7. ASSUME NEW p \in Proc, Verify(p) \/ Close(p) \/ CloseFile(p) PROVE Safe'
    <3>1. \A i \in File : <<made, i>> \in magic'
      BY <2>7, <2>f, <2>g DEF Verify, Close, CloseFile, files
    <3>2. UNCHANGED <<dir, made, names>>
      BY <2>7 DEF Verify, Close, CloseFile
    <3>3. CASE Ends(p)
      BY <2>h, <3>1, <3>2, <3>3
    <3>4. CASE ~Ends(p)
      <4>1. UNCHANGED <<creating, held, size, st_size>>
        BY <2>7, <3>4 DEF Verify, Close, CloseFile
      <4>2. /\ at'[p].step \in {"find", "open", "close"}
            /\ \A q \in Proc \ {p} : at'[q] = at[q]
        BY <2>7, <2>a, <3>4, GoesAt DEF Verify, Close, CloseFile
      <4>3. (\A q \in Proc \ {p} : Alike(q)) /\ ~SawEmpty(p)'
        BY <4>1, <4>2 DEF Alike, SawEmpty
      <4> QED
        BY <1>1, <2>a, <3>1, <3>2, <4>3, SafeKeeps
    <3> QED
      BY <3>3, <3>4
  <2>8. ASSUME NEW p \in Proc, Crash(p) PROVE Safe'
    BY <2>8, <2>g, <2>h DEF Crash, files
  <2>9. ASSUME NEW p \in Proc,
               CreateFile(p) \/ CreateFails(p) \/ WriteMagic(p) \/ Unlink(p) \/ Undo(p)
        PROVE  Safe'
    BY <2>9, <2>d DEF CreateFile, CreateFails, WriteMagic, Unlink, Undo, Stands, Makes
  <2>10. CASE UNCHANGED vars
    BY <1>1, <2>10 DEF vars, Safe, Whole, SawEmpty
  <2> QED
    BY <1>1, <2>1, <2>2, <2>3, <2>4, <2>5, <2>6, <2>7, <2>8, <2>9, <2>10 DEF Next, Runs, MapSteps
<1>2. IInv /\ [Next]_vars => [Safe => Safe']_vars
  BY <1>1
<1> QED
  BY <1>2, Inductive, PTL DEF Spec, SafeStays
=============================================================================
