----------------------------- MODULE Directory -----------------------------
(****************************************************************************)
(* The directory of an EMDict or EMList: how em_dict_open_common() creates  *)
(* or opens it, undoes a creation that failed, and what processes that open *)
(* the same directory at the same time, or die, do to each other.  One step *)
(* is one system call, or one access to the mapped file.                    *)
(*                                                                          *)
(* The files are numbered in the order they are created and opened:         *)
(* index.bin, keys.bin and values.bin, or without keys.bin for an EMList.   *)
(* Of what is in them only the magic matters here, and of their size        *)
(* whether they are empty, 0, or long enough for their header, 1.           *)
(****************************************************************************)
EXTENDS Naturals

CONSTANTS
  Proc,         (* processes, each with one object for this directory *)
  NFiles,       (* 3 for an EMDict, 2 for an EMList *)
  MaxCrashes,   (* bound on the processes that die *)
  MaxFailures   (* bound on the calls that fail for want of disk or memory *)

ASSUME DirectoryAssumption == NFiles \in Nat \ {0}

VARIABLES
  dir,      (* the directory exists *)
  made,     (* how often it was made *)
  names,    (* the files that are in it *)
  full,     (* the files, in a directory or only held open, that are not empty: *)
            (* <<g, i>> is file i of the directory made the g-th time *)
  magic,    (* the files that have their magic *)
  at,       (* the step of open() or close() each process is at, and its file; *)
            (* "closed" also after an error *)
  creating, (* the processes that are in em_dict_create() *)
  held,     (* what the files each process has opened were created for, or 0 *)
  size,     (* the size a process passes to map_file(), 1 outside of it *)
  st_size,  (* the size map_file() has to restore, 1 outside of it *)
  shrunk,   (* history: a file was set back to size 0 *)
  crashes, failures

vars == <<dir, made, names, full, magic, at, creating, held, size, st_size, shrunk,
          crashes, failures>>
files == <<full, magic, shrunk>>

File == 1 .. NFiles

Stands(p, s) == at[p].step = s
Goes(p, s, i) == at' = [at EXCEPT ![p] = [step |-> s, file |-> i]]
Fd(p) == <<held[p][at[p].file], at[p].file>>
SizeOf(f) == IF f \in full THEN 1 ELSE 0

(* ftruncate(): what is cut off is zero when the file grows again.          *)
SetSize(f, n) ==
  /\ full' = IF n = 0 THEN full \ {f} ELSE full \cup {f}
  /\ magic' = IF n = 0 THEN magic \ {f} ELSE magic
  /\ shrunk' = (shrunk \/ (n = 0 /\ f \in full))

(* The process is done with map_file().                                     *)
Mapped(p) == size' = [size EXCEPT ![p] = 1] /\ st_size' = [st_size EXCEPT ![p] = 1]

(* The process has no file open any more.                                   *)
Ends(p) ==
  /\ Goes(p, "closed", 0)
  /\ creating' = creating \ {p}
  /\ held' = [held EXCEPT ![p] = [i \in File |-> 0]]
  /\ Mapped(p)

Init ==
  /\ dir = FALSE /\ made = 0 /\ names = {} /\ full = {} /\ magic = {}
  /\ at = [p \in Proc |-> [step |-> "closed", file |-> 0]]
  /\ creating = {}
  /\ held = [p \in Proc |-> [i \in File |-> 0]]
  /\ size = [p \in Proc |-> 1] /\ st_size = [p \in Proc |-> 1]
  /\ shrunk = FALSE /\ crashes = 0 /\ failures = 0

-----------------------------------------------------------------------------
(* em_dict_open_common(): access() tells whether to create the directory;   *)
(* "XXX: There's an obvious race condition here" (em_dict.c:656).           *)
Access(p) ==
  /\ Stands(p, "closed")
  /\ IF dir THEN Goes(p, "find", 1) ELSE Goes(p, "mkdir", 0)
  /\ UNCHANGED <<dir, made, names, files, creating, held, size, st_size, crashes, failures>>

(* A faulty em_dict_create() that does not mind if mk_dir() fails.          *)
MakeDirAnyway(p) ==
  /\ Stands(p, "mkdir")
  /\ dir' = TRUE
  /\ made' = IF dir THEN made ELSE made + 1
  /\ creating' = creating \cup {p}
  /\ Goes(p, "create", 1)
  /\ UNCHANGED <<names, files, held, size, st_size, crashes, failures>>

(* em_dict_create(): mk_dir() fails if somebody was faster.                 *)
MakeDir(p) ==
  /\ Stands(p, "mkdir")
  /\ IF dir
     THEN Ends(p) /\ UNCHANGED <<dir, made>>
     ELSE /\ dir' = TRUE /\ made' = made + 1
          /\ creating' = creating \cup {p}
          /\ Goes(p, "create", 1)
          /\ UNCHANGED <<held, size, st_size>>
  /\ UNCHANGED <<names, files, crashes, failures>>

(* mapped_file_create(): open() makes an empty file, which map_file() is to *)
(* give its size, ...                                                       *)
CreateFile(p) ==
  /\ Stands(p, "create")
  /\ LET i == at[p].file
     IN  /\ names' = names \cup {i}
         /\ full' = full \ {<<made, i>>} /\ magic' = magic \ {<<made, i>>}
         /\ held' = [held EXCEPT ![p][i] = made]
         /\ Goes(p, "fstat", i)
  /\ UNCHANGED <<dir, made, creating, size, st_size, shrunk, crashes, failures>>

(* ... or fails.                                                            *)
CreateFails(p) ==
  /\ Stands(p, "create") /\ failures < MaxFailures
  /\ failures' = failures + 1
  /\ Goes(p, "undo", at[p].file - 1)
  /\ UNCHANGED <<dir, made, names, files, creating, held, size, st_size, crashes>>

(* em_dict_open_existing(), one file after the other: mapped_file_open()    *)
(* opens it if it is there, ...                                             *)
FindFile(p) ==
  /\ Stands(p, "find")
  /\ LET i == at[p].file
     IN  IF i \in names
         THEN /\ held' = [held EXCEPT ![p][i] = made]
              /\ Goes(p, "stat", i)
              /\ UNCHANGED <<creating, size, st_size>>
         ELSE Ends(p)
  /\ UNCHANGED <<dir, made, names, files, crashes, failures>>

(* ... and takes its size by fstat().                                       *)
StatFile(p) ==
  /\ Stands(p, "stat")
  /\ size' = [size EXCEPT ![p] = SizeOf(Fd(p))]
  /\ Goes(p, "fstat", at[p].file)
  /\ UNCHANGED <<dir, made, names, files, creating, held, st_size, crashes, failures>>

-----------------------------------------------------------------------------
(* map_file(), for files that are created and opened: it looks what size    *)
(* there is to restore, ...                                                 *)
MapStat(p) ==
  /\ Stands(p, "fstat")
  /\ st_size' = [st_size EXCEPT ![p] = SizeOf(Fd(p))]
  /\ Goes(p, "ftruncate", at[p].file)
  /\ UNCHANGED <<dir, made, names, files, creating, held, size, crashes, failures>>

(* ... sets the file to the size it was told, ...                           *)
MapTruncate(p) ==
  /\ Stands(p, "ftruncate")
  /\ SetSize(Fd(p), size[p])
  /\ Goes(p, "mmap", at[p].file)
  /\ UNCHANGED <<dir, made, names, creating, held, size, st_size, crashes, failures>>

(* ... maps it, ...                                                         *)
Map(p) ==
  /\ Stands(p, "mmap") /\ size[p] # 0
  /\ Mapped(p)
  /\ Goes(p, IF p \in creating THEN "magic" ELSE "verify", at[p].file)
  /\ UNCHANGED <<dir, made, names, files, creating, held, crashes, failures>>

(* ... or cannot, as no file of size 0 can be mapped, ...                   *)
MapFails(p) ==
  /\ Stands(p, "mmap")
  /\ \/ size[p] = 0 /\ UNCHANGED failures
     \/ failures < MaxFailures /\ failures' = failures + 1
  /\ Goes(p, "restore", at[p].file)
  /\ UNCHANGED <<dir, made, names, files, creating, held, size, st_size, crashes>>

(* What a process does that cannot map the file: mapped_file_create() has   *)
(* to remove it, while em_dict_open_existing() closes what it has open.     *)
GivesUp(p) ==
  IF p \in creating
  THEN Goes(p, "unlink", at[p].file) /\ Mapped(p) /\ UNCHANGED <<creating, held>>
  ELSE Ends(p)

(* ... and restores the size.                                               *)
Restore(p) ==
  /\ Stands(p, "restore")
  /\ SetSize(Fd(p), st_size[p])
  /\ GivesUp(p)
  /\ UNCHANGED <<dir, made, names, crashes, failures>>

(* fstat(), ftruncate() or, after mmap(), malloc() fail.                    *)
CallFails(p) ==
  /\ at[p].step \in {"stat", "fstat", "ftruncate", "mmap"} /\ failures < MaxFailures
  /\ failures' = failures + 1
  /\ GivesUp(p)
  /\ UNCHANGED <<dir, made, names, files, crashes>>

-----------------------------------------------------------------------------
(* A faulty em_dict_create() that goes on for one file too many.            *)
WriteMagicPast(p) ==
  /\ Stands(p, "magic")
  /\ LET i == at[p].file
     IN  /\ magic' = magic \cup {Fd(p)}
         /\ IF i <= NFiles
            THEN Goes(p, "create", i + 1) /\ UNCHANGED creating
            ELSE Goes(p, "open", 0) /\ creating' = creating \ {p}
  /\ UNCHANGED <<dir, made, names, full, held, size, st_size, shrunk, crashes, failures>>

(* em_dict_create(): the magic is written to the file, which kills the      *)
(* process if somebody has cut off what it has mapped.                      *)
WriteMagic(p) ==
  /\ Stands(p, "magic")
  /\ LET i == at[p].file
     IN  IF Fd(p) \in full
         THEN /\ magic' = magic \cup {Fd(p)}
              /\ IF i < NFiles
                 THEN Goes(p, "create", i + 1) /\ UNCHANGED creating
                 ELSE Goes(p, "open", 0) /\ creating' = creating \ {p}
              /\ UNCHANGED <<held, size, st_size>>
         ELSE Ends(p) /\ UNCHANGED magic
  /\ UNCHANGED <<dir, made, names, full, shrunk, crashes, failures>>

(* A faulty mapped_file_create() that leaves the file it could not map.      *)
UnlinkNot(p) ==
  /\ Stands(p, "unlink")
  /\ Goes(p, "undo", at[p].file - 1)
  /\ UNCHANGED <<dir, made, names, files, creating, held, size, st_size, crashes, failures>>

(* mapped_file_create() failed half way and leaves no file.                 *)
Unlink(p) ==
  /\ Stands(p, "unlink")
  /\ names' = names \ {at[p].file}
  /\ Goes(p, "undo", at[p].file - 1)
  /\ UNCHANGED <<dir, made, files, creating, held, size, st_size, crashes, failures>>

(* A faulty em_dict_create() whose error path stops at index.bin.           *)
UndoShort(p) ==
  /\ Stands(p, "undo")
  /\ IF at[p].file > 1
     THEN /\ names' = names \ {at[p].file}
          /\ Goes(p, "undo", at[p].file - 1)
          /\ UNCHANGED <<dir, creating, held, size, st_size>>
     ELSE dir' = (names # {}) /\ Ends(p) /\ UNCHANGED names
  /\ UNCHANGED <<made, files, crashes, failures>>

(* Labels _err4 to _err2: the files made so far are unlinked and closed in  *)
(* reverse order, then rm_dir(), which only removes an empty directory.     *)
Undo(p) ==
  /\ Stands(p, "undo")
  /\ IF at[p].file > 0
     THEN /\ names' = names \ {at[p].file}
          /\ Goes(p, "undo", at[p].file - 1)
          /\ UNCHANGED <<dir, creating, held, size, st_size>>
     ELSE dir' = (names # {}) /\ Ends(p) /\ UNCHANGED names
  /\ UNCHANGED <<made, files, crashes, failures>>

(* em_dict_open_existing(): the magic is verified; without it the files     *)
(* that are open are closed, and the process dies if the file was cut off.  *)
Verify(p) ==
  /\ Stands(p, "verify")
  /\ LET i == at[p].file
     IN  IF Fd(p) \in magic
         THEN /\ IF i < NFiles THEN Goes(p, "find", i + 1) ELSE Goes(p, "open", 0)
              /\ UNCHANGED <<creating, held, size, st_size>>
         ELSE Ends(p)
  /\ UNCHANGED <<dir, made, names, files, crashes, failures>>

(* em_dict_close(): index.bin is closed, ...                                *)
Close(p) ==
  /\ Stands(p, "open")
  /\ IF NFiles > 1
     THEN Goes(p, "close", 2) /\ UNCHANGED <<creating, held, size, st_size>>
     ELSE Ends(p)
  /\ UNCHANGED <<dir, made, names, files, crashes, failures>>

(* A faulty mapped_file_open() that leaves `eof' 0.                         *)
CloseFileEmpty(p) ==
  /\ Stands(p, "close")
  /\ LET i == at[p].file
     IN  /\ SetSize(Fd(p), 0)
         /\ IF i < NFiles
            THEN Goes(p, "close", i + 1) /\ UNCHANGED <<creating, held, size, st_size>>
            ELSE Ends(p)
  /\ UNCHANGED <<dir, made, names, crashes, failures>>

(* ... the others are set to their eof, if that is not their size already.  *)
CloseFile(p) ==
  /\ Stands(p, "close")
  /\ LET i == at[p].file
     IN  /\ SetSize(Fd(p), 1) \/ UNCHANGED files
         /\ IF i < NFiles
            THEN Goes(p, "close", i + 1) /\ UNCHANGED <<creating, held, size, st_size>>
            ELSE Ends(p)
  /\ UNCHANGED <<dir, made, names, crashes, failures>>

(* The process dies and starts again.                                       *)
Crash(p) ==
  /\ crashes < MaxCrashes
  /\ crashes' = crashes + 1
  /\ Ends(p)
  /\ UNCHANGED <<dir, made, names, files, failures>>

MapSteps(p) == MapStat(p) \/ MapTruncate(p) \/ Map(p) \/ MapFails(p) \/ Restore(p)

Runs(p) ==
  \/ Access(p) \/ MakeDir(p) \/ CreateFile(p) \/ CreateFails(p) \/ FindFile(p)
  \/ StatFile(p) \/ MapSteps(p) \/ CallFails(p) \/ WriteMagic(p) \/ Unlink(p)
  \/ Undo(p) \/ Verify(p) \/ CloseFile(p)

Next == \E p \in Proc : Runs(p) \/ Close(p) \/ Crash(p)

(* A process that wants the directory open tries again after an error, and  *)
(* close() does not stop half way.                                          *)
Spec == Init /\ [][Next]_vars /\ \A p \in Proc : WF_vars(Runs(p))

-----------------------------------------------------------------------------
(****************************************************************************)
(* Properties.                                                              *)
(****************************************************************************)
Steps == {"closed", "mkdir", "create", "find", "stat", "fstat", "ftruncate", "mmap",
          "restore", "magic", "unlink", "undo", "verify", "open", "close"}

TypeOK ==
  /\ dir \in BOOLEAN /\ made \in Nat /\ names \subseteq File
  /\ full \subseteq Nat \X File /\ magic \subseteq full
  /\ at \in [Proc -> [step : Steps, file : 0 .. NFiles]]
  /\ creating \subseteq Proc
  /\ held \in [Proc -> [File -> Nat]]
  /\ size \in [Proc -> 0 .. 1] /\ st_size \in [Proc -> 0 .. 1]
  /\ shrunk \in BOOLEAN /\ crashes \in Nat /\ failures \in Nat

(* All files are there and have their magic.                                *)
Whole == dir /\ names = File /\ \A i \in File : <<made, i>> \in magic

(* A process between open() and map_file()'s last ftruncate() that saw a    *)
(* file of the directory empty.                                             *)
SawEmpty(p) ==
  /\ at[p].step \in {"fstat", "ftruncate", "mmap", "restore"}
  /\ held[p][at[p].file] = made
  /\ 0 \in {size[p], st_size[p]}

(* open() never returns with a directory that is half made, whoever else is *)
(* making it, fails to or died while doing so (em_dict.c:572-597), and the  *)
(* last file it has open is the one that is there.  (The first ones may be  *)
(* those of a creation that was undone meanwhile.)  This is as long as      *)
(* map_file() sets no file back to a size of 0 that somebody saw while it   *)
(* was being created (mapped_file.c:724, 743): nothing but that can break   *)
(* it.                                                                      *)
OpenedWhole ==
  ~shrunk => \A p \in Proc : Stands(p, "open") => Whole /\ held[p][NFiles] = made

(* A directory that is whole stays so, with all its files and their magic,  *)
(* whoever opens and closes it, fails or dies: only a process that has seen *)
(* a file empty while it was being created can wipe it, so that the race of *)
(* open() with a creation is over with the last such process.               *)
Safe == Whole /\ \A p \in Proc : ~SawEmpty(p)
SafeStays == [][Safe => Safe']_vars

(* A creation that fails removes what it made (em_dict.c:536-545), so that  *)
(* the next one finds nothing in its way: unless somebody died or a file    *)
(* was set back to size 0, a directory is whole, or not there, or somebody  *)
(* is still at it.                                                          *)
NothingLeftBehind ==
  crashes = 0 /\ ~shrunk /\ creating = {} => Whole \/ (~dir /\ names = {})

(* Whoever goes on trying opens the directory in the end, although access() *)
(* and mkdir() may disagree and files be found empty or without magic, as   *)
(* long as nobody dies and no file is set back to size 0.                   *)
RetriesSucceed ==
  [](crashes = 0 /\ ~shrunk) => \A p \in Proc : []<>Stands(p, "open")
=============================================================================
