-------------------------- MODULE EpisodicIndex_proofs --------------------------
(***************************************************************************)
(* Theorems about the recall of past operations, for any number of         *)
(* sessions on one index file, of records, recalls and failures.           *)
(***************************************************************************)
EXTENDS EpisodicIndex, TLAPS

LEMMA IndexBounds ==
    /\ MaxLog \in Nat /\ MaxRecalls \in Nat /\ MaxFaults \in Nat
    /\ Delta \in Nat \ {0} /\ Nobody \notin Sessions
BY BoundsAssumption, DeltaAssumption, NobodyAssumption
   DEF BoundsAssumption, DeltaAssumption, NobodyAssumption

-----------------------------------------------------------------------------
(* Types, in three parts.                                                  *)

Flags ==
    /\ readable \in BOOLEAN
    /\ failed \in [Sessions -> BOOLEAN]
    /\ disturbed \in [Sessions -> BOOLEAN]

LEMMA InitFlags == Init => Flags
BY Zenon DEF Init, Flags

LEMMA StepFlags == Flags /\ [Next]_vars => Flags'
<1> SUFFICES ASSUME Flags, [Next]_vars PROVE Flags'
  OBVIOUS
<1>0. Flags
  OBVIOUS
<1>1. CASE LogGrows
  BY <1>0, <1>1 DEF LogGrows, logVars, fileVars, buildVars, Flags
<1>2. CASE LogTears
  BY <1>0, <1>2 DEF LogTears, logVars, fileVars, buildVars, Flags
<1>3. CASE UNCHANGED vars
  BY <1>0, <1>3 DEF vars, logVars, fileVars, buildVars, Flags
<1>4. CASE Quiet
  BY <1>3, <1>4 DEF Quiet
<1>5. ASSUME NEW s \in Sessions, Recall(s) PROVE Flags'
  BY <1>0, <1>5 DEF Recall, NeedsRebuild, Goto, logVars, fileVars,
     buildVars, Flags
<1>6. ASSUME NEW s \in Sessions, LoadFails(s) PROVE Flags'
  BY <1>0, <1>6 DEF LoadFails, ReturnNothing, Goto, logVars, fileVars,
     buildVars, Flags
<1>7. ASSUME NEW s \in Sessions, Load(s) PROVE Flags'
  BY <1>0, <1>7 DEF Load, Goto, logVars, fileVars, buildVars, Flags
<1>8. ASSUME NEW s \in Sessions, Exists(s) PROVE Flags'
  BY <1>0, <1>8 DEF Exists, Goto, logVars, fileVars, buildVars, Flags
<1>9. ASSUME NEW s \in Sessions, Unlink(s) PROVE Flags'
  BY <1>0, <1>9 DEF Unlink, Touch, Goto, logVars, fileVars, buildVars,
     Flags
<1>10. ASSUME NEW s \in Sessions, UnlinkFails(s) PROVE Flags'
  BY <1>0, <1>10 DEF UnlinkFails, ReturnNothing, Goto, logVars, fileVars,
     buildVars, Flags
<1>11. ASSUME NEW s \in Sessions, ConnectNew(s) PROVE Flags'
  BY <1>0, <1>11 DEF ConnectNew, NewFile, Touch, Goto, logVars, fileVars,
     buildVars, Flags
<1>12. ASSUME NEW s \in Sessions, ConnectOther(s) PROVE Flags'
  BY <1>0, <1>12 DEF ConnectOther, Goto, logVars, fileVars, buildVars,
     Flags
<1>13. ASSUME NEW s \in Sessions, CreateMeta(s) PROVE Flags'
  BY <1>0, <1>13 DEF CreateMeta, Touch, Goto, logVars, fileVars, buildVars,
     Flags
<1>14. ASSUME NEW s \in Sessions, CreateMetaFails(s) PROVE Flags'
  BY <1>0, <1>14 DEF CreateMetaFails, ReturnNothing, Goto, logVars,
     fileVars, buildVars, Flags
<1>15. ASSUME NEW s \in Sessions, Commit(s) PROVE Flags'
  BY <1>0, <1>15 DEF Commit, Goto, logVars, fileVars, buildVars, Flags
<1>16. ASSUME NEW s \in Sessions, RememberSize(s) PROVE Flags'
  BY <1>0, <1>16 DEF RememberSize, Goto, logVars, fileVars, buildVars,
     Flags
<1>17. ASSUME NEW s \in Sessions, Usable(s) PROVE Flags'
  BY <1>0, <1>17 DEF Usable, Goto, logVars, fileVars, buildVars, Flags
<1>18. ASSUME NEW s \in Sessions, NoFile(s) PROVE Flags'
  BY <1>0, <1>18 DEF NoFile, ReturnNothing, Goto, logVars, fileVars,
     buildVars, Flags
<1>19. ASSUME NEW s \in Sessions, Open(s) PROVE Flags'
  BY <1>0, <1>19 DEF Open, Goto, logVars, fileVars, buildVars, Flags
<1>20. ASSUME NEW s \in Sessions, ReopenFile(s) PROVE Flags'
  BY <1>0, <1>20 DEF ReopenFile, Goto, logVars, fileVars, buildVars, Flags
<1>21. ASSUME NEW s \in Sessions, ReopenCreates(s) PROVE Flags'
  BY <1>0, <1>21 DEF ReopenCreates, NewFile, Touch, Goto, logVars,
     fileVars, buildVars, Flags
<1>22. ASSUME NEW s \in Sessions, Read(s) PROVE Flags'
  BY <1>0, <1>22 DEF Read, Goto, logVars, fileVars, buildVars, Flags
<1>23. ASSUME NEW s \in Sessions, Fails(s) PROVE Flags'
  BY <1>0, <1>23 DEF Fails, ReturnNothing, Goto, logVars, fileVars,
     buildVars, Flags
<1>24. ASSUME NEW s \in Sessions, Returned(s) PROVE Flags'
  BY <1>0, <1>24 DEF Returned, Goto, logVars, fileVars, buildVars, Flags
<1>25. ASSUME NEW s \in Sessions, Restart(s) PROVE Flags'
  BY <1>0, <1>25 DEF Restart, Goto, logVars, fileVars, buildVars, Flags
<1>26. QED
  BY <1>1, <1>2, <1>3, <1>4, <1>5, <1>6, <1>7, <1>8, <1>9, <1>10, <1>11,
     <1>12, <1>13, <1>14, <1>15, <1>16, <1>17, <1>18, <1>19, <1>20, <1>21,
     <1>22, <1>23, <1>24, <1>25 DEF Next, Build, Retrieve

Counts ==
    /\ log \in 0..MaxLog
    /\ pc \in [Sessions -> PCs]
    /\ last \in [Sessions -> 0..MaxLog \union {None}]
    /\ loaded \in [Sessions -> 0..MaxLog]
    /\ at \in [Sessions -> 0..MaxLog]
    /\ recalls \in 0..MaxRecalls
    /\ faults \in 0..MaxFaults

LEMMA InitCounts == Init => Counts
BY IndexBounds DEF Init, Counts, PCs

LEMMA StepCounts == Counts /\ [Next]_vars => Counts'
<1> SUFFICES ASSUME Counts, [Next]_vars PROVE Counts'
  OBVIOUS
<1>0. Counts /\ MaxLog \in Nat /\ MaxRecalls \in Nat /\ MaxFaults \in Nat
  BY IndexBounds
<1>1. CASE LogGrows
  BY <1>0, <1>1 DEF LogGrows, logVars, fileVars, buildVars, Counts, PCs
<1>2. CASE LogTears
  BY <1>0, <1>2 DEF LogTears, logVars, fileVars, buildVars, Counts, PCs
<1>3. CASE UNCHANGED vars
  BY <1>0, <1>3 DEF vars, logVars, fileVars, buildVars, Counts, PCs
<1>4. CASE Quiet
  BY <1>3, <1>4 DEF Quiet
<1>5. ASSUME NEW s \in Sessions, Recall(s) PROVE Counts'
  BY <1>0, <1>5 DEF Recall, NeedsRebuild, Goto, logVars, fileVars,
     buildVars, Counts, PCs
<1>6. ASSUME NEW s \in Sessions, LoadFails(s) PROVE Counts'
  BY <1>0, <1>6 DEF LoadFails, ReturnNothing, Goto, logVars, fileVars,
     buildVars, Counts, PCs
<1>7. ASSUME NEW s \in Sessions, Load(s) PROVE Counts'
  BY <1>0, <1>7 DEF Load, Goto, logVars, fileVars, buildVars, Counts, PCs
<1>8. ASSUME NEW s \in Sessions, Exists(s) PROVE Counts'
  BY <1>0, <1>8 DEF Exists, Goto, logVars, fileVars, buildVars, Counts, PCs
<1>9. ASSUME NEW s \in Sessions, Unlink(s) PROVE Counts'
  BY <1>0, <1>9 DEF Unlink, Touch, Goto, logVars, fileVars, buildVars,
     Counts, PCs
<1>10. ASSUME NEW s \in Sessions, UnlinkFails(s) PROVE Counts'
  BY <1>0, <1>10 DEF UnlinkFails, ReturnNothing, Goto, logVars, fileVars,
     buildVars, Counts, PCs
<1>11. ASSUME NEW s \in Sessions, ConnectNew(s) PROVE Counts'
  BY <1>0, <1>11 DEF ConnectNew, NewFile, Touch, Goto, logVars, fileVars,
     buildVars, Counts, PCs
<1>12. ASSUME NEW s \in Sessions, ConnectOther(s) PROVE Counts'
  BY <1>0, <1>12 DEF ConnectOther, Goto, logVars, fileVars, buildVars,
     Counts, PCs
<1>13. ASSUME NEW s \in Sessions, CreateMeta(s) PROVE Counts'
  BY <1>0, <1>13 DEF CreateMeta, Touch, Goto, logVars, fileVars, buildVars,
     Counts, PCs
<1>14. ASSUME NEW s \in Sessions, CreateMetaFails(s) PROVE Counts'
  BY <1>0, <1>14 DEF CreateMetaFails, ReturnNothing, Goto, logVars,
     fileVars, buildVars, Counts, PCs
<1>15. ASSUME NEW s \in Sessions, Commit(s) PROVE Counts'
  BY <1>0, <1>15 DEF Commit, Goto, logVars, fileVars, buildVars, Counts,
     PCs
<1>16. ASSUME NEW s \in Sessions, RememberSize(s) PROVE Counts'
  BY <1>0, <1>16 DEF RememberSize, Goto, logVars, fileVars, buildVars,
     Counts, PCs
<1>17. ASSUME NEW s \in Sessions, Usable(s) PROVE Counts'
  BY <1>0, <1>17 DEF Usable, Goto, logVars, fileVars, buildVars, Counts,
     PCs
<1>18. ASSUME NEW s \in Sessions, NoFile(s) PROVE Counts'
  BY <1>0, <1>18 DEF NoFile, ReturnNothing, Goto, logVars, fileVars,
     buildVars, Counts, PCs
<1>19. ASSUME NEW s \in Sessions, Open(s) PROVE Counts'
  BY <1>0, <1>19 DEF Open, Goto, logVars, fileVars, buildVars, Counts, PCs
<1>20. ASSUME NEW s \in Sessions, ReopenFile(s) PROVE Counts'
  BY <1>0, <1>20 DEF ReopenFile, Goto, logVars, fileVars, buildVars,
     Counts, PCs
<1>21. ASSUME NEW s \in Sessions, ReopenCreates(s) PROVE Counts'
  BY <1>0, <1>21 DEF ReopenCreates, NewFile, Touch, Goto, logVars,
     fileVars, buildVars, Counts, PCs
<1>22. ASSUME NEW s \in Sessions, Read(s) PROVE Counts'
  BY <1>0, <1>22 DEF Read, Goto, logVars, fileVars, buildVars, Counts, PCs
<1>23. ASSUME NEW s \in Sessions, Fails(s) PROVE Counts'
  BY <1>0, <1>23 DEF Fails, ReturnNothing, Goto, logVars, fileVars,
     buildVars, Counts, PCs
<1>24. ASSUME NEW s \in Sessions, Returned(s) PROVE Counts'
  BY <1>0, <1>24 DEF Returned, Goto, logVars, fileVars, buildVars, Counts,
     PCs
<1>25. ASSUME NEW s \in Sessions, Restart(s) PROVE Counts'
  BY <1>0, <1>25 DEF Restart, Goto, logVars, fileVars, buildVars, Counts,
     PCs
<1>26. QED
  BY <1>1, <1>2, <1>3, <1>4, <1>5, <1>6, <1>7, <1>8, <1>9, <1>10, <1>11,
     <1>12, <1>13, <1>14, <1>15, <1>16, <1>17, <1>18, <1>19, <1>20, <1>21,
     <1>22, <1>23, <1>24, <1>25 DEF Next, Build, Retrieve

(* A session that works in a file has one, and has read no more than the   *)
(* log has.                                                                *)
Files ==
    /\ files \in Seq(File)
    /\ path \in 0..Len(files)
    /\ conn \in [Sessions -> 0..Len(files)]
    /\ answer \in [Sessions -> Answer]
    /\ missed \in [Sessions -> 0..MaxLog]
    /\ \A s \in Sessions :
          /\ pc[s] \in {"create", "commit", "size", "read"} => conn[s] # 0
          /\ loaded[s] <= log

LEMMA FileAdded ==
    ASSUME NEW s \in Sessions, files \in Seq(File), MaxLog \in Nat, NewFile(s)
    PROVE  /\ files' \in Seq(File) /\ Len(files') = Len(files) + 1
           /\ path' = Len(files) + 1
           /\ \A i \in 1..Len(files) : files'[i] = files[i]
           /\ files'[Len(files) + 1] =
                  [state |-> "empty", records |-> 0, by |-> s]
<1>1. [state |-> "empty", records |-> 0, by |-> s] \in File
  BY DEF File
<1>2. QED
  BY <1>1 DEF NewFile

Begun(fs, c, s) == [fs EXCEPT ![c].state = "begun", ![c].by = s]

LEMMA FileBegun ==
    ASSUME NEW fs \in Seq(File), NEW c \in 1..Len(fs), NEW s \in Sessions
    PROVE  LET gs == Begun(fs, c, s)
           IN  /\ gs \in Seq(File) /\ Len(gs) = Len(fs)
               /\ \A i \in 1..Len(fs) : i # c => gs[i] = fs[i]
               /\ gs[c].state = "begun" /\ gs[c].by = s
               /\ gs[c].records = fs[c].records
<1> DEFINE f == [fs[c] EXCEPT !.state = "begun", !.by = s]
<1>1. fs[c] \in File
  OBVIOUS
<1>2. f \in File /\ f.state = "begun" /\ f.by = s /\ f.records = fs[c].records
  BY <1>1 DEF File
<1>3. Begun(fs, c, s) = [fs EXCEPT ![c] = f]
  BY <1>1 DEF File, Begun
<1> HIDE DEF f
<1>4. QED
  BY <1>2, <1>3

Committed(fs, c, n) ==
    [fs EXCEPT ![c].state = "whole", ![c].records = n]

LEMMA FileCommitted ==
    ASSUME NEW fs \in Seq(File), NEW c \in 1..Len(fs), NEW n \in 0..MaxLog
    PROVE  LET gs == Committed(fs, c, n)
           IN  /\ gs \in Seq(File) /\ Len(gs) = Len(fs)
               /\ \A i \in 1..Len(fs) : i # c => gs[i] = fs[i]
               /\ gs[c].state = "whole" /\ gs[c].records = n
               /\ gs[c].by = fs[c].by
<1> DEFINE f == [fs[c] EXCEPT !.state = "whole", !.records = n]
<1>1. fs[c] \in File
  OBVIOUS
<1>2. f \in File /\ f.state = "whole" /\ f.records = n /\ f.by = fs[c].by
  BY <1>1 DEF File
<1>3. Committed(fs, c, n) = [fs EXCEPT ![c] = f]
  BY <1>1 DEF File, Committed
<1> HIDE DEF f
<1>4. QED
  BY <1>2, <1>3

LEMMA InitFiles == Init => Files
BY IndexBounds DEF Init, Files, Answer, Nothing

LEMMA StepFiles == Counts /\ Files /\ [Next]_vars => Files'
<1> SUFFICES ASSUME Counts, Files, [Next]_vars PROVE Files'
  OBVIOUS
<1>0. /\ Files
      /\ log \in 0..MaxLog /\ MaxLog \in Nat
      /\ pc \in [Sessions -> PCs] /\ loaded \in [Sessions -> 0..MaxLog]
  BY IndexBounds DEF Counts
<1>n. Nothing \in Answer
  BY IndexBounds DEF Nothing, Answer
<1>1. CASE LogGrows
  BY <1>0, <1>n, <1>1 DEF LogGrows, logVars, fileVars, buildVars, Files
<1>2. CASE LogTears
  BY <1>0, <1>n, <1>2 DEF LogTears, logVars, fileVars, buildVars, Files
<1>3. CASE UNCHANGED vars
  BY <1>0, <1>n, <1>3 DEF vars, logVars, fileVars, buildVars, Files
<1>4. CASE Quiet
  BY <1>3, <1>4 DEF Quiet
<1>5. ASSUME NEW s \in Sessions, Recall(s) PROVE Files'
  BY <1>0, <1>n, <1>5 DEF Recall, NeedsRebuild, Goto, logVars, fileVars,
     buildVars, Files
<1>6. ASSUME NEW s \in Sessions, LoadFails(s) PROVE Files'
  BY <1>0, <1>n, <1>6 DEF LoadFails, ReturnNothing, Goto, logVars,
     fileVars, buildVars, Files
<1>7. ASSUME NEW s \in Sessions, Load(s) PROVE Files'
  BY <1>0, <1>n, <1>7 DEF Load, Goto, logVars, fileVars, buildVars, Files
<1>8. ASSUME NEW s \in Sessions, Exists(s) PROVE Files'
  BY <1>0, <1>n, <1>8 DEF Exists, Goto, logVars, fileVars, buildVars, Files
<1>9. ASSUME NEW s \in Sessions, Unlink(s) PROVE Files'
  BY <1>0, <1>n, <1>9 DEF Unlink, Touch, Goto, logVars, fileVars,
     buildVars, Files
<1>10. ASSUME NEW s \in Sessions, UnlinkFails(s) PROVE Files'
  BY <1>0, <1>n, <1>10 DEF UnlinkFails, ReturnNothing, Goto, logVars,
     fileVars, buildVars, Files
<1>11. ASSUME NEW s \in Sessions, ConnectNew(s) PROVE Files'
  <2>1. files' \in Seq(File) /\ Len(files') = Len(files) + 1
        /\ path' = Len(files) + 1
    BY <1>0, <1>11, FileAdded DEF ConnectNew, Files
  <2>2. QED
    BY <1>0, <1>11, <2>1 DEF ConnectNew, Goto, logVars, Files
<1>12. ASSUME NEW s \in Sessions, ConnectOther(s) PROVE Files'
  BY <1>0, <1>n, <1>12 DEF ConnectOther, Goto, logVars, fileVars,
     buildVars, Files
<1>13. ASSUME NEW s \in Sessions, CreateMeta(s) PROVE Files'
  <2>1. conn[s] \in 1..Len(files)
    BY <1>0, <1>13 DEF CreateMeta, Files
  <2>2. files' \in Seq(File) /\ Len(files') = Len(files)
    BY <1>0, <1>13, <2>1, FileBegun DEF CreateMeta, Files, Begun
  <2>3. QED
    BY <1>0, <1>13, <2>2 DEF CreateMeta, Goto, logVars, buildVars, Files
<1>14. ASSUME NEW s \in Sessions, CreateMetaFails(s) PROVE Files'
  BY <1>0, <1>n, <1>14 DEF CreateMetaFails, ReturnNothing, Goto, logVars,
     fileVars, buildVars, Files
<1>15. ASSUME NEW s \in Sessions, Commit(s) PROVE Files'
  <2>1. conn[s] \in 1..Len(files)
    BY <1>0, <1>15 DEF Commit, Files
  <2>2. files' \in Seq(File) /\ Len(files') = Len(files)
    <3>1. files \in Seq(File) /\ loaded[s] \in 0..MaxLog
      BY <1>0 DEF Files
    <3>2. files' = Committed(files, conn[s], loaded[s])
      BY <1>15 DEF Commit, Committed
    <3>3. QED
      BY <2>1, <3>1, <3>2, FileCommitted
  <2>3. QED
    BY <1>0, <1>15, <2>2 DEF Commit, Goto, logVars, buildVars, Files
<1>16. ASSUME NEW s \in Sessions, RememberSize(s) PROVE Files'
  BY <1>0, <1>n, <1>16 DEF RememberSize, Goto, logVars, fileVars,
     buildVars, Files
<1>17. ASSUME NEW s \in Sessions, Usable(s) PROVE Files'
  BY <1>0, <1>n, <1>17 DEF Usable, Goto, logVars, fileVars, buildVars,
     Files
<1>18. ASSUME NEW s \in Sessions, NoFile(s) PROVE Files'
  BY <1>0, <1>n, <1>18 DEF NoFile, ReturnNothing, Goto, logVars, fileVars,
     buildVars, Files
<1>19. ASSUME NEW s \in Sessions, Open(s) PROVE Files'
  BY <1>0, <1>n, <1>19 DEF Open, Goto, logVars, fileVars, buildVars, Files
<1>20. ASSUME NEW s \in Sessions, ReopenFile(s) PROVE Files'
  BY <1>0, <1>n, <1>20 DEF ReopenFile, Goto, logVars, fileVars, buildVars,
     Files
<1>21. ASSUME NEW s \in Sessions, ReopenCreates(s) PROVE Files'
  <2>1. files' \in Seq(File) /\ Len(files') = Len(files) + 1
        /\ path' = Len(files) + 1
    BY <1>0, <1>21, FileAdded DEF ReopenCreates, Files
  <2>2. QED
    BY <1>0, <1>21, <2>1 DEF ReopenCreates, Goto, logVars, Files
<1>22. ASSUME NEW s \in Sessions, Read(s) PROVE Files'
  <2>1. conn[s] \in 1..Len(files)
    BY <1>0, <1>22 DEF Read, Files
  <2>2. files[conn[s]] \in File
    BY <1>0, <2>1 DEF Files
  <2>3. [records |-> files[conn[s]].records, by |-> files[conn[s]].by] \in Answer
    BY <2>2 DEF File, Answer
  <2>4. answer' \in [Sessions -> Answer]
    BY <1>0, <1>n, <1>22, <2>3 DEF Read, Files
  <2>5. QED
    BY <1>0, <1>22, <2>4 DEF Read, Goto, logVars, fileVars, buildVars, Files
<1>23. ASSUME NEW s \in Sessions, Fails(s) PROVE Files'
  BY <1>0, <1>n, <1>23 DEF Fails, ReturnNothing, Goto, logVars, fileVars,
     buildVars, Files
<1>24. ASSUME NEW s \in Sessions, Returned(s) PROVE Files'
  BY <1>0, <1>n, <1>24 DEF Returned, Goto, logVars, fileVars, buildVars,
     Files
<1>25. ASSUME NEW s \in Sessions, Restart(s) PROVE Files'
  BY <1>0, <1>n, <1>25 DEF Restart, Goto, logVars, fileVars, buildVars,
     Files
<1>26. QED
  BY <1>1, <1>2, <1>3, <1>4, <1>5, <1>6, <1>7, <1>8, <1>9, <1>10, <1>11,
     <1>12, <1>13, <1>14, <1>15, <1>16, <1>17, <1>18, <1>19, <1>20, <1>21,
     <1>22, <1>23, <1>24, <1>25 DEF Next, Build, Retrieve

TypeInv == Flags /\ Counts /\ Files

LEMMA IndexTypes == Spec => []TypeInv
<1>1. Init => TypeInv
  BY InitFlags, InitCounts, InitFiles DEF TypeInv
<1>2. TypeInv /\ [Next]_vars => TypeInv'
  BY StepFlags, StepCounts, StepFiles DEF TypeInv
<1>3. QED
  BY <1>1, <1>2, PTL DEF Spec

(* Sessions and files keep the types of their variables: EpisodicMemory,   *)
(* build_index, retrieve.                                                  *)
THEOREM IndexTypeCorrect == Spec => []TypeOK
<1>1. TypeInv => TypeOK
  BY Zenon DEF TypeInv, Flags, Counts, Files, TypeOK
<1>2. QED
  BY <1>1, IndexTypes, PTL

-----------------------------------------------------------------------------
(* Makers. The session that created the table in a file is its maker, and  *)
(* alone in it; the file at the path is not an older one of a session that *)
(* is building.                                                            *)

Making(s) ==
    /\ pc[s] = "commit" =>
          files[conn[s]].state = "begun" /\ files[conn[s]].by = s
    /\ pc[s] = "size" =>
          /\ files[conn[s]].state = "whole" /\ files[conn[s]].by = s
          /\ files[conn[s]].records = loaded[s]
    /\ pc[s] = "connect" => path = 0 \/ files[path].by # s
    /\ pc[s] \in {"create", "commit", "size"} =>
          path = 0 \/ path = conn[s] \/ files[path].by # s
Makers == \A s \in Sessions : Making(s)

LEMMA InitMakers == Init => Makers
BY DEF Init, Makers, Making

LEMMA StepMakers == TypeInv /\ Makers /\ [Next]_vars => Makers'
<1> SUFFICES ASSUME TypeInv, Makers, [Next]_vars PROVE Makers'
  OBVIOUS
<1>0. Makers
  OBVIOUS
<1>t. /\ files \in Seq(File) /\ path \in 0..Len(files)
      /\ pc \in [Sessions -> PCs] /\ conn \in [Sessions -> 0..Len(files)]
      /\ loaded \in [Sessions -> 0..MaxLog]
      /\ \A s \in Sessions :
            pc[s] \in {"create", "commit", "size", "read"} => conn[s] # 0
      /\ MaxLog \in Nat
  BY IndexBounds DEF TypeInv, Counts, Files
<1>1. CASE LogGrows
  BY <1>0, <1>t, <1>1 DEF LogGrows, logVars, fileVars, buildVars, Makers,
     Making
<1>2. CASE LogTears
  BY <1>0, <1>t, <1>2 DEF LogTears, logVars, fileVars, buildVars, Makers,
     Making
<1>3. CASE UNCHANGED vars
  BY <1>0, <1>t, <1>3 DEF vars, logVars, fileVars, buildVars, Makers,
     Making
<1>4. CASE Quiet
  BY <1>3, <1>4 DEF Quiet
<1>5. ASSUME NEW s \in Sessions, Recall(s) PROVE Makers'
  BY <1>0, <1>t, <1>5 DEF Recall, NeedsRebuild, Goto, logVars, fileVars,
     buildVars, Makers, Making
<1>6. ASSUME NEW s \in Sessions, LoadFails(s) PROVE Makers'
  BY <1>0, <1>t, <1>6 DEF LoadFails, ReturnNothing, Goto, logVars,
     fileVars, buildVars, Makers, Making
<1>7. ASSUME NEW s \in Sessions, Load(s) PROVE Makers'
  BY <1>0, <1>t, <1>7 DEF Load, Goto, logVars, fileVars, buildVars, Makers,
     Making
<1>8. ASSUME NEW s \in Sessions, Exists(s) PROVE Makers'
  BY <1>0, <1>t, <1>8 DEF Exists, Goto, logVars, fileVars, buildVars,
     Makers, Making
<1>9. ASSUME NEW s \in Sessions, Unlink(s) PROVE Makers'
  BY <1>0, <1>t, <1>9 DEF Unlink, Touch, Goto, logVars, fileVars,
     buildVars, Makers, Making
<1>10. ASSUME NEW s \in Sessions, UnlinkFails(s) PROVE Makers'
  BY <1>0, <1>t, <1>10 DEF UnlinkFails, ReturnNothing, Goto, logVars,
     fileVars, buildVars, Makers, Making
<1>11. ASSUME NEW s \in Sessions, ConnectNew(s) PROVE Makers'
  BY <1>0, <1>t, <1>11 DEF ConnectNew, NewFile, Touch, Goto, logVars,
     fileVars, buildVars, Makers, Making
<1>12. ASSUME NEW s \in Sessions, ConnectOther(s) PROVE Makers'
  BY <1>0, <1>t, <1>12 DEF ConnectOther, Goto, logVars, fileVars,
     buildVars, Makers, Making
<1>13. ASSUME NEW s \in Sessions, CreateMeta(s) PROVE Makers'
  BY <1>0, <1>t, <1>13 DEF CreateMeta, Touch, Goto, logVars, fileVars,
     buildVars, Makers, Making
<1>14. ASSUME NEW s \in Sessions, CreateMetaFails(s) PROVE Makers'
  BY <1>0, <1>t, <1>14 DEF CreateMetaFails, ReturnNothing, Goto, logVars,
     fileVars, buildVars, Makers, Making
<1>15. ASSUME NEW s \in Sessions, Commit(s) PROVE Makers'
  BY <1>0, <1>t, <1>15 DEF Commit, Goto, logVars, fileVars, buildVars,
     Makers, Making
<1>16. ASSUME NEW s \in Sessions, RememberSize(s) PROVE Makers'
  BY <1>0, <1>t, <1>16 DEF RememberSize, Goto, logVars, fileVars,
     buildVars, Makers, Making
<1>17. ASSUME NEW s \in Sessions, Usable(s) PROVE Makers'
  BY <1>0, <1>t, <1>17 DEF Usable, Goto, logVars, fileVars, buildVars,
     Makers, Making
<1>18. ASSUME NEW s \in Sessions, NoFile(s) PROVE Makers'
  BY <1>0, <1>t, <1>18 DEF NoFile, ReturnNothing, Goto, logVars, fileVars,
     buildVars, Makers, Making
<1>19. ASSUME NEW s \in Sessions, Open(s) PROVE Makers'
  BY <1>0, <1>t, <1>19 DEF Open, Goto, logVars, fileVars, buildVars,
     Makers, Making
<1>20. ASSUME NEW s \in Sessions, ReopenFile(s) PROVE Makers'
  BY <1>0, <1>t, <1>20 DEF ReopenFile, Goto, logVars, fileVars, buildVars,
     Makers, Making
<1>21. ASSUME NEW s \in Sessions, ReopenCreates(s) PROVE Makers'
  BY <1>0, <1>t, <1>21 DEF ReopenCreates, NewFile, Touch, Goto, logVars,
     fileVars, buildVars, Makers, Making
<1>22. ASSUME NEW s \in Sessions, Read(s) PROVE Makers'
  BY <1>0, <1>t, <1>22 DEF Read, Goto, logVars, fileVars, buildVars,
     Makers, Making
<1>23. ASSUME NEW s \in Sessions, Fails(s) PROVE Makers'
  BY <1>0, <1>t, <1>23 DEF Fails, ReturnNothing, Goto, logVars, fileVars,
     buildVars, Makers, Making
<1>24. ASSUME NEW s \in Sessions, Returned(s) PROVE Makers'
  BY <1>0, <1>t, <1>24 DEF Returned, Goto, logVars, fileVars, buildVars,
     Makers, Making
<1>25. ASSUME NEW s \in Sessions, Restart(s) PROVE Makers'
  BY <1>0, <1>t, <1>25 DEF Restart, Goto, logVars, fileVars, buildVars,
     Makers, Making
<1>26. QED
  BY <1>1, <1>2, <1>3, <1>4, <1>5, <1>6, <1>7, <1>8, <1>9, <1>10, <1>11,
     <1>12, <1>13, <1>14, <1>15, <1>16, <1>17, <1>18, <1>19, <1>20, <1>21,
     <1>22, <1>23, <1>24, <1>25 DEF Next, Build, Retrieve

LEMMA IndexMakers == Spec => []Makers
BY InitMakers, StepMakers, IndexTypes, PTL DEF Spec

(* Two sessions never fill the same index: _build_index.                   *)
THEOREM IndexesAreNotMixed == Spec => []OneMakerPerFile
<1>1. Makers => OneMakerPerFile
  BY DEF Makers, Making, OneMakerPerFile
<1>2. QED
  BY <1>1, IndexMakers, PTL

-----------------------------------------------------------------------------
(* Lag. What a session knows of the log is behind recall by less than      *)
(* rebuild_delta, and what its index holds is behind what it knows by the  *)
(* records it missed.                                                      *)

Building == {"exists", "unlink", "connect", "create", "commit", "size"}

Behind(s) ==
    /\ last[s] <= log
    /\ pc[s] \in Building \union {"load"} => at[s] <= log
    /\ pc[s] \in Building => at[s] <= loaded[s] /\ last[s] <= loaded[s]
    /\ pc[s] \in {"usable", "open", "reopen"} => at[s] - last[s] < Delta
    /\ (path # 0 /\ files[path].state = "whole" /\ files[path].by = s) =>
          last[s] - files[path].records <= missed[s]
    /\ (pc[s] = "read" /\ files[conn[s]].state = "whole"
           /\ files[conn[s]].by = s) =>
          at[s] - files[conn[s]].records < Delta + missed[s]
    /\ (pc[s] = "answered" /\ answer[s].by = s) =>
          at[s] - answer[s].records < Delta + missed[s]
AllBehind == \A s \in Sessions : Behind(s)

LEMMA InitBehind == Init => AllBehind
<1> SUFFICES ASSUME Init, NEW s \in Sessions PROVE Behind(s)
  BY DEF AllBehind
<1>1. last[s] = -1 /\ log = 0 /\ pc[s] = "idle" /\ path = 0
  BY DEF Init, None
<1>2. QED
  BY <1>1 DEF Behind, Building

LEMMA StepBehind == TypeInv /\ Makers /\ AllBehind /\ [Next]_vars => AllBehind'
<1> SUFFICES ASSUME TypeInv, Makers, AllBehind, [Next]_vars PROVE AllBehind'
  OBVIOUS
<1>0. AllBehind
  OBVIOUS
<1>t. /\ files \in Seq(File) /\ path \in 0..Len(files)
      /\ log \in 0..MaxLog
      /\ pc \in [Sessions -> PCs] /\ conn \in [Sessions -> 0..Len(files)]
      /\ loaded \in [Sessions -> 0..MaxLog]
      /\ last \in [Sessions -> 0..MaxLog \union {None}]
      /\ at \in [Sessions -> 0..MaxLog] /\ missed \in [Sessions -> 0..MaxLog]
      /\ answer \in [Sessions -> Answer]
      /\ \A s \in Sessions :
            pc[s] \in {"create", "commit", "size", "read"} => conn[s] # 0
      /\ MaxLog \in Nat /\ Delta \in Nat \ {0} /\ Nobody \notin Sessions
      /\ Nothing.by = Nobody /\ None = -1
  BY IndexBounds DEF TypeInv, Counts, Files, Nothing, None
<1>r. \A i \in 1..Len(files) : files[i].records \in 0..MaxLog
  <2>1. ASSUME NEW i \in 1..Len(files) PROVE files[i] \in File
    BY <1>t
  <2>2. QED
    BY <2>1 DEF File
<1>1. CASE LogGrows
  <2> SUFFICES ASSUME NEW t \in Sessions PROVE Behind(t)'
    BY DEF AllBehind
  <2>1. Behind(t)
    BY <1>0 DEF AllBehind
  <2>2. log' = log + 1
        /\ UNCHANGED <<path, files, pc, conn, loaded, last, at, missed, answer>>
    BY <1>1 DEF LogGrows, logVars, fileVars, buildVars
  <2>3. last[t] \in Int /\ at[t] \in Int /\ log \in Int
    BY <1>t
  <2>4. QED
    BY <2>1, <2>2, <2>3 DEF Behind, Building
<1>2. CASE LogTears
  BY <1>0, <1>t, <1>2 DEF LogTears, logVars, fileVars, buildVars,
     AllBehind, Behind, Building
<1>3. CASE UNCHANGED vars
  BY <1>0, <1>t, <1>3 DEF vars, logVars, fileVars, buildVars, AllBehind,
     Behind, Building
<1>4. CASE Quiet
  BY <1>3, <1>4 DEF Quiet
<1>5. ASSUME NEW s \in Sessions, Recall(s) PROVE AllBehind'
  <2> SUFFICES ASSUME NEW t \in Sessions PROVE Behind(t)'
    BY DEF AllBehind
  <2>1. Behind(t) /\ Behind(s)
    BY <1>0 DEF AllBehind
  <2>3. CASE t # s
    BY <1>t, <1>5, <2>1, <2>3 DEF Recall, NeedsRebuild, Goto, logVars,
       fileVars, buildVars, Behind, Building
  <2>4. CASE t = s
    BY <1>t, <1>r, <1>5, <2>1, <2>4 DEF Recall, NeedsRebuild, Goto, logVars,
       fileVars, buildVars, Behind, Building
  <2>5. QED
    BY <2>3, <2>4
<1>6. ASSUME NEW s \in Sessions, LoadFails(s) PROVE AllBehind'
  BY <1>0, <1>t, <1>6 DEF LoadFails, ReturnNothing, Goto, logVars,
     fileVars, buildVars, AllBehind, Behind, Building
<1>7. ASSUME NEW s \in Sessions, Load(s) PROVE AllBehind'
  BY <1>0, <1>t, <1>7 DEF Load, Goto, logVars, fileVars, buildVars,
     AllBehind, Behind, Building
<1>8. ASSUME NEW s \in Sessions, Exists(s) PROVE AllBehind'
  BY <1>0, <1>t, <1>8 DEF Exists, Goto, logVars, fileVars, buildVars,
     AllBehind, Behind, Building
<1>9. ASSUME NEW s \in Sessions, Unlink(s) PROVE AllBehind'
  BY <1>0, <1>t, <1>9 DEF Unlink, Touch, Goto, logVars, fileVars,
     buildVars, AllBehind, Behind, Building
<1>10. ASSUME NEW s \in Sessions, UnlinkFails(s) PROVE AllBehind'
  BY <1>0, <1>t, <1>10 DEF UnlinkFails, ReturnNothing, Goto, logVars,
     fileVars, buildVars, AllBehind, Behind, Building
<1>11. ASSUME NEW s \in Sessions, ConnectNew(s) PROVE AllBehind'
  BY <1>0, <1>t, <1>11 DEF ConnectNew, NewFile, Touch, Goto, logVars,
     fileVars, buildVars, AllBehind, Behind, Building
<1>12. ASSUME NEW s \in Sessions, ConnectOther(s) PROVE AllBehind'
  BY <1>0, <1>t, <1>12 DEF ConnectOther, Goto, logVars, fileVars,
     buildVars, AllBehind, Behind, Building
<1>13. ASSUME NEW s \in Sessions, CreateMeta(s) PROVE AllBehind'
  BY <1>0, <1>t, <1>13 DEF CreateMeta, Touch, Goto, logVars, fileVars,
     buildVars, AllBehind, Behind, Building
<1>14. ASSUME NEW s \in Sessions, CreateMetaFails(s) PROVE AllBehind'
  BY <1>0, <1>t, <1>14 DEF CreateMetaFails, ReturnNothing, Goto, logVars,
     fileVars, buildVars, AllBehind, Behind, Building
<1>15. ASSUME NEW s \in Sessions, Commit(s) PROVE AllBehind'
  <2> SUFFICES ASSUME NEW t \in Sessions PROVE Behind(t)'
    BY DEF AllBehind
  <2>1. Behind(t) /\ Behind(s)
    BY <1>0 DEF AllBehind
  <2>2. /\ conn[s] \in 1..Len(files) /\ files[conn[s]].by = s
        /\ path = 0 \/ path = conn[s] \/ files[path].by # s
    BY <1>t, <1>15 DEF Commit, Makers, Making
  <2>3. files' = Committed(files, conn[s], loaded[s])
    BY <1>15 DEF Commit, Committed
  <2>4. /\ \A i \in 1..Len(files) : i # conn[s] => files'[i] = files[i]
        /\ files'[conn[s]].records = loaded[s]
        /\ files'[conn[s]].by = s
    <3>1. files \in Seq(File) /\ loaded[s] \in 0..MaxLog
      BY <1>t
    <3>2. conn[s] \in 1..Len(files) /\ files[conn[s]].by = s
      BY <2>2
    <3> DEFINE gs == Committed(files, conn[s], loaded[s])
    <3>3. /\ \A i \in 1..Len(files) : i # conn[s] => gs[i] = files[i]
          /\ gs[conn[s]].records = loaded[s]
          /\ gs[conn[s]].by = files[conn[s]].by
      BY <3>1, <3>2, FileCommitted
    <3> HIDE DEF gs
    <3>4. files' = gs
      BY <2>3 DEF gs
    <3>5. QED
      BY <3>2, <3>3, <3>4
  <2>5. UNCHANGED <<log, path, conn, loaded, last, at, missed, answer>>
        /\ pc' = [pc EXCEPT ![s] = "size"] /\ pc[s] = "commit"
    BY <1>15 DEF Commit, Goto, logVars, buildVars
  <2>6. CASE t # s
    <3>1. \A i \in 1..Len(files) : files'[i].by = t => files'[i] = files[i]
      BY <2>2, <2>4, <2>6
    <3>2. pc'[t] = pc[t] /\ path \in 0..Len(files)
          /\ conn[t] \in 0..Len(files) /\ (pc[t] = "read" => conn[t] # 0)
      BY <1>t, <2>5, <2>6
    <3>3. QED
      BY <2>1, <2>5, <3>1, <3>2 DEF Behind, Building
  <2>7. CASE t = s
    <3>0. path \in 0..Len(files) /\ Len(files) \in Nat
      BY <1>t
    <3>1. path # 0 /\ files'[path].by = s => files'[path].records = loaded[s]
      <4> SUFFICES ASSUME path # 0, files'[path].by = s, path # conn[s]
                   PROVE  FALSE
        BY <2>4
      <4>1. path \in 1..Len(files)
        BY <3>0
      <4>2. QED
        BY <2>2, <2>4, <4>1
    <3>2. pc'[s] = "size" /\ last[s] \in Int /\ loaded[s] \in Nat
          /\ missed[s] \in Nat
      BY <1>t, <2>5
    <3>3. QED
      BY <2>1, <2>5, <2>7, <3>1, <3>2 DEF Behind, Building
  <2>8. QED
    BY <2>6, <2>7
<1>16. ASSUME NEW s \in Sessions, RememberSize(s) PROVE AllBehind'
  <2> SUFFICES ASSUME NEW t \in Sessions PROVE Behind(t)'
    BY DEF AllBehind
  <2>1. Behind(t) /\ Behind(s)
    BY <1>0 DEF AllBehind
  <2>2. /\ path # 0 /\ files[path].by = s => files[path].records = loaded[s]
        /\ loaded[s] <= log
    BY <1>16 DEF RememberSize, Makers, Making, TypeInv, Files
  <2>3. CASE t # s
    BY <1>t, <1>16, <2>1, <2>3, <2>2 DEF RememberSize, Goto, logVars,
       fileVars, Behind, Building
  <2>4. CASE t = s
    BY <1>t, <1>r, <1>16, <2>1, <2>4, <2>2 DEF RememberSize, Goto, logVars,
       fileVars, Behind, Building
  <2>5. QED
    BY <2>3, <2>4
<1>17. ASSUME NEW s \in Sessions, Usable(s) PROVE AllBehind'
  BY <1>0, <1>t, <1>17 DEF Usable, Goto, logVars, fileVars, buildVars,
     AllBehind, Behind, Building
<1>18. ASSUME NEW s \in Sessions, NoFile(s) PROVE AllBehind'
  BY <1>0, <1>t, <1>18 DEF NoFile, ReturnNothing, Goto, logVars, fileVars,
     buildVars, AllBehind, Behind, Building
<1>19. ASSUME NEW s \in Sessions, Open(s) PROVE AllBehind'
  BY <1>0, <1>t, <1>19 DEF Open, Goto, logVars, fileVars, buildVars,
     AllBehind, Behind, Building
<1>20. ASSUME NEW s \in Sessions, ReopenFile(s) PROVE AllBehind'
  <2> SUFFICES ASSUME NEW t \in Sessions PROVE Behind(t)'
    BY DEF AllBehind
  <2>1. Behind(t) /\ Behind(s)
    BY <1>0 DEF AllBehind
  <2>3. CASE t # s
    BY <1>t, <1>20, <2>1, <2>3 DEF ReopenFile, Goto, logVars, fileVars,
       Behind, Building
  <2>4. CASE t = s
    <3>1. /\ path \in 1..Len(files) /\ pc[s] = "reopen"
          /\ pc'[s] = "read" /\ conn'[s] = path
          /\ UNCHANGED <<log, path, files, loaded, last, at, missed, answer>>
      BY <1>t, <1>20 DEF ReopenFile, Goto, logVars, fileVars
    <3>2. /\ files[path].records \in Int /\ at[s] \in Int /\ last[s] \in Int
          /\ missed[s] \in Int /\ Delta \in Int
      BY <1>t, <1>r, <3>1
    <3>3. QED
      BY <2>1, <2>4, <3>1, <3>2 DEF Behind, Building
  <2>5. QED
    BY <2>3, <2>4
<1>21. ASSUME NEW s \in Sessions, ReopenCreates(s) PROVE AllBehind'
  BY <1>0, <1>t, <1>21 DEF ReopenCreates, NewFile, Touch, Goto, logVars,
     fileVars, buildVars, AllBehind, Behind, Building
<1>22. ASSUME NEW s \in Sessions, Read(s) PROVE AllBehind'
  BY <1>0, <1>t, <1>22 DEF Read, Goto, logVars, fileVars, buildVars,
     AllBehind, Behind, Building
<1>23. ASSUME NEW s \in Sessions, Fails(s) PROVE AllBehind'
  BY <1>0, <1>t, <1>23 DEF Fails, ReturnNothing, Goto, logVars, fileVars,
     buildVars, AllBehind, Behind, Building
<1>24. ASSUME NEW s \in Sessions, Returned(s) PROVE AllBehind'
  BY <1>0, <1>t, <1>24 DEF Returned, Goto, logVars, fileVars, buildVars,
     AllBehind, Behind, Building
<1>25. ASSUME NEW s \in Sessions, Restart(s) PROVE AllBehind'
  <2> SUFFICES ASSUME NEW t \in Sessions PROVE Behind(t)'
    BY DEF AllBehind
  <2>1. Behind(t) /\ Behind(s)
    BY <1>0 DEF AllBehind
  <2>3. CASE t # s
    BY <1>t, <1>25, <2>1, <2>3 DEF Restart, Goto, logVars, fileVars, Behind,
       Building
  <2>4. CASE t = s
    BY <1>t, <1>r, <1>25, <2>1, <2>4 DEF Restart, Goto, logVars, fileVars,
       Behind, Building
  <2>5. QED
    BY <2>3, <2>4
<1>26. QED
  BY <1>1, <1>2, <1>3, <1>4, <1>5, <1>6, <1>7, <1>8, <1>9, <1>10, <1>11,
     <1>12, <1>13, <1>14, <1>15, <1>16, <1>17, <1>18, <1>19, <1>20, <1>21,
     <1>22, <1>23, <1>24, <1>25 DEF Next, Build, Retrieve

LEMMA SessionsBehind == Spec => []AllBehind
BY InitBehind, StepBehind, IndexTypes, IndexMakers, PTL DEF Spec

(* An answer from a session's own index misses fewer than rebuild_delta    *)
(* records and those appended while the index was built: _needs_rebuild,   *)
(* _ensure_index.                                                          *)
THEOREM AnswersLagLittle == Spec => []LagIsBounded
<1>1. AllBehind => LagIsBounded
  BY DEF AllBehind, Behind, LagIsBounded, Lag
<1>2. QED
  BY <1>1, SessionsBehind, PTL

-----------------------------------------------------------------------------
(* Empty answers. As long as nobody else touches the path, a session that  *)
(* would not rebuild has a whole index there, and a build finds what it    *)
(* left: nothing after unlink, an empty file after connect.                *)

Whole(f) == f.state = "whole" /\ f.records > 0

Stale(s) == last[s] = None \/ log - last[s] >= Delta

Standing(s) ==
    /\ pc[s] \in Building => loaded[s] > 0
    /\ (pc[s] = "answered" /\ answer[s] = Nothing) =>
          at[s] = 0 \/ ~readable \/ failed[s] \/ disturbed[s]
    /\ ~disturbed[s] =>
          /\ ~Stale(s) => path # 0 /\ Whole(files[path])
          /\ pc[s] \in Building \union {"load"} => Stale(s)
          /\ pc[s] = "unlink" => path # 0
          /\ pc[s] = "connect" => path = 0
          /\ pc[s] \in {"create", "commit", "size"} => path = conn[s]
          /\ pc[s] = "create" => files[conn[s]].state = "empty"
          /\ pc[s] \in {"usable", "open", "reopen"} =>
                path # 0 /\ Whole(files[path])
          /\ pc[s] = "read" => Whole(files[conn[s]])
AllStanding ==
    /\ \A i \in 1..Len(files) :
          files[i].state = "whole" => files[i].records > 0
    /\ \A s \in Sessions : Standing(s)

LEMMA InitStanding == Init => AllStanding
<1> SUFFICES ASSUME Init, NEW s \in Sessions PROVE Standing(s)
  BY DEF AllStanding, Init
<1>1. last[s] = None /\ log = 0 /\ pc[s] = "idle" /\ path = 0
  BY DEF Init
<1>2. QED
  BY <1>1 DEF Standing, Stale, Building

LEMMA StepStanding ==
    TypeInv /\ Makers /\ AllBehind /\ AllStanding /\ [Next]_vars => AllStanding'
<1> SUFFICES ASSUME TypeInv, Makers, AllBehind, AllStanding, [Next]_vars
              PROVE  AllStanding'
  OBVIOUS
<1>0. AllStanding
  OBVIOUS
<1>t. /\ files \in Seq(File) /\ path \in 0..Len(files)
      /\ log \in 0..MaxLog
      /\ pc \in [Sessions -> PCs] /\ conn \in [Sessions -> 0..Len(files)]
      /\ loaded \in [Sessions -> 0..MaxLog]
      /\ last \in [Sessions -> 0..MaxLog \union {None}]
      /\ at \in [Sessions -> 0..MaxLog]
      /\ answer \in [Sessions -> Answer]
      /\ failed \in [Sessions -> BOOLEAN] /\ disturbed \in [Sessions -> BOOLEAN]
      /\ \A s \in Sessions :
            pc[s] \in {"create", "commit", "size", "read"} => conn[s] # 0
      /\ MaxLog \in Nat /\ Delta \in Nat \ {0} /\ None = -1
  BY IndexBounds DEF TypeInv, Flags, Counts, Files, None
<1>1. CASE LogGrows
  BY <1>0, <1>t, <1>1 DEF LogGrows, logVars, fileVars, buildVars,
     AllStanding, Standing, Building, Stale, Whole
<1>2. CASE LogTears
  BY <1>0, <1>t, <1>2 DEF LogTears, logVars, fileVars, buildVars,
     AllStanding, Standing, Building, Stale, Whole
<1>3. CASE UNCHANGED vars
  BY <1>0, <1>t, <1>3 DEF vars, logVars, fileVars, buildVars, AllStanding,
     Standing, Building, Stale, Whole
<1>4. CASE Quiet
  BY <1>3, <1>4 DEF Quiet
<1>5. ASSUME NEW s \in Sessions, Recall(s) PROVE AllStanding'
  BY <1>0, <1>t, <1>5 DEF Recall, NeedsRebuild, Goto, logVars, fileVars,
     buildVars, AllStanding, Standing, Building, Stale, Whole
<1>6. ASSUME NEW s \in Sessions, LoadFails(s) PROVE AllStanding'
  <2>1. at[s] <= log
    BY <1>6 DEF LoadFails, AllBehind, Behind
  <2>2. QED
    BY <1>0, <1>t, <1>6, <2>1 DEF LoadFails, ReturnNothing, Goto, logVars,
       fileVars, buildVars, AllStanding, Standing, Building, Stale, Whole
<1>7. ASSUME NEW s \in Sessions, Load(s) PROVE AllStanding'
  BY <1>0, <1>t, <1>7 DEF Load, Goto, logVars, fileVars, buildVars,
     AllStanding, Standing, Building, Stale, Whole
<1>8. ASSUME NEW s \in Sessions, Exists(s) PROVE AllStanding'
  BY <1>0, <1>t, <1>8 DEF Exists, Goto, logVars, fileVars, buildVars,
     AllStanding, Standing, Building, Stale, Whole
<1>9. ASSUME NEW s \in Sessions, Unlink(s) PROVE AllStanding'
  BY <1>0, <1>t, <1>9 DEF Unlink, Touch, Goto, logVars, fileVars,
     buildVars, AllStanding, Standing, Building, Stale, Whole
<1>10. ASSUME NEW s \in Sessions, UnlinkFails(s) PROVE AllStanding'
  BY <1>0, <1>t, <1>10 DEF UnlinkFails, ReturnNothing, Goto, logVars,
     fileVars, buildVars, AllStanding, Standing, Building, Stale, Whole
<1>11. ASSUME NEW s \in Sessions, ConnectNew(s) PROVE AllStanding'
  <2>1. /\ Len(files') = Len(files) + 1 /\ path' = Len(files) + 1
        /\ \A i \in 1..Len(files) : files'[i] = files[i]
        /\ files'[Len(files) + 1].state = "empty"
    <3>1. files \in Seq(File) /\ MaxLog \in Nat /\ NewFile(s)
      BY <1>t, <1>11 DEF ConnectNew
    <3>2. [state |-> "empty", records |-> 0, by |-> s].state = "empty"
      OBVIOUS
    <3>3. QED
      BY <3>1, <3>2, FileAdded
  <2>2. /\ pc[s] = "connect" /\ pc'[s] = "create" /\ conn'[s] = Len(files) + 1
        /\ \A t \in Sessions \ {s} : pc'[t] = pc[t] /\ conn'[t] = conn[t]
        /\ disturbed'[s] = disturbed[s]
        /\ \A t \in Sessions \ {s} : disturbed'[t]
        /\ UNCHANGED <<readable, log, last, loaded, at, answer, failed>>
    BY <1>t, <1>11 DEF ConnectNew, Touch, Goto, logVars
  <2>3. \A i \in 1..Len(files') :
           files'[i].state = "whole" => files'[i].records > 0
    <3> SUFFICES ASSUME NEW i \in 1..Len(files'), files'[i].state = "whole"
                 PROVE  files'[i].records > 0
      OBVIOUS
    <3>1. Len(files) \in Nat
      BY <1>t
    <3>2. i \in 1..Len(files) /\ files'[i] = files[i]
      BY <2>1, <3>1
    <3>3. QED
      BY <1>0, <3>2 DEF AllStanding
  <2>4. Standing(s)'
    BY <1>0, <2>1, <2>2 DEF AllStanding, Standing, Stale, Building
  <2>5. ASSUME NEW t \in Sessions \ {s} PROVE Standing(t)'
    BY <1>0, <2>2 DEF AllStanding, Standing, Building
  <2>6. QED
    BY <2>3, <2>4, <2>5 DEF AllStanding
<1>12. ASSUME NEW s \in Sessions, ConnectOther(s) PROVE AllStanding'
  BY <1>0, <1>t, <1>12 DEF ConnectOther, Goto, logVars, fileVars,
     buildVars, AllStanding, Standing, Building, Stale, Whole
<1>13. ASSUME NEW s \in Sessions, CreateMeta(s) PROVE AllStanding'
  <2>1. /\ conn[s] \in 1..Len(files) /\ files[conn[s]].state = "empty"
        /\ files \in Seq(File)
    BY <1>t, <1>13 DEF CreateMeta
  <2> DEFINE gs == Begun(files, conn[s], s)
  <2>2. /\ Len(gs) = Len(files)
        /\ \A i \in 1..Len(files) : i # conn[s] => gs[i] = files[i]
        /\ gs[conn[s]].state = "begun"
    BY <2>1, FileBegun
  <2> HIDE DEF gs
  <2>3. files' = gs
    BY <1>13 DEF CreateMeta, Begun, gs
  <2>4. /\ pc'[s] = "commit" /\ \A t \in Sessions \ {s} : pc'[t] = pc[t]
        /\ pc[s] = "create" /\ disturbed'[s] = disturbed[s]
        /\ \A t \in Sessions \ {s} : disturbed'[t]
        /\ UNCHANGED <<readable, log, path, last, loaded, conn, at, answer,
                        failed>>
    BY <1>t, <1>13 DEF CreateMeta, Touch, Goto, logVars, buildVars
  <2>5. \A i \in 1..Len(files) :
           files'[i].state = "whole" => files'[i].records > 0
    BY <1>0, <2>1, <2>2, <2>3 DEF AllStanding
  <2>6. Standing(s)'
    BY <1>0, <2>4 DEF AllStanding, Standing, Stale, Building
  <2>7. ASSUME NEW t \in Sessions \ {s} PROVE Standing(t)'
    BY <1>0, <2>4 DEF AllStanding, Standing, Building
  <2>8. QED
    BY <2>2, <2>3, <2>5, <2>6, <2>7 DEF AllStanding
<1>14. ASSUME NEW s \in Sessions, CreateMetaFails(s) PROVE AllStanding'
  BY <1>0, <1>t, <1>14 DEF CreateMetaFails, ReturnNothing, Goto, logVars,
     fileVars, buildVars, AllStanding, Standing, Building, Stale, Whole
<1>15. ASSUME NEW s \in Sessions, Commit(s) PROVE AllStanding'
  <2>1. /\ conn[s] \in 1..Len(files) /\ loaded[s] \in 0..MaxLog
        /\ loaded[s] > 0 /\ files[conn[s]].state = "begun"
        /\ files \in Seq(File)
    BY <1>0, <1>t, <1>15 DEF Commit, Makers, Making, AllStanding, Standing,
       Building
  <2> DEFINE gs == Committed(files, conn[s], loaded[s])
  <2>2. /\ Len(gs) = Len(files)
        /\ \A i \in 1..Len(files) : i # conn[s] => gs[i] = files[i]
        /\ gs[conn[s]].state = "whole" /\ gs[conn[s]].records = loaded[s]
    <3>1. files \in Seq(File) /\ conn[s] \in 1..Len(files)
      BY <2>1
    <3>2. loaded[s] \in 0..MaxLog
      BY <2>1
    <3>3. QED
      BY <3>1, <3>2, FileCommitted
  <2> HIDE DEF gs
  <2>3. files' = gs
    BY <1>15 DEF Commit, Committed, gs
  <2>4. /\ pc'[s] = "size" /\ \A t \in Sessions \ {s} : pc'[t] = pc[t]
        /\ pc[s] = "commit"
        /\ UNCHANGED <<readable, log, path, disturbed, last, loaded, conn, at,
                        answer, failed>>
    BY <1>t, <1>15 DEF Commit, Goto, logVars, buildVars
  <2>5. \A i \in 1..Len(files) : Whole(files[i]) => Whole(files'[i])
    BY <2>1, <2>2, <2>3 DEF Whole
  <2>6. \A i \in 1..Len(files) :
           files'[i].state = "whole" => files'[i].records > 0
    BY <1>0, <2>1, <2>2, <2>3 DEF AllStanding
  <2>7. \A i \in 1..Len(files) :
           files[i].state = "empty" => files'[i].state = "empty"
    BY <2>1, <2>2, <2>3
  <2>8. path \in 0..Len(files)
    BY <1>t
  <2>9. Standing(s)'
    BY <1>0, <2>4, <2>5, <2>8 DEF AllStanding, Standing, Stale, Building
  <2>10. ASSUME NEW t \in Sessions \ {s} PROVE Standing(t)'
    <3>1. pc[t] \in {"create", "read"} => conn[t] \in 1..Len(files)
      BY <1>t
    <3>2. QED
      BY <1>0, <2>4, <2>5, <2>7, <2>8, <3>1
         DEF AllStanding, Standing, Stale, Building
  <2>11. QED
    BY <2>2, <2>3, <2>6, <2>9, <2>10 DEF AllStanding
<1>16. ASSUME NEW s \in Sessions, RememberSize(s) PROVE AllStanding'
  <2>1. /\ conn[s] \in 1..Len(files) /\ files[conn[s]].state = "whole"
        /\ files[conn[s]].records = loaded[s] /\ loaded[s] > 0
    BY <1>0, <1>t, <1>16 DEF RememberSize, Makers, Making, AllStanding,
       Standing, Building
  <2>2. /\ pc'[s] = "usable" /\ \A t \in Sessions \ {s} : pc'[t] = pc[t]
        /\ \A t \in Sessions \ {s} :
              last'[t] = last[t] /\ disturbed'[t] = disturbed[t]
        /\ UNCHANGED <<readable, log, files, path, loaded, conn, at, answer,
                        failed>>
    BY <1>t, <1>16 DEF RememberSize, Goto, logVars
  <2>3. ~disturbed'[s] => path = conn[s]
    BY <1>0, <1>t, <1>16 DEF RememberSize, AllStanding, Standing
  <2>4. Standing(s)'
    BY <2>1, <2>2, <2>3 DEF Standing, Building, Whole
  <2>5. ASSUME NEW t \in Sessions \ {s} PROVE Standing(t)'
    BY <1>0, <2>2 DEF AllStanding, Standing, Stale
  <2>6. QED
    BY <1>0, <2>2, <2>4, <2>5 DEF AllStanding
<1>17. ASSUME NEW s \in Sessions, Usable(s) PROVE AllStanding'
  BY <1>0, <1>t, <1>17 DEF Usable, Goto, logVars, fileVars, buildVars,
     AllStanding, Standing, Building, Stale, Whole
<1>18. ASSUME NEW s \in Sessions, NoFile(s) PROVE AllStanding'
  BY <1>0, <1>t, <1>18 DEF NoFile, ReturnNothing, Goto, logVars, fileVars,
     buildVars, AllStanding, Standing, Building, Stale, Whole
<1>19. ASSUME NEW s \in Sessions, Open(s) PROVE AllStanding'
  BY <1>0, <1>t, <1>19 DEF Open, Goto, logVars, fileVars, buildVars,
     AllStanding, Standing, Building, Stale, Whole
<1>20. ASSUME NEW s \in Sessions, ReopenFile(s) PROVE AllStanding'
  BY <1>0, <1>t, <1>20 DEF ReopenFile, Goto, logVars, fileVars, buildVars,
     AllStanding, Standing, Building, Stale, Whole
<1>21. ASSUME NEW s \in Sessions, ReopenCreates(s) PROVE AllStanding'
  BY <1>0, <1>t, <1>21 DEF ReopenCreates, NewFile, Touch, Goto, logVars,
     fileVars, buildVars, AllStanding, Standing, Building, Stale, Whole
<1>22. ASSUME NEW s \in Sessions, Read(s) PROVE AllStanding'
  <2>1. conn[s] \in 1..Len(files)
    BY <1>t, <1>22 DEF Read
  <2>2. /\ pc'[s] = "answered" /\ \A t \in Sessions \ {s} : pc'[t] = pc[t]
        /\ \A t \in Sessions \ {s} : answer'[t] = answer[t]
        /\ UNCHANGED <<readable, log, files, path, disturbed, last, loaded,
                        conn, at, failed>>
    BY <1>t, <1>22 DEF Read, Goto, logVars, fileVars, buildVars
  <2>3. Whole(files[conn[s]]) => answer'[s] # Nothing
    BY <1>t, <1>22 DEF Read, Whole, Nothing
  <2>4. ~disturbed[s] => Whole(files[conn[s]])
    BY <1>0, <1>22 DEF Read, AllStanding, Standing
  <2>5. Standing(s)'
    BY <1>0, <2>2, <2>3, <2>4 DEF AllStanding, Standing, Building, Stale
  <2>6. ASSUME NEW t \in Sessions \ {s} PROVE Standing(t)'
    BY <1>0, <2>2 DEF AllStanding, Standing, Stale
  <2>7. QED
    BY <1>0, <2>2, <2>5, <2>6 DEF AllStanding
<1>23. ASSUME NEW s \in Sessions, Fails(s) PROVE AllStanding'
  BY <1>0, <1>t, <1>23 DEF Fails, ReturnNothing, Goto, logVars, fileVars,
     buildVars, AllStanding, Standing, Building, Stale, Whole
<1>24. ASSUME NEW s \in Sessions, Returned(s) PROVE AllStanding'
  BY <1>0, <1>t, <1>24 DEF Returned, Goto, logVars, fileVars, buildVars,
     AllStanding, Standing, Building, Stale, Whole
<1>25. ASSUME NEW s \in Sessions, Restart(s) PROVE AllStanding'
  BY <1>0, <1>t, <1>25 DEF Restart, Goto, logVars, fileVars, buildVars,
     AllStanding, Standing, Building, Stale, Whole
<1>26. QED
  BY <1>1, <1>2, <1>3, <1>4, <1>5, <1>6, <1>7, <1>8, <1>9, <1>10, <1>11,
     <1>12, <1>13, <1>14, <1>15, <1>16, <1>17, <1>18, <1>19, <1>20, <1>21,
     <1>22, <1>23, <1>24, <1>25 DEF Next, Build, Retrieve


(* An answer without records has a cause: nothing to find, a log nobody    *)
(* can read, a failed step of this recall, or another session at the file. *)
THEOREM EmptyAnswersHaveACause == Spec => []NothingHasCause
<1>1. AllStanding => NothingHasCause
  BY DEF AllStanding, Standing, NothingHasCause
<1>2. QED
  BY <1>1, InitStanding, StepStanding, IndexTypes, IndexMakers,
     SessionsBehind, PTL DEF Spec
=============================================================================
