--------------------------- MODULE EpisodicIndex ---------------------------
(***************************************************************************)
(* Recall of past operations: EpisodicMemory of core/agent/episodic.py,    *)
(* build_index and open_index of rag/index.py, retrieve of                 *)
(* rag/retrieve.py. Sessions on one host share the audit log and the file  *)
(* of the index; nothing locks the two against each other.                 *)
(*                                                                         *)
(* The log is how many records it has; its size is counted in them. A file *)
(* that has been unlinked lives on for those who have it open, so the      *)
(* files are a sequence and the path is the number of one of them. sqlite3 *)
(* creates an empty file on connect, commits the first CREATE TABLE by     *)
(* itself and everything after it in one transaction.                      *)
(***************************************************************************)
EXTENDS Integers, Sequences

CONSTANTS
    Sessions,    \* processes with a memory of the same log
    Nobody,      \* the maker of no index
    Delta,       \* rebuild_delta
    MaxLog,      \* bound: records of the log
    MaxRecalls,  \* bound: recalls
    MaxFaults    \* bound: failing steps and restarts

ASSUME NobodyAssumption == Nobody \notin Sessions
ASSUME DeltaAssumption == Delta \in Nat \ {0}
ASSUME BoundsAssumption == /\ MaxLog \in Nat /\ MaxRecalls \in Nat
                           /\ MaxFaults \in Nat

VARIABLES
    log,        \* records in the audit log
    readable,   \* every byte of the log decodes
    files,      \* the files made so far
    path,       \* the one at index_path, 0 for none
    pc,         \* where each session is in recall
    last,       \* _last_built_size, or None
    loaded,     \* the records a build has read
    conn,       \* the file a connection is to
    at,         \* the size of the log when recall looked at it
    missed,     \* records appended while the last build ran
    answer,     \* what recall returned
    failed,     \* a step of this recall raised
    disturbed,  \* another session touched the path since this one's index stood
    recalls, faults

logVars == <<log, readable>>
fileVars == <<files, path, disturbed>>
buildVars == <<last, loaded, conn, missed>>
vars == <<logVars, fileVars, buildVars, pc, at, answer, failed, recalls,
          faults>>

None == -1

PCs == {"idle", "load", "exists", "unlink", "connect", "create", "commit",
        "size", "usable", "open", "reopen", "read", "answered"}

(* An empty file, one with the table made first, one with everything.      *)
File == [state : {"empty", "begun", "whole"}, records : 0..MaxLog,
         by : Sessions \union {Nobody}]

(* No records is the empty list.                                           *)
Answer == [records : 0..MaxLog, by : Sessions \union {Nobody}]
Nothing == [records |-> 0, by |-> Nobody]

TypeOK ==
    /\ log \in 0..MaxLog
    /\ readable \in BOOLEAN
    /\ files \in Seq(File)
    /\ path \in 0..Len(files)
    /\ pc \in [Sessions -> PCs]
    /\ last \in [Sessions -> 0..MaxLog \union {None}]
    /\ loaded \in [Sessions -> 0..MaxLog]
    /\ conn \in [Sessions -> 0..Len(files)]
    /\ at \in [Sessions -> 0..MaxLog]
    /\ missed \in [Sessions -> 0..MaxLog]
    /\ answer \in [Sessions -> Answer]
    /\ failed \in [Sessions -> BOOLEAN]
    /\ disturbed \in [Sessions -> BOOLEAN]
    /\ recalls \in 0..MaxRecalls
    /\ faults \in 0..MaxFaults

-----------------------------------------------------------------------------
(* The log grows, whoever writes it; a torn write can leave bytes in it    *)
(* that no reader decodes.                                                 *)

LogGrows ==
    /\ log < MaxLog
    /\ log' = log + 1
    /\ UNCHANGED <<readable, fileVars, buildVars, pc, at, answer, failed,
                   recalls, faults>>

LogTears ==
    /\ readable /\ faults < MaxFaults
    /\ readable' = FALSE
    /\ faults' = faults + 1
    /\ UNCHANGED <<log, fileVars, buildVars, pc, at, answer, failed, recalls>>

-----------------------------------------------------------------------------
(* The operators named ...Slip are variants of the definition that follows *)
(* them, each with a plausible slip; the properties notice every one.      *)

Goto(s, label) == pc' = [pc EXCEPT ![s] = label]

(* The session has changed what is at the path: the others did not.        *)
Touch(s) == disturbed' = [t \in Sessions |-> disturbed[t] \/ t # s]

(* The path gets a new file.                                               *)
NewFile(s) ==
    /\ files' = Append(files, [state |-> "empty", records |-> 0, by |-> s])
    /\ path' = Len(files) + 1

ReturnNothing(s) ==
    /\ answer' = [answer EXCEPT ![s] = Nothing]
    /\ Goto(s, "answered")

(* recall, _ensure_index and _needs_rebuild.                               *)
NeedsRebuildSlip(s) == last[s] = None \/ log - last[s] > Delta
NeedsRebuild(s) == last[s] = None \/ log - last[s] >= Delta

Recall(s) ==
    /\ pc[s] = "idle" /\ recalls < MaxRecalls
    /\ recalls' = recalls + 1
    /\ at' = [at EXCEPT ![s] = log]
    /\ failed' = [failed EXCEPT ![s] = FALSE]
    /\ Goto(s, IF ~NeedsRebuild(s) /\ path # 0 THEN "open" ELSE "load")
    /\ UNCHANGED <<logVars, fileVars, buildVars, answer, faults>>

(* _load_audit_records: nothing to index, or a log that cannot be read.    *)
LoadFails(s) ==
    /\ pc[s] = "load" /\ (log = 0 \/ ~readable)
    /\ ReturnNothing(s)
    /\ UNCHANGED <<logVars, fileVars, buildVars, at, failed, recalls, faults>>

LoadSlip(s) ==
    /\ pc[s] = "load" /\ log > 0 /\ readable
    /\ loaded' = [loaded EXCEPT ![s] = log]
    /\ last' = [last EXCEPT ![s] = log]
    /\ Goto(s, "exists")
    /\ UNCHANGED <<logVars, fileVars, conn, missed, at, answer, failed, recalls,
                   faults>>
Load(s) ==
    /\ pc[s] = "load" /\ log > 0 /\ readable
    /\ loaded' = [loaded EXCEPT ![s] = log]
    /\ Goto(s, "exists")
    /\ UNCHANGED <<logVars, fileVars, last, conn, missed, at, answer, failed,
                   recalls, faults>>

(* build_index: the old file goes, then a new one comes.                   *)
Exists(s) ==
    /\ pc[s] = "exists"
    /\ Goto(s, IF path # 0 THEN "unlink" ELSE "connect")
    /\ UNCHANGED <<logVars, fileVars, buildVars, at, answer, failed, recalls,
                   faults>>

Unlink(s) ==
    /\ pc[s] = "unlink" /\ path # 0
    /\ path' = 0
    /\ Touch(s)
    /\ Goto(s, "connect")
    /\ UNCHANGED <<logVars, files, buildVars, at, answer, failed, recalls,
                   faults>>

(* Another session has unlinked it in the meantime: FileNotFoundError.     *)
UnlinkFails(s) ==
    /\ pc[s] = "unlink" /\ path = 0
    /\ ReturnNothing(s)
    /\ UNCHANGED <<logVars, fileVars, buildVars, at, failed, recalls, faults>>

ConnectNew(s) ==
    /\ pc[s] = "connect" /\ path = 0
    /\ NewFile(s) /\ Touch(s)
    /\ conn' = [conn EXCEPT ![s] = Len(files) + 1]
    /\ Goto(s, "create")
    /\ UNCHANGED <<logVars, last, loaded, missed, at, answer, failed, recalls,
                   faults>>

ConnectOther(s) ==
    /\ pc[s] = "connect" /\ path # 0
    /\ conn' = [conn EXCEPT ![s] = path]
    /\ Goto(s, "create")
    /\ UNCHANGED <<logVars, fileVars, last, loaded, missed, at, answer, failed,
                   recalls, faults>>

CreateMeta(s) ==
    /\ pc[s] = "create" /\ files[conn[s]].state = "empty"
    /\ files' = [files EXCEPT ![conn[s]].state = "begun", ![conn[s]].by = s]
    /\ Touch(s)
    /\ Goto(s, "commit")
    /\ UNCHANGED <<logVars, path, buildVars, at, answer, failed,
                   recalls, faults>>

(* Another session builds in the same file: the table already exists.      *)
CreateMetaFails(s) ==
    /\ pc[s] = "create" /\ files[conn[s]].state # "empty"
    /\ ReturnNothing(s)
    /\ UNCHANGED <<logVars, fileVars, buildVars, at, failed, recalls, faults>>

Commit(s) ==
    /\ pc[s] = "commit"
    /\ files' = [files EXCEPT ![conn[s]].state = "whole",
                              ![conn[s]].records = loaded[s]]
    /\ Goto(s, "size")
    /\ UNCHANGED <<logVars, path, disturbed, buildVars, at, answer, failed,
                   recalls, faults>>

(* The size is read when the build is over, not when it began.             *)
RememberSize(s) ==
    /\ pc[s] = "size"
    /\ last' = [last EXCEPT ![s] = log]
    /\ missed' = [missed EXCEPT ![s] = log - loaded[s]]
    /\ disturbed' = [disturbed EXCEPT ![s] = @ /\ path # conn[s]]
    /\ Goto(s, "usable")
    /\ UNCHANGED <<logVars, files, path, loaded, conn, at, answer, failed,
                   recalls, faults>>

Usable(s) ==
    /\ pc[s] = "usable" /\ path # 0
    /\ Goto(s, "open")
    /\ UNCHANGED <<logVars, fileVars, buildVars, at, answer, failed, recalls,
                   faults>>

(* retrieve: the file is looked for, opened, and searched.                 *)
NoFile(s) ==
    /\ pc[s] \in {"usable", "open"} /\ path = 0
    /\ ReturnNothing(s)
    /\ UNCHANGED <<logVars, fileVars, buildVars, at, failed, recalls, faults>>

Open(s) ==
    /\ pc[s] = "open" /\ path # 0
    /\ Goto(s, "reopen")
    /\ UNCHANGED <<logVars, fileVars, buildVars, at, answer, failed, recalls,
                   faults>>

ReopenFile(s) ==
    /\ pc[s] = "reopen" /\ path # 0
    /\ conn' = [conn EXCEPT ![s] = path]
    /\ Goto(s, "read")
    /\ UNCHANGED <<logVars, fileVars, last, loaded, missed, at, answer, failed,
                   recalls, faults>>

(* It has gone since it was looked for: the reader creates an empty one.   *)
ReopenCreates(s) ==
    /\ pc[s] = "reopen" /\ path = 0
    /\ NewFile(s) /\ Touch(s)
    /\ conn' = [conn EXCEPT ![s] = Len(files) + 1]
    /\ Goto(s, "read")
    /\ UNCHANGED <<logVars, last, loaded, missed, at, answer, failed, recalls,
                   faults>>

Read(s) ==
    /\ pc[s] = "read"
    /\ LET f == files[conn[s]]
       IN  answer' = [answer EXCEPT ![s] =
                         IF f.state = "whole"
                         THEN [records |-> f.records, by |-> f.by]
                         ELSE Nothing]
    /\ Goto(s, "answered")
    /\ UNCHANGED <<logVars, fileVars, buildVars, at, failed, recalls, faults>>

(* A step of the build or of the search raises: no memory, no backend, no  *)
(* space. What was committed stays.                                        *)
Fails(s) ==
    /\ pc[s] \in PCs \ {"idle", "answered"} /\ faults < MaxFaults
    /\ faults' = faults + 1
    /\ failed' = [failed EXCEPT ![s] = TRUE]
    /\ ReturnNothing(s)
    /\ UNCHANGED <<logVars, fileVars, buildVars, at, recalls>>

Returned(s) ==
    /\ pc[s] = "answered"
    /\ Goto(s, "idle")
    /\ answer' = [answer EXCEPT ![s] = Nothing]
    /\ at' = [at EXCEPT ![s] = 0]
    /\ loaded' = [loaded EXCEPT ![s] = 0]
    /\ conn' = [conn EXCEPT ![s] = 0]
    /\ UNCHANGED <<logVars, fileVars, last, missed, failed, recalls, faults>>

(* The session dies anywhere and another one starts in its place.          *)
Restart(s) ==
    /\ faults < MaxFaults
    /\ faults' = faults + 1
    /\ Goto(s, "idle")
    /\ last' = [last EXCEPT ![s] = None]
    /\ answer' = [answer EXCEPT ![s] = Nothing]
    /\ at' = [at EXCEPT ![s] = 0]
    /\ loaded' = [loaded EXCEPT ![s] = 0]
    /\ conn' = [conn EXCEPT ![s] = 0]
    /\ missed' = [missed EXCEPT ![s] = 0]
    /\ failed' = [failed EXCEPT ![s] = FALSE]
    /\ UNCHANGED <<logVars, fileVars, recalls>>

Quiet == (\A s \in Sessions : pc[s] = "idle") /\ UNCHANGED vars

Init ==
    /\ log = 0 /\ readable = TRUE
    /\ files = <<>> /\ path = 0
    /\ pc = [s \in Sessions |-> "idle"]
    /\ last = [s \in Sessions |-> None]
    /\ loaded = [s \in Sessions |-> 0] /\ conn = [s \in Sessions |-> 0]
    /\ at = [s \in Sessions |-> 0] /\ missed = [s \in Sessions |-> 0]
    /\ answer = [s \in Sessions |-> Nothing]
    /\ failed = [s \in Sessions |-> FALSE]
    /\ disturbed = [s \in Sessions |-> FALSE]
    /\ recalls = 0 /\ faults = 0

Build(s) ==
    \/ Exists(s) \/ Unlink(s) \/ UnlinkFails(s)
    \/ ConnectNew(s) \/ ConnectOther(s)
    \/ CreateMeta(s) \/ CreateMetaFails(s) \/ Commit(s)

Retrieve(s) ==
    \/ NoFile(s) \/ Open(s) \/ ReopenFile(s) \/ ReopenCreates(s) \/ Read(s)

Next ==
    \/ LogGrows \/ LogTears
    \/ \E s \in Sessions :
          \/ Recall(s) \/ LoadFails(s) \/ Load(s)
          \/ Build(s) \/ RememberSize(s) \/ Usable(s)
          \/ Retrieve(s)
          \/ Fails(s) \/ Returned(s) \/ Restart(s)
    \/ Quiet

Spec == Init /\ [][Next]_vars

-----------------------------------------------------------------------------
(* Properties.                                                             *)

(* How much of the log an answer misses, as it was when recall began.      *)
Lag(s) == at[s] - answer[s].records

(* An answer misses fewer than rebuild_delta records beside those that     *)
(* were appended while its index was built: unless another session built   *)
(* the index that answered.                                                *)
LagIsBounded ==
    \A s \in Sessions :
        (answer[s].by = s /\ pc[s] = "answered") =>
            Lag(s) < Delta + missed[s]

(* Recall finds nothing in a log that has records and can be read only if  *)
(* a step of this very recall failed, or another session has put its hands *)
(* on the file since this one last had its index there: alone, a session   *)
(* heals a failed build with its next recall.                              *)
NothingHasCause ==
    \A s \in Sessions :
        (pc[s] = "answered" /\ answer[s] = Nothing) =>
            at[s] = 0 \/ ~readable \/ failed[s] \/ disturbed[s]

(* Sessions that build at the same time never mix their indexes: what      *)
(* answers is what one build read, never part of one and part of another.  *)
OneMakerPerFile ==
    \A s, t \in Sessions :
        (s # t /\ pc[s] = "commit" /\ pc[t] = "commit") => conn[s] # conn[t]
=============================================================================
