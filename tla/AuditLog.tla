------------------------------ MODULE AuditLog ------------------------------
(***************************************************************************)
(* The append-only JSONL audit log of core/agent/audit.py: writers with a  *)
(* file descriptor each (AuditLog.write, close), the file they share, and  *)
(* the reader that skips what it cannot parse (iter_records, and its twin  *)
(* in core/agent/episodic.py).                                             *)
(*                                                                         *)
(* The file is the sequence of what the calls of os.write put there. A     *)
(* write is one piece: the whole line, or, after a short write or a crash, *)
(* less than that. Where the bytes end matters to the reader, so a torn    *)
(* piece is one of three: all but the newline, a prefix that ends between  *)
(* two characters, a prefix that ends inside a multi-byte character.       *)
(***************************************************************************)
EXTENDS Naturals, Sequences, FiniteSets

CONSTANTS
    Writers,     \* processes that have the log open
    MaxRecords,  \* bound: records written
    MaxFaults,   \* bound: short writes, failing calls, deaths and crashes
    Tears        \* the torn parts that can happen

ASSUME WritersAssumption == Writers # {}
ASSUME LogBoundsAssumption == MaxRecords \in Nat /\ MaxFaults \in Nat
ASSUME TearsAssumption == Tears \subseteq {"unended", "prefix", "split"}

VARIABLES
    file,      \* the pieces in the file, in the page cache or on the disk
    synced,    \* how many of them are on the disk
    state,     \* per writer: no descriptor, a descriptor, or about to sync
    writing,   \* per writer: the record it is about to sync
    issued,    \* records written so far
    returned,  \* the records whose write() returned normally
    short,     \* the records of which os.write took a part only
    faults,    \* faults so far
    torn       \* faults that left a torn piece

vars == <<file, synced, state, writing, issued, returned, short, faults, torn>>

Part == {"whole", "unended", "prefix", "split"}

Piece == [rec : 1..MaxRecords, part : Part]

TypeOK ==
    /\ file \in Seq(Piece)
    /\ synced \in 0..Len(file)
    /\ state \in [Writers -> {"closed", "open", "sync"}]
    /\ writing \in [Writers -> 0..MaxRecords]
    /\ issued \in 0..MaxRecords
    /\ returned \subseteq 1..MaxRecords
    /\ short \subseteq 1..MaxRecords
    /\ faults \in 0..MaxFaults
    /\ torn \in 0..faults

Init ==
    /\ file = <<>> /\ synced = 0
    /\ state = [w \in Writers |-> "closed"]
    /\ writing = [w \in Writers |-> 0]
    /\ issued = 0 /\ returned = {} /\ short = {}
    /\ faults = 0 /\ torn = 0

-----------------------------------------------------------------------------
(* The writer.                                                             *)

(* The operators named ...Slip are variants of the definition that follows *)
(* them, each with a plausible slip; the properties notice every one.      *)

(* _get_fd: the descriptor is opened for appending on the first write.     *)
Open(w) ==
    /\ state[w] = "closed"
    /\ state' = [state EXCEPT ![w] = "open"]
    /\ UNCHANGED <<file, synced, writing, issued, returned, short, faults, torn>>

(* One os.write of the line; O_APPEND puts it at the end of the file,      *)
(* whoever wrote there last. The count os.write returns is not looked at,  *)
(* so a short write (a full disk) goes on like a complete one.             *)
WritePiece(w, part) ==
    /\ state[w] = "open"
    /\ issued < MaxRecords
    /\ issued' = issued + 1
    /\ file' = Append(file, [rec |-> issued', part |-> part])
    /\ writing' = [writing EXCEPT ![w] = issued']
    /\ state' = [state EXCEPT ![w] = "sync"]
    /\ UNCHANGED <<synced, returned>>

Write(w) ==
    /\ WritePiece(w, "whole")
    /\ UNCHANGED <<short, faults, torn>>

WriteShort(w, part) ==
    /\ faults < MaxFaults
    /\ WritePiece(w, part)
    /\ short' = short \union {issued'}
    /\ faults' = faults + 1
    /\ torn' = torn + 1

(* os.fsync makes everything in the file durable, other writers' records   *)
(* included; then write() returns.                                         *)
SyncSlip(w) ==
    /\ state[w] = "sync"
    /\ returned' = returned \union {writing[w]}
    /\ writing' = [writing EXCEPT ![w] = 0]
    /\ state' = [state EXCEPT ![w] = "open"]
    /\ UNCHANGED <<file, synced, issued, short, faults, torn>>

Sync(w) ==
    /\ state[w] = "sync"
    /\ synced' = Len(file)
    /\ returned' = returned \union {writing[w]}
    /\ writing' = [writing EXCEPT ![w] = 0]
    /\ state' = [state EXCEPT ![w] = "open"]
    /\ UNCHANGED <<file, issued, short, faults, torn>>

(* The open, the write or the sync raises: write() does not return         *)
(* normally, and after a failed sync the piece is in the file all the      *)
(* same. An open that raises leaves no descriptor, the others keep it.     *)
Raise(w) ==
    /\ faults < MaxFaults
    /\ faults' = faults + 1
    /\ state' = [state EXCEPT ![w] = IF @ = "sync" THEN "open" ELSE @]
    /\ writing' = [writing EXCEPT ![w] = 0]
    /\ UNCHANGED <<file, synced, issued, returned, short, torn>>

(* close(), or the end of the process at any moment.                       *)
Close(w) ==
    /\ state[w] = "open"
    /\ state' = [state EXCEPT ![w] = "closed"]
    /\ UNCHANGED <<file, synced, writing, issued, returned, short, faults, torn>>

Die(w) ==
    /\ faults < MaxFaults
    /\ state[w] = "sync"
    /\ faults' = faults + 1
    /\ state' = [state EXCEPT ![w] = "closed"]
    /\ writing' = [writing EXCEPT ![w] = 0]
    /\ UNCHANGED <<file, synced, issued, returned, short, torn>>

(* Power is lost: of the pieces not yet on the disk some first ones        *)
(* survive, the last survivor perhaps in part. All writers are new.        *)
Survivors(kept) == SubSeq(file, 1, kept)

TornSurvivors(kept, part) ==
    Append(Survivors(kept), [rec |-> file[kept + 1].rec, part |-> part])

Restart ==
    /\ faults < MaxFaults
    /\ faults' = faults + 1
    /\ synced' = Len(file')
    /\ state' = [w \in Writers |-> "closed"]
    /\ writing' = [w \in Writers |-> 0]
    /\ UNCHANGED <<issued, returned, short>>

CrashClean(kept) ==
    /\ kept \in synced..Len(file)
    /\ file' = Survivors(kept)
    /\ torn' = torn
    /\ Restart

CrashTorn(kept, part) ==
    /\ kept \in synced..(Len(file) - 1)
    /\ file[kept + 1].part = "whole"
    /\ file' = TornSurvivors(kept, part)
    /\ torn' = torn + 1
    /\ Restart

Next ==
    \/ \E w \in Writers :
        \/ Open(w)
        \/ Write(w)
        \/ \E part \in Tears : WriteShort(w, part)
        \/ Sync(w)
        \/ Raise(w)
        \/ Close(w)
        \/ Die(w)
    \/ \E kept \in 0..Len(file) : CrashClean(kept)
    \/ \E kept \in 0..Len(file), part \in Tears : CrashTorn(kept, part)

Spec == Init /\ [][Next]_vars

-----------------------------------------------------------------------------
(* The reader: iter_records on the file as it is.                          *)

(* A line begins the file or follows a newline, and ends with the next     *)
(* newline or with the file. Only a whole piece carries a newline.         *)
Ended(i) == file[i].part = "whole"
LineStarts == {i \in DOMAIN file : i = 1 \/ Ended(i - 1)}
Line(i) == {j \in i..Len(file) : \A k \in i..(j - 1) : ~Ended(k)}

(* A line is valid JSON when it is one record with nothing before or       *)
(* after it; a last line does not need its newline.                        *)
Valid(i) == Line(i) = {i} /\ file[i].part \in {"whole", "unended"}

(* Bytes that are not UTF-8 raise out of the iteration over the lines,     *)
(* where no handler catches them; every other bad line is skipped.         *)
Undecodable == \E i \in DOMAIN file : file[i].part = "split"

Parsed == {i \in LineStarts : Valid(i)}
ReadableSlip ==
    IF Undecodable THEN {}
    ELSE {file[i].rec : i \in {p \in Parsed : \A j \in LineStarts : j < p => Valid(j)}}
Readable ==
    IF Undecodable THEN {} ELSE {file[i].rec : i \in Parsed}

(* The records that are in the file with their newline.                    *)
Whole == {file[i].rec : i \in {j \in DOMAIN file : file[j].part = "whole"}}

-----------------------------------------------------------------------------
(* Properties.                                                             *)

(* The records that are on the disk with their newline.                    *)
OnDisk == {file[i].rec : i \in {j \in 1..synced : file[j].part = "whole"}}

(* When write() has returned, the whole record is on the disk and no crash *)
(* takes any of it away again (fsync before the return), except when       *)
(* os.write took only a part of it: the count it returns is ignored, and   *)
(* the short record is reported like a complete one.                       *)
DurableOnReturn == returned \ short \subseteq OnDisk

(* The reader resynchronises at the next newline: a torn piece costs at    *)
(* most one record that is in the file whole. (iter_records skips a bad    *)
(* line and goes on.)                                                      *)
LossBounded ==
    ~Undecodable => Cardinality(Whole \ Readable) <= torn

(* What the first of them rests on: a record about to be synced is in the  *)
(* file as it was written, wherever other writers have written since.      *)
WritingIsInFile ==
    \A w \in Writers : state[w] = "sync" /\ writing[w] \notin short =>
        \E i \in DOMAIN file : file[i] = [rec |-> writing[w], part |-> "whole"]
=============================================================================
