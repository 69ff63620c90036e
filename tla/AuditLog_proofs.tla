--------------------------- MODULE AuditLog_proofs ---------------------------
(***************************************************************************)
(* Theorems about the audit log, for every set of writers and every bound. *)
(***************************************************************************)
EXTENDS AuditLog, SequenceTheorems, FiniteSetTheorems, TLAPS

-----------------------------------------------------------------------------
(* Sequences: one more element, and a prefix.                              *)

LEMMA AppendedPieces ==
    ASSUME NEW S, NEW seq \in Seq(S), NEW e \in S
    PROVE  /\ Append(seq, e) \in Seq(S)
           /\ Len(Append(seq, e)) = Len(seq) + 1
           /\ Append(seq, e)[Len(seq) + 1] = e
           /\ \A n \in 1..Len(seq) : Append(seq, e)[n] = seq[n]
OBVIOUS

LEMMA PrefixPieces ==
    ASSUME NEW S, NEW seq \in Seq(S), NEW k \in 0..Len(seq)
    PROVE  /\ SubSeq(seq, 1, k) \in Seq(S)
           /\ Len(SubSeq(seq, 1, k)) = k
           /\ \A n \in 1..k : SubSeq(seq, 1, k)[n] = seq[n]
<1>1. \A n \in 1..k : seq[n] \in S
  OBVIOUS
<1>2. k \in Int /\ 1 \in Int
  OBVIOUS
<1>3. /\ SubSeq(seq, 1, k) \in Seq(S)
      /\ Len(SubSeq(seq, 1, k)) = IF 1 <= k THEN k - 1 + 1 ELSE 0
      /\ \A i \in 1..(k - 1 + 1) : SubSeq(seq, 1, k)[i] = seq[1 + i - 1]
  BY <1>1, <1>2, SubSeqProperties
<1>4. QED
  BY <1>3

-----------------------------------------------------------------------------
(* Type correctness.                                                       *)

LEMMA BoundsAreNaturals == MaxRecords \in Nat /\ MaxFaults \in Nat
BY LogBoundsAssumption DEF LogBoundsAssumption

LEMMA TearsAreParts == Tears \subseteq Part
BY TearsAssumption DEF TearsAssumption, Part

(* A writer that is about to sync has written a record.                    *)
TypeInv ==
    /\ TypeOK
    /\ \A w \in Writers : state[w] = "sync" => writing[w] # 0

LEMMA InitType == Init => TypeInv
BY BoundsAreNaturals DEF Init, TypeInv, TypeOK

LEMMA WriteType ==
    ASSUME TypeOK, NEW w \in Writers, NEW part \in Part, WritePiece(w, part)
    PROVE  /\ file' \in Seq(Piece) /\ Len(file') = Len(file) + 1
           /\ file'[Len(file) + 1] = [rec |-> writing'[w], part |-> part]
           /\ writing'[w] # 0 /\ issued' \in 1..MaxRecords /\ writing'[w] = issued'
           /\ \A n \in 1..Len(file) : file'[n] = file[n]
           /\ synced' \in 0..Len(file') /\ issued' \in 0..MaxRecords
           /\ state' \in [Writers -> {"closed", "open", "sync"}]
           /\ writing' \in [Writers -> 0..MaxRecords]
           /\ returned' \subseteq 1..MaxRecords
<1> DEFINE piece == [rec |-> issued', part |-> part]
<1>1. issued' \in 1..MaxRecords
  BY BoundsAreNaturals DEF WritePiece, TypeOK
<1>2. piece \in Piece /\ piece.rec = issued'
  BY <1>1 DEF Piece
<1>3. file \in Seq(Piece) /\ file' = Append(file, piece)
  BY DEF WritePiece, TypeOK
<1> HIDE DEF piece
<1>4. /\ file' \in Seq(Piece) /\ Len(file') = Len(file) + 1
      /\ file'[Len(file) + 1] = piece
      /\ \A n \in 1..Len(file) : file'[n] = file[n]
  BY <1>2, <1>3, AppendedPieces
<1>5. writing' = [writing EXCEPT ![w] = issued'] /\ writing'[w] = issued'
  BY DEF WritePiece, TypeOK
<1>6. QED
  BY <1>1, <1>2, <1>4, <1>5 DEF WritePiece, TypeOK, piece

LEMMA SurvivorsType ==
    ASSUME TypeOK, NEW kept \in 0..Len(file)
    PROVE  /\ Survivors(kept) \in Seq(Piece) /\ Len(Survivors(kept)) = kept
           /\ \A n \in 1..kept : Survivors(kept)[n] = file[n]
BY PrefixPieces DEF Survivors, TypeOK

LEMMA TornSurvivorsType ==
    ASSUME TypeOK, NEW kept \in 0..(Len(file) - 1), NEW part \in Part
    PROVE  /\ TornSurvivors(kept, part) \in Seq(Piece)
           /\ Len(TornSurvivors(kept, part)) = kept + 1
           /\ TornSurvivors(kept, part)[kept + 1] = [rec |-> file[kept + 1].rec, part |-> part]
           /\ \A n \in 1..kept : TornSurvivors(kept, part)[n] = file[n]
<1> DEFINE piece == [rec |-> file[kept + 1].rec, part |-> part]
<1>1. file \in Seq(Piece) /\ Len(file) \in Nat /\ kept + 1 \in 1..Len(file)
  BY DEF TypeOK
<1>2. file[kept + 1] \in Piece
  BY <1>1
<1>3. piece \in Piece
  BY <1>2 DEF Piece
<1> HIDE DEF piece
<1>4. kept \in 0..Len(file)
  BY <1>1
<1>5. /\ Survivors(kept) \in Seq(Piece) /\ Len(Survivors(kept)) = kept
      /\ \A n \in 1..kept : Survivors(kept)[n] = file[n]
  BY <1>4, SurvivorsType
<1>6. TornSurvivors(kept, part) = Append(Survivors(kept), piece)
  BY DEF TornSurvivors, piece
<1>7. /\ Append(Survivors(kept), piece) \in Seq(Piece)
      /\ Len(Append(Survivors(kept), piece)) = kept + 1
      /\ Append(Survivors(kept), piece)[kept + 1] = piece
      /\ \A n \in 1..kept : Append(Survivors(kept), piece)[n] = Survivors(kept)[n]
  BY <1>3, <1>5, AppendedPieces
<1>8. QED
  BY <1>5, <1>6, <1>7 DEF piece

LEMMA StepType == TypeInv /\ [Next]_vars => TypeInv'
<1> SUFFICES ASSUME TypeInv, [Next]_vars PROVE TypeInv'
  OBVIOUS
<1> USE DEF TypeInv
<1> USE BoundsAreNaturals
<1>0. /\ Len(file) \in Nat /\ synced \in Nat /\ synced <= Len(file)
      /\ faults \in Nat /\ torn \in Nat /\ torn <= faults
  BY DEF TypeOK
<1>1. ASSUME NEW w \in Writers, Open(w) PROVE TypeInv'
  BY <1>1 DEF Open, TypeOK
<1>2. ASSUME NEW w \in Writers, Close(w) PROVE TypeInv'
  BY <1>2 DEF Close, TypeOK
<1>3. ASSUME NEW w \in Writers, Write(w) PROVE TypeInv'
  <2>1. WritePiece(w, "whole") /\ "whole" \in Part /\ UNCHANGED <<short, faults, torn>>
    BY <1>3 DEF Write, Part
  <2>2. TypeOK' /\ writing'[w] # 0
    BY <2>1, WriteType DEF TypeOK
  <2>3. \A v \in Writers : v # w => state'[v] = state[v] /\ writing'[v] = writing[v]
    BY <2>1 DEF WritePiece, TypeOK
  <2>4. QED
    BY <2>2, <2>3
<1>4. ASSUME NEW w \in Writers, NEW part \in Tears, WriteShort(w, part) PROVE TypeInv'
  <2>1. /\ WritePiece(w, part) /\ part \in Part
        /\ faults' \in 0..MaxFaults /\ torn' \in 0..faults'
        /\ short' = short \union {issued'}
    BY <1>0, <1>4, TearsAreParts DEF WriteShort, TypeOK
  <2>2. TypeOK' /\ writing'[w] # 0
    <3>1. issued' \in 1..MaxRecords
      BY <2>1, WriteType
    <3>2. short' \subseteq 1..MaxRecords
      BY <2>1, <3>1 DEF TypeOK
    <3>3. QED
      BY <2>1, <3>2, WriteType DEF TypeOK
  <2>3. \A v \in Writers : v # w => state'[v] = state[v] /\ writing'[v] = writing[v]
    BY <2>1 DEF WritePiece, TypeOK
  <2>4. QED
    BY <2>2, <2>3
<1>5. ASSUME NEW w \in Writers, Sync(w) PROVE TypeInv'
  <2>1. writing[w] \in 1..MaxRecords
    BY <1>5 DEF Sync, TypeOK
  <2>2. returned' \subseteq 1..MaxRecords
    BY <1>5, <2>1 DEF Sync, TypeOK
  <2>3. /\ state' \in [Writers -> {"closed", "open", "sync"}]
        /\ writing' \in [Writers -> 0..MaxRecords]
        /\ \A v \in Writers : state'[v] = "sync" => writing'[v] # 0
    BY <1>5 DEF Sync, TypeOK
  <2>4. QED
    BY <1>0, <1>5, <2>2, <2>3 DEF Sync, TypeOK
<1>6. ASSUME NEW w \in Writers, Raise(w) PROVE TypeInv'
  BY <1>0, <1>6 DEF Raise, TypeOK
<1>7. ASSUME NEW w \in Writers, Die(w) PROVE TypeInv'
  BY <1>0, <1>7 DEF Die, TypeOK
<1>8. ASSUME NEW kept \in 0..Len(file), CrashClean(kept) PROVE TypeInv'
  BY <1>0, <1>8, SurvivorsType DEF CrashClean, Restart, TypeOK
<1>9. ASSUME NEW kept \in 0..Len(file), NEW part \in Tears, CrashTorn(kept, part)
      PROVE  TypeInv'
  <2>1. kept \in 0..(Len(file) - 1) /\ part \in Part /\ file' = TornSurvivors(kept, part)
    BY <1>0, <1>9, TearsAreParts DEF CrashTorn
  <2>2. file' \in Seq(Piece) /\ Len(file') \in Nat
    <3>1. /\ TornSurvivors(kept, part) \in Seq(Piece)
          /\ Len(TornSurvivors(kept, part)) = kept + 1
      BY <2>1, TornSurvivorsType
    <3>2. QED
      BY <2>1, <3>1
  <2>3. QED
    BY <1>0, <1>9, <2>2 DEF CrashTorn, Restart, TypeOK
<1>10. CASE UNCHANGED vars
  BY <1>10 DEF vars, TypeOK
<1>11. QED
  BY <1>1, <1>2, <1>3, <1>4, <1>5, <1>6, <1>7, <1>8, <1>9, <1>10 DEF Next

(* What a step does to the file: it keeps the pieces already on the disk,  *)
(* and it keeps the pieces in the page cache unless the machine restarts.  *)
FileKept ==
    /\ synced <= synced'
    /\ \A n \in 1..synced : file'[n] = file[n]
    /\ \/ /\ Len(file) <= Len(file')
          /\ \A n \in 1..Len(file) : file'[n] = file[n]
       \/ \A w \in Writers : state'[w] = "closed"

LEMMA StepKeeps ==
    ASSUME TypeOK, [Next]_vars
    PROVE  FileKept
<1>0. Len(file) \in Nat /\ synced \in Nat /\ synced <= Len(file)
  BY DEF TypeOK
<1>1. ASSUME NEW w \in Writers, Open(w) \/ Close(w) \/ Raise(w) \/ Die(w)
      PROVE  FileKept
  BY <1>0, <1>1 DEF Open, Close, Raise, Die, FileKept
<1>2. ASSUME NEW w \in Writers, NEW part \in Part, WritePiece(w, part) PROVE FileKept
  <2>1. Len(file') = Len(file) + 1 /\ \A n \in 1..Len(file) : file'[n] = file[n]
    BY <1>2, WriteType
  <2>2. synced' = synced
    BY <1>2 DEF WritePiece
  <2>3. QED
    BY <1>0, <2>1, <2>2 DEF FileKept
<1>3. ASSUME NEW w \in Writers, Write(w) \/ \E part \in Tears : WriteShort(w, part)
      PROVE  FileKept
  BY <1>2, <1>3, TearsAreParts DEF Write, WriteShort, Part
<1>4. ASSUME NEW w \in Writers, Sync(w) PROVE FileKept
  BY <1>0, <1>4 DEF Sync, FileKept
<1>5. ASSUME NEW kept \in 0..Len(file), CrashClean(kept) PROVE FileKept
  BY <1>0, <1>5, SurvivorsType DEF CrashClean, Restart, FileKept
<1>6. ASSUME NEW kept \in 0..Len(file), NEW part \in Tears, CrashTorn(kept, part)
      PROVE  FileKept
  <2>1. kept \in synced..(Len(file) - 1) /\ kept \in 0..(Len(file) - 1) /\ part \in Part
        /\ file' = TornSurvivors(kept, part) /\ synced' = Len(file')
        /\ \A w \in Writers : state'[w] = "closed"
    BY <1>0, <1>6, TearsAreParts DEF CrashTorn, Restart
  <2>2. Len(file') = kept + 1 /\ \A n \in 1..kept : file'[n] = file[n]
    BY <1>0, <2>1, TornSurvivorsType
  <2>3. QED
    BY <1>0, <2>1, <2>2 DEF FileKept
<1>7. CASE UNCHANGED vars
  BY <1>0, <1>7 DEF vars, FileKept
<1>8. QED
  BY <1>1, <1>3, <1>4, <1>5, <1>6, <1>7 DEF Next

(* The variables keep their types in every behaviour.                      *)
THEOREM LogTypeCorrect == Spec => []TypeOK
<1>1. TypeInv => TypeOK
  BY DEF TypeInv
<1>2. QED
  BY InitType, StepType, <1>1, PTL DEF Spec

-----------------------------------------------------------------------------
(* Durability. A write that is about to sync has its piece in the file,    *)
(* and the sync puts the whole file on the disk.                           *)

DurableInv == TypeInv /\ WritingIsInFile /\ DurableOnReturn

LEMMA InitDurable == Init => DurableInv
BY InitType DEF Init, DurableInv, WritingIsInFile, DurableOnReturn

(* What is on the disk stays there.                                        *)
LEMMA DiskStays ==
    ASSUME TypeInv, [Next]_vars
    PROVE  OnDisk \subseteq OnDisk'
<1> SUFFICES ASSUME NEW i \in 1..synced, file[i].part = "whole"
             PROVE  file[i].rec \in OnDisk'
  BY DEF OnDisk
<1>1. /\ TypeOK' /\ synced <= synced' /\ file'[i] = file[i]
      /\ synced \in Nat /\ synced' \in Nat
  BY StepType, StepKeeps DEF FileKept, TypeInv, TypeOK
<1>2. i \in 1..synced'
  BY <1>1
<1>3. QED
  BY <1>1, <1>2 DEF OnDisk

LEMMA ShortStays ==
    ASSUME [Next]_vars
    PROVE  short \subseteq short'
BY DEF Next, Open, Write, WriteShort, WritePiece, Sync, Raise, Close, Die,
   CrashClean, CrashTorn, Restart, vars

LEMMA StepDurable == DurableInv /\ [Next]_vars => DurableInv'
<1> SUFFICES ASSUME DurableInv, [Next]_vars PROVE WritingIsInFile' /\ DurableOnReturn'
  BY StepType DEF DurableInv
<1>a. TypeInv /\ TypeInv'
  BY StepType DEF DurableInv
<1>b. TypeOK /\ TypeOK'
  BY <1>a DEF TypeInv
<1>0. /\ DOMAIN file = 1..Len(file) /\ DOMAIN file' = 1..Len(file')
      /\ Len(file) \in Nat /\ Len(file') \in Nat
  <2>1. file \in Seq(Piece)
    BY <1>b DEF TypeOK
  <2>2. file' \in Seq(Piece)
    BY <1>b DEF TypeOK
  <2>3. QED
    BY <2>1, <2>2
<1>c. ASSUME NEW w \in Writers, NEW part \in Part, WritePiece(w, part)
      PROVE  /\ Len(file') = Len(file) + 1
             /\ file'[Len(file) + 1] = [rec |-> writing'[w], part |-> part]
             /\ writing'[w] = issued'
  <2>1. TypeOK
    BY <1>b
  <2>2. QED
    BY <1>c, <2>1, WriteType
<1> DEFINE piece(r) == [rec |-> r, part |-> "whole"]
<1>1. ASSUME NEW w \in Writers, state'[w] = "sync", writing'[w] \notin short'
      PROVE  \E i \in DOMAIN file' : file'[i] = piece(writing'[w])
  <2>1. CASE state[w] = "sync" /\ writing'[w] = writing[w]
    <3>1. writing[w] \notin short
      BY <1>1, <2>1, ShortStays
    <3>2. PICK i \in DOMAIN file : file[i] = piece(writing[w])
      BY <2>1, <3>1 DEF DurableInv, WritingIsInFile
    <3>3. Len(file) <= Len(file') /\ file'[i] = file[i]
      BY <1>b, <1>0, <1>1, <3>2, StepKeeps DEF FileKept
    <3>4. QED
      BY <1>0, <2>1, <3>2, <3>3
  <2>2. CASE Write(w)
    <3>1. WritePiece(w, "whole") /\ "whole" \in Part
      BY <2>2 DEF Write, Part
    <3>2. Len(file') = Len(file) + 1 /\ file'[Len(file) + 1] = piece(writing'[w])
      BY <3>1, <1>c
    <3>3. Len(file) + 1 \in DOMAIN file'
      BY <1>0, <3>2
    <3>4. QED
      BY <3>2, <3>3
  <2>3. ASSUME NEW part \in Tears, WriteShort(w, part) PROVE FALSE
    <3>1. /\ WritePiece(w, part) /\ part \in Part /\ short' = short \union {issued'}
      BY <2>3, TearsAreParts DEF WriteShort
    <3>2. writing'[w] = issued'
      BY <3>1, <1>c
    <3>3. QED
      BY <1>1, <3>1, <3>2
  <2>4. \/ state[w] = "sync" /\ writing'[w] = writing[w]
        \/ Write(w)
        \/ \E part \in Tears : WriteShort(w, part)
    <3>1. ASSUME NEW v \in Writers,
                 Open(v) \/ Sync(v) \/ Raise(v) \/ Close(v) \/ Die(v)
          PROVE  state[w] = "sync" /\ writing'[w] = writing[w]
      BY <1>b, <1>1, <3>1 DEF Open, Sync, Raise, Close, Die, TypeOK
    <3>2. ASSUME NEW v \in Writers, NEW part \in Part, WritePiece(v, part), v # w
          PROVE  state[w] = "sync" /\ writing'[w] = writing[w]
      BY <1>b, <1>1, <3>2 DEF WritePiece, TypeOK
    <3>3. ASSUME NEW v \in Writers, Write(v) \/ \E part \in Tears : WriteShort(v, part)
          PROVE  \E part \in Part : WritePiece(v, part)
      BY <3>3, TearsAreParts DEF Write, WriteShort, Part
    <3>4. ASSUME NEW kept \in 0..Len(file),
                 CrashClean(kept) \/ \E part \in Tears : CrashTorn(kept, part)
          PROVE  FALSE
      BY <1>1, <3>4 DEF CrashClean, CrashTorn, Restart
    <3>5. CASE UNCHANGED vars
      BY <1>1, <3>5 DEF vars
    <3>6. QED
      BY <3>1, <3>2, <3>3, <3>4, <3>5 DEF Next
  <2>5. QED
    BY <2>1, <2>2, <2>3, <2>4
<1>2. ASSUME NEW r \in returned', r \notin short' PROVE r \in OnDisk'
  <2>1. CASE r \in returned
    <3>1. r \in OnDisk
      BY <1>2, <2>1, ShortStays DEF DurableInv, DurableOnReturn
    <3>2. QED
      BY <1>a, <3>1, DiskStays
  <2>2. CASE r \notin returned
    <3>1. PICK w \in Writers : Sync(w)
      BY <1>2, <2>2 DEF Next, Open, Write, WriteShort, WritePiece, Raise, Close, Die,
         CrashClean, CrashTorn, Restart, vars
    <3>2. /\ state[w] = "sync" /\ r = writing[w] /\ synced' = Len(file)
          /\ file' = file /\ short' = short
      BY <1>2, <2>2, <3>1 DEF Sync
    <3>3. PICK i \in DOMAIN file : file[i] = piece(r)
      BY <1>2, <3>2 DEF DurableInv, WritingIsInFile
    <3>4. i \in 1..synced' /\ file'[i].part = "whole" /\ file'[i].rec = r
      BY <1>0, <3>2, <3>3
    <3>5. QED
      BY <3>4 DEF OnDisk
  <2>3. QED
    BY <2>1, <2>2
<1>3. QED
  BY <1>1, <1>2 DEF WritingIsInFile, DurableOnReturn

(* Each record whose write() returned is on the disk with its last byte,   *)
(* whatever other writers do and whenever the power fails, unless its own  *)
(* os.write was short.                                                     *)
THEOREM ReturnedIsDurable == Spec => []DurableOnReturn
<1>1. DurableInv => DurableOnReturn
  BY DEF DurableInv
<1>2. QED
  BY InitDurable, StepDurable, <1>1, PTL DEF Spec

-----------------------------------------------------------------------------
(* Loss. A whole piece that the reader does not return follows a torn one, *)
(* and there are no more torn pieces than faults that tore one.            *)

TornPieces == {i \in DOMAIN file : file[i].part # "whole"}

TornAreCounted == Cardinality(TornPieces) <= torn

LEMMA TornAreFinite ==
    ASSUME TypeOK
    PROVE  IsFiniteSet(TornPieces) /\ Cardinality(TornPieces) \in Nat /\ torn \in Nat
<1>1. DOMAIN file = 1..Len(file) /\ Len(file) \in Nat
  BY DEF TypeOK
<1>2. IsFiniteSet(DOMAIN file)
  BY <1>1, FS_Interval
<1>3. IsFiniteSet(TornPieces)
  BY <1>2, FS_Subset DEF TornPieces
<1>4. QED
  BY <1>3, FS_CardinalityType, BoundsAreNaturals DEF TypeOK

(* A piece is torn only by a fault that is counted.                        *)
LEMMA FewerTorn ==
    ASSUME TypeOK, TornAreCounted,
           \/ TornPieces' \subseteq TornPieces /\ torn' = torn
           \/ \E i : TornPieces' \subseteq TornPieces \union {i} /\ torn' = torn + 1
    PROVE  TornAreCounted'
<1>1. CASE TornPieces' \subseteq TornPieces /\ torn' = torn
  <2>1. Cardinality(TornPieces') <= Cardinality(TornPieces)
        /\ Cardinality(TornPieces') \in Nat
    BY <1>1, TornAreFinite, FS_Subset, FS_CardinalityType
  <2>2. QED
    BY <1>1, <2>1, TornAreFinite DEF TornAreCounted
<1>2. CASE \E i : TornPieces' \subseteq TornPieces \union {i} /\ torn' = torn + 1
  <2>1. PICK i : TornPieces' \subseteq TornPieces \union {i} /\ torn' = torn + 1
    BY <1>2
  <2>2. /\ IsFiniteSet(TornPieces \union {i})
        /\ Cardinality(TornPieces \union {i}) =
             IF i \in TornPieces THEN Cardinality(TornPieces)
                                 ELSE Cardinality(TornPieces) + 1
    BY TornAreFinite, FS_AddElement
  <2>3. Cardinality(TornPieces') <= Cardinality(TornPieces \union {i})
        /\ Cardinality(TornPieces') \in Nat
    BY <2>1, <2>2, FS_Subset, FS_CardinalityType
  <2>4. QED
    BY <2>1, <2>2, <2>3, TornAreFinite DEF TornAreCounted
<1>3. QED
  BY <1>1, <1>2

LEMMA StepTorn == TypeInv /\ TornAreCounted /\ [Next]_vars => TornAreCounted'
<1> SUFFICES ASSUME TypeInv, TornAreCounted, [Next]_vars PROVE TornAreCounted'
  OBVIOUS
<1>0. TypeOK /\ DOMAIN file = 1..Len(file) /\ Len(file) \in Nat /\ synced \in Nat
  BY DEF TypeInv, TypeOK
<1>1. ASSUME UNCHANGED <<file, torn>> PROVE TornAreCounted'
  BY <1>1 DEF TornAreCounted, TornPieces
<1>2. ASSUME NEW w \in Writers,
             Open(w) \/ Sync(w) \/ Raise(w) \/ Close(w) \/ Die(w)
      PROVE  TornAreCounted'
  BY <1>1, <1>2 DEF Open, Sync, Raise, Close, Die
<1>3. ASSUME NEW w \in Writers, NEW part \in Part, WritePiece(w, part)
      PROVE  /\ TornPieces' \subseteq TornPieces \union {Len(file) + 1}
             /\ part = "whole" => TornPieces' \subseteq TornPieces
  <2> DEFINE piece == [rec |-> issued', part |-> part]
  <2>1. /\ file' = Append(file, piece) /\ piece.part = part
    BY <1>3 DEF WritePiece
  <2> HIDE DEF piece
  <2>2. /\ DOMAIN file' = DOMAIN file \union {Len(file) + 1}
        /\ file'[Len(file) + 1] = piece
        /\ \A n \in DOMAIN file : file'[n] = file[n]
    <3>1. file \in Seq(Piece)
      BY <1>0 DEF TypeOK
    <3>2. QED
      BY <2>1, <3>1
  <2>3. QED
    BY <2>1, <2>2 DEF TornPieces
<1>4. ASSUME NEW w \in Writers, Write(w) PROVE TornAreCounted'
  <2>1. WritePiece(w, "whole") /\ torn' = torn /\ "whole" \in Part
    BY <1>4 DEF Write, Part
  <2>2. QED
    BY <1>0, <1>3, <2>1, FewerTorn
<1>5. ASSUME NEW w \in Writers, NEW part \in Tears, WriteShort(w, part)
      PROVE  TornAreCounted'
  <2>1. WritePiece(w, part) /\ torn' = torn + 1 /\ part \in Part
    BY <1>5, TearsAreParts DEF WriteShort
  <2>2. QED
    BY <1>0, <1>3, <2>1, FewerTorn
<1>6. ASSUME NEW kept \in 0..Len(file), CrashClean(kept) PROVE TornAreCounted'
  <2>1. file' = Survivors(kept) /\ torn' = torn
    BY <1>6 DEF CrashClean
  <2>2. DOMAIN file' = 1..kept /\ \A n \in 1..kept : file'[n] = file[n]
    <3>1. /\ Survivors(kept) \in Seq(Piece) /\ Len(Survivors(kept)) = kept
          /\ \A n \in 1..kept : Survivors(kept)[n] = file[n]
      BY <1>0, SurvivorsType
    <3>2. QED
      BY <2>1, <3>1
  <2>3. TornPieces' \subseteq TornPieces
    BY <1>0, <2>2 DEF TornPieces
  <2>4. QED
    BY <1>0, <2>1, <2>3, FewerTorn
<1>7. ASSUME NEW kept \in 0..Len(file), NEW part \in Tears, CrashTorn(kept, part)
      PROVE  TornAreCounted'
  <2>1. /\ kept \in 0..(Len(file) - 1) /\ part \in Part
        /\ file' = TornSurvivors(kept, part) /\ torn' = torn + 1
    BY <1>0, <1>7, TearsAreParts DEF CrashTorn
  <2>2. DOMAIN file' = 1..(kept + 1) /\ \A n \in 1..kept : file'[n] = file[n]
    <3>1. /\ TornSurvivors(kept, part) \in Seq(Piece)
          /\ Len(TornSurvivors(kept, part)) = kept + 1
          /\ \A n \in 1..kept : TornSurvivors(kept, part)[n] = file[n]
      BY <1>0, <2>1, TornSurvivorsType
    <3>2. QED
      BY <2>1, <3>1
  <2>3. TornPieces' \subseteq TornPieces \union {kept + 1}
    BY <1>0, <2>1, <2>2 DEF TornPieces
  <2>4. QED
    BY <1>0, <2>1, <2>3, FewerTorn
<1>8. CASE UNCHANGED vars
  BY <1>1, <1>8 DEF vars
<1>9. QED
  BY <1>2, <1>4, <1>5, <1>6, <1>7, <1>8 DEF Next

(* A whole piece with nothing torn in front of it is read.                 *)
LEMMA WholeAfterWholeIsRead ==
    ASSUME TypeOK, ~Undecodable, NEW i \in DOMAIN file,
           Ended(i), i = 1 \/ Ended(i - 1)
    PROVE  file[i].rec \in Readable
<1>1. i \in 1..Len(file) /\ Len(file) \in Nat
  BY DEF TypeOK
<1>2. i \in LineStarts
  BY DEF LineStarts
<1>3. Line(i) = {i}
  <2>1. ASSUME NEW j \in Line(i) PROVE j = i
    <3>1. j \in i..Len(file) /\ \A k \in i..(j - 1) : ~Ended(k)
      BY <2>1 DEF Line
    <3>2. i \notin i..(j - 1)
      BY <3>1
    <3>3. QED
      BY <1>1, <3>1, <3>2
  <2>2. i \in Line(i)
    BY <1>1 DEF Line
  <2>3. QED
    BY <2>1, <2>2
<1>4. i \in Parsed
  BY <1>2, <1>3 DEF Parsed, Valid, Ended
<1>5. QED
  BY <1>4 DEF Readable

LEMMA LostFollowTorn ==
    ASSUME TypeOK, ~Undecodable
    PROVE  Cardinality(Whole \ Readable) <= Cardinality(TornPieces)
<1> DEFINE Before == {i \in TornPieces : i + 1 \in DOMAIN file}
           next == [i \in Before |-> file[i + 1].rec]
           After == {next[i] : i \in Before}
<1>1. IsFiniteSet(Before) /\ Cardinality(Before) <= Cardinality(TornPieces)
  BY TornAreFinite, FS_Subset
<1>2. next \in Surjection(Before, After)
  BY DEF Surjection
<1>3. Whole \ Readable \subseteq After
  <2> SUFFICES ASSUME NEW i \in DOMAIN file, file[i].part = "whole",
                      file[i].rec \notin Readable
               PROVE  file[i].rec \in After
    BY DEF Whole
  <2>1. i # 1 /\ ~Ended(i - 1)
    BY WholeAfterWholeIsRead DEF Ended
  <2>2. i - 1 \in DOMAIN file /\ (i - 1) + 1 = i
    <3>1. DOMAIN file = 1..Len(file) /\ Len(file) \in Nat
      BY DEF TypeOK
    <3>2. QED
      BY <2>1, <3>1
  <2>3. i - 1 \in Before
    BY <2>1, <2>2 DEF TornPieces, Ended
  <2>4. next[i - 1] = file[i].rec
    BY <2>2, <2>3
  <2>5. QED
    BY <2>3, <2>4
<1> HIDE DEF Before, next, After
<1>4. IsFiniteSet(After) /\ Cardinality(After) <= Cardinality(Before)
  BY <1>1, <1>2, FS_Surjection
<1>5. /\ Cardinality(Whole \ Readable) <= Cardinality(After)
      /\ IsFiniteSet(Whole \ Readable)
  BY <1>3, <1>4, FS_Subset
<1>6. /\ Cardinality(Whole \ Readable) \in Nat /\ Cardinality(After) \in Nat
      /\ Cardinality(Before) \in Nat /\ Cardinality(TornPieces) \in Nat
  BY <1>1, <1>4, <1>5, FS_CardinalityType, TornAreFinite
<1>7. QED
  BY <1>1, <1>4, <1>5, <1>6

(* However many writers and faults there were, each torn piece costs the   *)
(* reader at most one record that is whole in the file: iter_records.      *)
THEOREM LossIsBounded == Spec => []LossBounded
<1>1. Init => TornAreCounted
  <2> SUFFICES ASSUME Init PROVE TornAreCounted
    OBVIOUS
  <2>1. TornPieces = {} /\ torn = 0
    BY DEF Init, TornPieces
  <2>2. QED
    BY <2>1, FS_EmptySet DEF TornAreCounted
<1>2. TypeInv /\ TornAreCounted => LossBounded
  <2> SUFFICES ASSUME TypeOK, TornAreCounted, ~Undecodable
               PROVE  Cardinality(Whole \ Readable) <= torn
    BY DEF LossBounded, TypeInv
  <2>1. Cardinality(Whole \ Readable) <= Cardinality(TornPieces)
    BY LostFollowTorn
  <2>2. Cardinality(TornPieces) \in Nat /\ torn \in Nat
    BY TornAreFinite
  <2>3. Cardinality(Whole \ Readable) \in Nat
    <3>1. Whole \ Readable \subseteq 1..MaxRecords
      <4>1. \A i \in DOMAIN file : file[i].rec \in 1..MaxRecords
        <5>1. \A i \in DOMAIN file : file[i] \in Piece
          BY DEF TypeOK
        <5>2. \A piece \in Piece : piece.rec \in 1..MaxRecords
          BY DEF Piece
        <5>3. QED
          BY <5>1, <5>2
      <4>2. QED
        BY <4>1 DEF Whole
    <3>2. IsFiniteSet(1..MaxRecords)
      BY FS_Interval, BoundsAreNaturals
    <3>3. IsFiniteSet(Whole \ Readable)
      BY <3>1, <3>2, FS_Subset
    <3>4. QED
      BY <3>3, FS_CardinalityType
  <2>4. QED
    BY <2>1, <2>2, <2>3 DEF TornAreCounted
<1>3. QED
  BY <1>1, <1>2, InitType, StepType, StepTorn, PTL DEF Spec
=============================================================================
