------------------------ MODULE StoreRotationProofs ------------------------
(***************************************************************************)
(* The size of the store, for every configuration that Validate accepts,   *)
(* every number of concurrent requests, every batch size and every length  *)
(* of the WAL at which SQLite checkpoints.                                 *)
(*                                                                         *)
(* What EnsureCapacity measures is never less than the database: the pages *)
(* that the database file does not hold yet are frames of the WAL.  So a   *)
(* request that passes finds at most MaxSize rows, and each of the         *)
(* requests that passed at the same time adds one.  Nothing limits what an *)
(* update adds but the size of the largest row, so it is the rows that are *)
(* counted, and the pages follow.                                          *)
(***************************************************************************)
EXTENDS StoreRotation, FiniteSetTheorems, TLAPS

\* The requests that EnsureCapacity has let through and that have not inserted yet.
Admitted == {r \in Requests : pc[r] = "insert"}

ConfigOK == cfg.max \in Nat /\ cfg.high \in Nat /\ cfg.high <= cfg.max

\* Rows take pages of the database, and the measure sees every page.
DiskOK ==
    /\ used \in Extent(Rows)
    /\ used <= pages /\ pages <= file + frames /\ frames <= wal

\* A checkpoint comes after AutoCheckpoint frames.
FilesOK ==
    /\ pages <= PageLimit
    /\ file <= PageLimit
    /\ frames <= AutoCheckpoint
    /\ wal <= PageLimit + AutoCheckpoint

RotatePC == {"loop", "delete", "vacuum", "checkpoint"}

\* One rotation at a time; what it may still delete is there.
MutexOK ==
    /\ \A t \in Threads : pc[t] \in RotatePC => rotateMu = t
    /\ eligible <= old

AdmittedOK == Rows + Cardinality(Admitted) <= RowLimit

SizeInv == TypeOK /\ ConfigOK /\ DiskOK /\ FilesOK /\ MutexOK /\ AdmittedOK

-----------------------------------------------------------------------------
\* Helpers.

LEMMA MaxOfTwo ==
    ASSUME NEW a \in Nat, NEW b \in Nat
    PROVE  Max({a, b}) \in {a, b} /\ Max({a, b}) >= a /\ Max({a, b}) >= b
BY DEF Max

LEMMA MinOfTwo ==
    ASSUME NEW a \in Nat, NEW b \in Nat
    PROVE  Min({a, b}) \in Nat /\ Min({a, b}) <= a /\ Min({a, b}) <= b
BY DEF Min

\* A configuration the process starts with is one Validate has accepted.
LEMMA StartedOK == Init => ConfigOK
<1> SUFFICES ASSUME Init PROVE ConfigOK
  OBVIOUS
<1>1. PICK raw \in Settings : cfg = Parse(raw) /\ Validate(cfg)
  BY DEF Init
<1>2. /\ raw.max \in Nat \cup NoValue /\ raw.high \in Nat \cup NoValue
      /\ {"max", "high"} \subseteq DOMAIN Defaults
      /\ Defaults.max = 3 /\ Defaults.high = 2
  BY RotationAssumption DEF Defaults
<1>3. cfg.max = env(raw.max, 3) /\ cfg.high = env(raw.high, 2)
  BY <1>1, <1>2 DEF Parse
<1>4. cfg.max \in Nat /\ cfg.high \in Nat
  BY <1>2, <1>3 DEF env
<1> QED
  BY <1>1, <1>4 DEF Validate, ConfigOK

\* The limits are numbers, and the configuration does not change.
LEMMA Limits ==
    ASSUME ConfigOK
    PROVE  /\ RowLimit \in Nat /\ PageLimit \in Nat /\ MaxSize \in Nat /\ MaxSize <= RowLimit
           /\ cfg' = cfg => RowLimit' = RowLimit /\ PageLimit' = PageLimit
<1>1. MaxSize \in Nat /\ Cardinality(Requests) \in Nat /\ MaxRow \in Nat
  BY RotationAssumption, FS_CardinalityType DEF ConfigOK, MaxSize
<1>2. RowLimit \in Nat /\ MaxSize <= RowLimit
  BY <1>1 DEF RowLimit
<1>3. PageLimit \in Nat
  BY <1>1, <1>2 DEF PageLimit
<1>4. cfg' = cfg => RowLimit' = RowLimit /\ PageLimit' = PageLimit
  BY DEF RowLimit, PageLimit, MaxSize
<1> QED
  BY <1>1, <1>2, <1>3, <1>4

\* A product grows with its factor.
LEMMA Monotone ==
    ASSUME NEW k \in Nat, NEW a \in Nat, NEW b \in Nat, a <= b
    PROVE  k * a <= k * b
<1>1. PICK d \in Nat : b = a + d
  <2>1. b - a \in Nat /\ b = a + (b - a)
    OBVIOUS
  <2> QED
    BY <2>1
<1>2. k * b = k * a + k * d /\ k * d \in Nat /\ k * a \in Nat
  BY <1>1
<1> QED
  BY <1>2

LEMMA ExtentType ==
    ASSUME NEW n \in Nat, NEW s \in Extent(n)
    PROVE  s \in Nat /\ n <= s /\ s <= MaxRow * n /\ MaxRow * n \in Nat
<1>1. MaxRow * n \in Nat
  BY RotationAssumption
<1> QED
  BY <1>1 DEF Extent

\* Rows side by side take their pages together.
LEMMA ExtentAdds ==
    ASSUME NEW m \in Nat, NEW n \in Nat, NEW s \in Extent(m), NEW t \in Extent(n)
    PROVE  s + t \in Extent(m + n)
<1>1. /\ s \in Nat /\ m <= s /\ s <= MaxRow * m /\ MaxRow * m \in Nat
      /\ t \in Nat /\ n <= t /\ t <= MaxRow * n /\ MaxRow * n \in Nat
  BY ExtentType
<1>2. MaxRow * (m + n) = MaxRow * m + MaxRow * n
  BY RotationAssumption
<1> QED
  BY <1>1, <1>2 DEF Extent

\* As many rows as are allowed take no more pages than are allowed.
LEMMA ExtentFits ==
    ASSUME ConfigOK, NEW n \in Nat, n <= RowLimit, NEW s \in Extent(n)
    PROVE  s <= PageLimit
<1>1. s \in Nat /\ s <= MaxRow * n /\ MaxRow * n \in Nat
  BY ExtentType
<1>2. RowLimit \in Nat /\ PageLimit \in Nat
  BY Limits
<1>3. MaxRow * n <= PageLimit
  BY <1>2, Monotone, RotationAssumption DEF PageLimit
<1> QED
  BY <1>1, <1>2, <1>3

LEMMA DiskType ==
    ASSUME SizeInv
    PROVE  /\ fresh \in Nat /\ old \in Nat /\ eligible \in Nat /\ Rows \in Nat
           /\ used \in Nat /\ pages \in Nat /\ file \in Nat /\ frames \in Nat /\ wal \in Nat
           /\ Rows <= used /\ used <= pages /\ pages <= file + frames /\ frames <= wal
           /\ Rows = fresh + old
<1>1. /\ fresh \in Nat /\ old \in Nat /\ eligible \in Nat /\ used \in Nat
      /\ pages \in Nat /\ file \in Nat /\ frames \in Nat /\ wal \in Nat
  BY DEF SizeInv, TypeOK
<1>2. Rows = fresh + old /\ Rows \in Nat
  BY <1>1 DEF Rows
<1>3. used \in Extent(Rows)
  BY DEF SizeInv, DiskOK
<1>4. Rows <= used
  BY <1>2, <1>3, ExtentType
<1> QED
  BY <1>1, <1>2, <1>4 DEF SizeInv, DiskOK

\* A commit keeps the pages within the file and the frames of the WAL, and both
\* within their limits.
LEMMA CommitKeeps ==
    ASSUME SizeInv, NEW n \in Nat, NEW size \in Nat, Commit(n, size), cfg' = cfg,
           size <= pages + n \/ size <= n, n <= PageLimit, size <= PageLimit
    PROVE  /\ pages' = size /\ pages' \in Nat /\ file' \in Nat /\ frames' \in Nat /\ wal' \in Nat
           /\ pages' <= file' + frames' /\ frames' <= wal'
           /\ FilesOK'
<1>0. /\ pages \in Nat /\ file \in Nat /\ frames \in Nat /\ wal \in Nat
      /\ pages <= file + frames /\ frames <= wal
      /\ AutoCheckpoint \in Nat
  BY DiskType, RotationAssumption
<1>1. /\ Max({wal, frames + n}) \in Nat /\ Max({wal, frames + n}) >= frames + n
      /\ Max({wal, frames + n}) \in {wal, frames + n}
  BY <1>0, MaxOfTwo
<1>2. pages' = size /\ wal' = Max({wal, frames + n})
  BY DEF Commit
<1>3. \/ frames + n >= AutoCheckpoint /\ frames' = 0 /\ file' = size
      \/ ~(frames + n >= AutoCheckpoint) /\ frames' = frames + n /\ file' = file
  BY DEF Commit
<1>4. PageLimit \in Nat /\ PageLimit' = PageLimit
  BY Limits DEF SizeInv
<1>5. file <= PageLimit /\ frames <= AutoCheckpoint /\ wal <= PageLimit + AutoCheckpoint
  BY DEF SizeInv, FilesOK
<1>6. pages' \in Nat /\ file' \in Nat /\ frames' \in Nat /\ wal' \in Nat
  BY <1>0, <1>1, <1>2, <1>3
<1>7. pages' <= file' + frames' /\ frames' <= wal'
  BY <1>0, <1>1, <1>2, <1>3
<1>8. /\ pages' <= PageLimit /\ file' <= PageLimit /\ frames' <= AutoCheckpoint
      /\ wal' <= PageLimit + AutoCheckpoint
  BY <1>0, <1>1, <1>2, <1>3, <1>4, <1>5
<1> QED
  BY <1>2, <1>4, <1>6, <1>7, <1>8 DEF FilesOK

\* So does a row that is written, whether the rows take more pages or fewer.
LEMMA WriteKeeps ==
    ASSUME SizeInv, cfg' = cfg, NEW n \in Extent(1), Write(n),
           used' \in Extent(Rows'), Rows' \in Nat, Rows' <= RowLimit,
           used' <= used + n, n <= used'
    PROVE  /\ pages' \in Nat /\ file' \in Nat /\ frames' \in Nat /\ wal' \in Nat /\ used' \in Nat
           /\ DiskOK' /\ FilesOK'
<1>0. used \in Nat /\ pages \in Nat /\ used <= pages
  BY DiskType
<1>1. n \in Nat /\ used' \in Nat
  BY ExtentType
<1>2. used' <= PageLimit
  BY ExtentFits DEF SizeInv
<1> DEFINE size == Max({pages, used'})
<1>3. size \in Nat /\ size >= used' /\ size \in {pages, used'}
  BY <1>0, <1>1, MaxOfTwo
<1>4. PageLimit \in Nat /\ pages <= PageLimit
  BY Limits DEF SizeInv, FilesOK
<1>5. Commit(n, size)
  BY DEF Write
<1> HIDE DEF size
<1>6. n <= PageLimit /\ size <= PageLimit /\ size <= pages + n
  BY <1>0, <1>1, <1>2, <1>3, <1>4
<1>7. /\ pages' = size /\ pages' \in Nat /\ file' \in Nat /\ frames' \in Nat /\ wal' \in Nat
      /\ pages' <= file' + frames' /\ frames' <= wal' /\ FilesOK'
  BY <1>1, <1>3, <1>5, <1>6, CommitKeeps
<1> QED
  BY <1>1, <1>3, <1>7 DEF DiskOK, Extent

PCs == {"idle", "check", "insert", "rotate",
        "loop", "delete", "vacuum", "checkpoint"}

LEMMA GotoEffect ==
    ASSUME TypeOK, NEW t \in Threads, NEW l \in PCs, Goto(t, l)
    PROVE  /\ pc' \in [Threads -> PCs] /\ pc'[t] = l
           /\ \A u \in Threads \ {t} : pc'[u] = pc[u]
           /\ l # "insert" => Admitted' \subseteq Admitted \ {t}
           /\ Admitted' \subseteq Requests
<1>1. pc \in [Threads -> PCs] /\ pc' = [pc EXCEPT ![t] = l]
  BY DEF TypeOK, Goto, PCs
<1>2. pc' \in [Threads -> PCs] /\ pc'[t] = l /\ \A u \in Threads \ {t} : pc'[u] = pc[u]
  BY <1>1
<1> QED
  BY <1>2 DEF Admitted, Threads

\* Nobody is admitted and no row is added.
LEMMA AdmittedKept ==
    ASSUME SizeInv, Admitted' \subseteq Admitted, Rows' \in Nat, Rows' <= Rows, cfg' = cfg
    PROVE  AdmittedOK'
<1>1. IsFiniteSet(Requests) /\ Admitted \in SUBSET Requests
  BY RotationAssumption DEF Admitted
<1>2. IsFiniteSet(Admitted) /\ Admitted' \in SUBSET Admitted
  BY <1>1, FS_Subset
<1>3. IsFiniteSet(Admitted') /\ Cardinality(Admitted') <= Cardinality(Admitted)
  BY <1>2, FS_Subset
<1>4. Cardinality(Admitted) \in Nat /\ Cardinality(Admitted') \in Nat
  BY <1>2, <1>3, FS_CardinalityType
<1>5. Rows \in Nat /\ RowLimit \in Nat /\ RowLimit' = RowLimit
  BY DiskType, Limits DEF SizeInv
<1> QED
  BY <1>3, <1>4, <1>5 DEF SizeInv, AdmittedOK

\* A request is admitted to a database of at most MaxSize pages.
LEMMA AdmittedOne ==
    ASSUME SizeInv, Rows' = Rows, Rows <= MaxSize, cfg' = cfg
    PROVE  AdmittedOK'
<1>1. IsFiniteSet(Requests) /\ Admitted' \in SUBSET Requests
  BY RotationAssumption DEF Admitted
<1>2. IsFiniteSet(Admitted') /\ Cardinality(Admitted') <= Cardinality(Requests)
  BY <1>1, FS_Subset
<1>3. Cardinality(Admitted') \in Nat /\ Cardinality(Requests) \in Nat
  BY <1>1, <1>2, FS_CardinalityType
<1>4. Rows \in Nat /\ MaxSize \in Nat /\ RowLimit' = MaxSize + Cardinality(Requests)
  BY DiskType, Limits DEF SizeInv, RowLimit
<1> QED
  BY <1>2, <1>3, <1>4 DEF AdmittedOK

\* An admitted request inserts its row.
LEMMA AdmittedInserts ==
    ASSUME SizeInv, NEW r \in Admitted, Admitted' \subseteq Admitted \ {r},
           Rows' = Rows + 1, cfg' = cfg
    PROVE  AdmittedOK' /\ Rows' \in Nat /\ Rows' <= RowLimit
<1>1. IsFiniteSet(Requests) /\ Admitted \in SUBSET Requests
  BY RotationAssumption DEF Admitted
<1>2. IsFiniteSet(Admitted)
  BY <1>1, FS_Subset
<1>3. IsFiniteSet(Admitted \ {r}) /\ Cardinality(Admitted \ {r}) = Cardinality(Admitted) - 1
  BY <1>2, FS_RemoveElement
<1>4. Admitted' \in SUBSET (Admitted \ {r})
  OBVIOUS
<1>5. IsFiniteSet(Admitted') /\ Cardinality(Admitted') <= Cardinality(Admitted \ {r})
  BY <1>3, <1>4, FS_Subset
<1>6. Cardinality(Admitted) \in Nat /\ Cardinality(Admitted') \in Nat
      /\ Cardinality(Admitted \ {r}) \in Nat
  BY <1>2, <1>3, <1>5, FS_CardinalityType
<1>7. Rows \in Nat /\ RowLimit \in Nat /\ RowLimit' = RowLimit
  BY DiskType, Limits DEF SizeInv
<1>8. Rows + Cardinality(Admitted) <= RowLimit
  BY DEF SizeInv, AdmittedOK
<1> QED
  BY <1>3, <1>5, <1>6, <1>7, <1>8 DEF AdmittedOK

\* What EnsureCapacity measures is at least the rows.
LEMMA MeasureSeesAll ==
    ASSUME SizeInv
    PROVE  /\ Rows \in Nat /\ SizeBytes \in Nat /\ Rows <= SizeBytes
           /\ HighWatermark \in Nat /\ MaxSize \in Nat /\ HighWatermark <= MaxSize
<1>1. /\ Rows \in Nat /\ used \in Nat /\ pages \in Nat
      /\ file \in Nat /\ frames \in Nat /\ wal \in Nat
      /\ Rows <= used /\ used <= pages /\ pages <= file + frames /\ frames <= wal
  BY DiskType
<1> QED
  BY <1>1 DEF SizeInv, ConfigOK, SizeBytes, HighWatermark, MaxSize

-----------------------------------------------------------------------------
\* The steps.

LEMMA ErrorsType == ASSUME TypeOK, Fails \/ NoFailure PROVE errors' \in 0..MaxErrors
BY RotationAssumption DEF TypeOK, Fails, NoFailure

\* A step that leaves the disk alone.
LEMMA DiskKept ==
    ASSUME SizeInv, cfg' = cfg, UNCHANGED <<used, pages, file, frames, wal>>, Rows' = Rows
    PROVE  DiskOK' /\ FilesOK'
<1>1. PageLimit' = PageLimit
  BY Limits DEF SizeInv
<1> QED
  BY <1>1 DEF SizeInv, DiskOK, FilesOK

\* A request measures, is turned away, goes to rotate or stores nothing.
LEMMA RequestSteps ==
    ASSUME SizeInv, NEW r \in Requests, Receive(r) \/ Check(r) \/ InsertNothing(r)
    PROVE  SizeInv'
<1>0. r \in Threads /\ TypeOK
  BY DEF Threads, SizeInv
<1>1. UNCHANGED <<cfg, fresh, old, used, pages, file, frames, wal, rotateMu, eligible>>
  BY DEF Receive, Check, InsertNothing, diskVars, rotationVars
<1>2. errors' \in 0..MaxErrors
  BY <1>0, ErrorsType DEF Receive, Check, InsertNothing, NoFailure
<1>3. PICK l \in {"insert", "rotate", "check", "idle"} :
         Goto(r, l) /\ (l = "insert" => SizeBytes <= MaxSize)
  <2>1. CASE Receive(r)
    <3>1. SizeBytes < HighWatermark => SizeBytes <= MaxSize
      BY MeasureSeesAll
    <3> QED
      BY <2>1, <3>1 DEF Receive, Reject
  <2>2. CASE Check(r)
    <3>1. ~TooLarge(SizeBytes) => SizeBytes <= MaxSize
      BY MeasureSeesAll DEF TooLarge
    <3> QED
      BY <2>2, <3>1 DEF Check, Reject
  <2>3. CASE InsertNothing(r)
    BY <2>3 DEF InsertNothing
  <2> QED
    BY <2>1, <2>2, <2>3
<1>4. l \in PCs
  BY DEF PCs
<1>5. pc' \in [Threads -> PCs] /\ pc'[r] = l /\ (\A u \in Threads \ {r} : pc'[u] = pc[u])
      /\ (l # "insert" => Admitted' \subseteq Admitted)
  BY <1>0, <1>3, <1>4, GotoEffect
<1>6. TypeOK'
  BY <1>0, <1>1, <1>2, <1>5 DEF TypeOK, PCs
<1>rows. Rows' = Rows
  BY <1>1 DEF Rows
<1>7. ConfigOK' /\ DiskOK' /\ FilesOK'
  BY <1>1, <1>rows, DiskKept DEF SizeInv, ConfigOK
<1>8. MutexOK'
  BY <1>1, <1>5 DEF SizeInv, MutexOK, RotatePC
<1>9. AdmittedOK'
  <2>1. CASE l = "insert"
    <3>1. Rows <= MaxSize
      BY <1>3, <2>1, MeasureSeesAll
    <3> QED
      BY <1>1, <1>rows, <3>1, AdmittedOne
  <2>2. CASE l # "insert"
    <3>1. Rows' \in Nat /\ Rows' <= Rows
      BY <1>rows, DiskType
    <3> QED
      BY <1>1, <1>5, <2>2, <3>1, AdmittedKept
  <2> QED
    BY <2>1, <2>2
<1> QED
  BY <1>6, <1>7, <1>8, <1>9 DEF SizeInv

LEMMA InsertStep ==
    ASSUME SizeInv, NEW r \in Requests, Insert(r)
    PROVE  SizeInv'
<1>0. r \in Threads /\ TypeOK /\ r \in Admitted
  BY DEF Threads, SizeInv, Insert, Admitted
<1>1. UNCHANGED <<cfg, old, rotateMu, eligible, errors>> /\ fresh' = fresh + 1
  BY DEF Insert, rotationVars
<1>nat. /\ fresh \in Nat /\ old \in Nat /\ Rows \in Nat /\ used \in Nat /\ Rows = fresh + old
        /\ used \in Extent(Rows)
  BY DiskType DEF SizeInv, DiskOK
<1>2. PICK s \in Extent(1) : used' = used + s /\ Write(s)
  BY DEF Insert
<1>3. Rows' = Rows + 1
  BY <1>1, <1>nat DEF Rows
<1>4. pc' \in [Threads -> PCs] /\ pc'[r] = "idle" /\ (\A u \in Threads \ {r} : pc'[u] = pc[u])
      /\ Admitted' \subseteq Admitted \ {r}
  BY <1>0, GotoEffect DEF Insert, PCs
<1>5. AdmittedOK' /\ Rows' \in Nat /\ Rows' <= RowLimit
  BY <1>0, <1>1, <1>3, <1>4, AdmittedInserts
<1>6. used' \in Extent(Rows')
  BY <1>nat, <1>2, <1>3, ExtentAdds
<1>7. s \in Nat /\ used' <= used + s /\ s <= used'
  <2>1. s \in Nat
    BY <1>2, ExtentType
  <2> QED
    BY <1>nat, <1>2, <2>1
<1>8. /\ pages' \in Nat /\ file' \in Nat /\ frames' \in Nat /\ wal' \in Nat /\ used' \in Nat
      /\ DiskOK' /\ FilesOK'
  BY <1>1, <1>2, <1>5, <1>6, <1>7, WriteKeeps
<1>9. TypeOK'
  BY <1>0, <1>1, <1>4, <1>8, <1>nat DEF TypeOK, PCs
<1>10. ConfigOK' /\ MutexOK'
  BY <1>1, <1>4 DEF SizeInv, ConfigOK, MutexOK, RotatePC
<1> QED
  BY <1>5, <1>8, <1>9, <1>10 DEF SizeInv

\* What a step of a rotation has to show.
LEMMA RotationStep ==
    ASSUME SizeInv, NEW t \in Threads, NEW l \in PCs \ {"insert"}, Goto(t, l), cfg' = cfg,
           errors' \in 0..MaxErrors, rotateMu \in {None, t}, rotateMu' \in {None, t},
           l \in RotatePC => rotateMu' = t,
           fresh' \in Nat, old' \in Nat, eligible' \in Nat, eligible' <= old',
           used' \in Nat, pages' \in Nat, file' \in Nat, frames' \in Nat, wal' \in Nat,
           Rows' \in Nat, Rows' <= Rows, DiskOK', FilesOK'
    PROVE  SizeInv'
<1>1. pc' \in [Threads -> PCs] /\ pc'[t] = l /\ (\A u \in Threads \ {t} : pc'[u] = pc[u])
      /\ Admitted' \subseteq Admitted
  BY GotoEffect DEF SizeInv
<1>2. TypeOK'
  BY <1>1 DEF TypeOK, PCs
<1>3. ConfigOK'
  BY DEF SizeInv, ConfigOK
<1>4. MutexOK'
  <2>1. \A u \in Threads \ {t} : pc[u] \notin RotatePC
    BY RotationAssumption DEF SizeInv, MutexOK, Threads
  <2> QED
    BY <1>1, <2>1 DEF MutexOK
<1>5. AdmittedOK'
  BY <1>1, AdmittedKept
<1> QED
  BY <1>2, <1>3, <1>4, <1>5 DEF SizeInv

LEMMA RotateSteps ==
    ASSUME SizeInv, NEW t \in Threads, Rotate(t)
    PROVE  SizeInv'
<1>0. TypeOK /\ MutexOK /\ ConfigOK
  BY DEF SizeInv
<1>nat. /\ fresh \in Nat /\ old \in Nat /\ eligible \in Nat /\ Rows \in Nat
        /\ used \in Nat /\ pages \in Nat /\ file \in Nat /\ frames \in Nat /\ wal \in Nat
        /\ Rows <= used /\ used <= pages /\ Rows = fresh + old
        /\ eligible <= old /\ rotateMu \in Threads \cup {None}
  BY DiskType DEF SizeInv, TypeOK, MutexOK
<1>disk. /\ used \in Extent(Rows) /\ pages <= file + frames /\ frames <= wal
         /\ pages <= PageLimit /\ PageLimit \in Nat
  BY Limits DEF SizeInv, DiskOK, FilesOK
<1>same. cfg' = cfg /\ UNCHANGED <<fresh, old, used, pages, file, frames, wal>> =>
           Rows' = Rows /\ DiskOK' /\ FilesOK'
  BY DiskKept DEF Rows
<1>errors. Fails \/ NoFailure => errors' \in 0..MaxErrors
  BY <1>0, ErrorsType
<1>done. \A e \in BOOLEAN : Done(t, e) =>
            rotateMu' = None /\ eligible' = 0 /\ \E l \in {"idle", "check"} : Goto(t, l)
  BY DEF Done
<1>pcs. /\ {"idle", "check"} \subseteq (PCs \ {"insert"}) \ RotatePC
        /\ RotatePC \subseteq PCs \ {"insert"}
        /\ RotatePC = {"loop", "delete", "vacuum", "checkpoint"}
  BY DEF PCs, RotatePC
<1>1. CASE Begin(t)
  <2>1. cfg' = cfg /\ UNCHANGED <<fresh, old, used, pages, file, frames, wal>> /\ rotateMu = None
    BY <1>1 DEF Begin, diskVars
  <2>2. errors' \in 0..MaxErrors
    BY <1>1, <1>errors DEF Begin
  <2>3. \/ \E e \in BOOLEAN : Done(t, e)
        \/ rotateMu' = t /\ eligible' = old /\ Goto(t, "loop")
    BY <1>1 DEF Begin
  <2>4. PICK l \in PCs \ {"insert"} : Goto(t, l) /\ rotateMu' \in {None, t}
           /\ (l \in RotatePC => rotateMu' = t) /\ eligible' \in {0, old}
    BY <2>3, <1>done, <1>pcs
  <2> QED
    BY <1>nat, <1>same, <2>1, <2>2, <2>4, RotationStep
<1>2. CASE Select(t)
  <2>1. cfg' = cfg /\ UNCHANGED <<fresh, old, used, pages, file, frames, wal>> /\ rotateMu = t
    BY <1>2, <1>0, <1>pcs DEF Select, diskVars, MutexOK
  <2>2. errors' \in 0..MaxErrors
    BY <1>2, <1>errors DEF Select
  <2>3. \/ \E e \in BOOLEAN : Done(t, e)
        \/ UNCHANGED <<rotateMu, eligible>> /\ \E l \in {"delete", "vacuum"} : Goto(t, l)
    BY <1>2 DEF Select, rotationVars
  <2>4. PICK l \in PCs \ {"insert"} : Goto(t, l) /\ rotateMu' \in {None, t}
           /\ (l \in RotatePC => rotateMu' = t) /\ eligible' \in {0, eligible}
    BY <2>1, <2>3, <1>done, <1>pcs
  <2> QED
    BY <1>nat, <1>same, <2>1, <2>2, <2>4, RotationStep
<1>3. CASE Delete(t)
  <2> DEFINE n == Batch(eligible)
  <2>n. n \in Nat /\ n <= eligible
    BY <1>nat, RotationAssumption, MinOfTwo DEF Batch
  <2> HIDE DEF n
  <2>1. cfg' = cfg /\ rotateMu = t
    BY <1>3, <1>0, <1>pcs DEF Delete, MutexOK
  <2>2. errors' \in 0..MaxErrors
    BY <1>3, <1>errors DEF Delete
  <2>3. CASE UNCHANGED diskVars /\ \E e \in BOOLEAN : Done(t, e)
    <3>1. UNCHANGED <<fresh, old, used, pages, file, frames, wal>>
      BY <2>3 DEF diskVars
    <3>2. PICK l \in PCs \ {"insert"} : Goto(t, l) /\ rotateMu' \in {None, t}
             /\ (l \in RotatePC => rotateMu' = t) /\ eligible' = 0
      BY <2>3, <1>done, <1>pcs
    <3> QED
      BY <1>nat, <1>same, <2>1, <2>2, <3>1, <3>2, RotationStep
  <2>4. CASE /\ old' = old - n /\ Commit(n, pages) /\ fresh' = fresh
             /\ \E s \in Extent(n) : used - s \in Extent(Rows - n) /\ used' = used - s
             /\ \/ eligible' = eligible - n /\ Goto(t, "loop") /\ rotateMu' = rotateMu
                \/ \E e \in BOOLEAN : Done(t, e)
    <3>1. n <= PageLimit
      BY <1>nat, <1>disk, <2>n
    <3>2. /\ pages' = pages /\ file' \in Nat /\ frames' \in Nat /\ wal' \in Nat
          /\ pages' <= file' + frames' /\ frames' <= wal' /\ FilesOK'
      BY <1>nat, <1>disk, <2>n, <2>1, <2>4, <3>1, CommitKeeps
    <3>3. PICK l \in PCs \ {"insert"} : Goto(t, l) /\ rotateMu' \in {None, t}
             /\ (l \in RotatePC => rotateMu' = t) /\ eligible' \in {0, eligible - n}
      BY <2>1, <2>4, <1>done, <1>pcs
    <3>4. old' \in Nat /\ fresh' \in Nat /\ eligible' \in Nat /\ eligible' <= old'
      BY <1>nat, <2>n, <2>4, <3>3
    <3>5. Rows' = Rows - n /\ Rows' \in Nat /\ Rows' <= Rows
      BY <1>nat, <2>n, <2>4 DEF Rows
    <3>6. PICK s \in Extent(n) : used - s \in Extent(Rows - n) /\ used' = used - s
      BY <2>4
    <3>7. s \in Nat /\ used' \in Extent(Rows')
      BY <2>n, <3>5, <3>6, ExtentType
    <3>8. used' \in Nat /\ used' <= used
      BY <1>nat, <3>5, <3>6, <3>7, ExtentType
    <3>9. DiskOK'
      <4>1. used' <= pages'
        BY <1>nat, <3>2, <3>8
      <4> QED
        BY <3>2, <3>7, <4>1 DEF DiskOK, Extent
    <3>10. pages' \in Nat /\ rotateMu \in {None, t}
      BY <1>nat, <2>1, <3>2
    <3> QED
      BY <2>1, <2>2, <3>2, <3>3, <3>4, <3>5, <3>8, <3>9, <3>10, RotationStep
  <2> QED
    BY <1>3, <2>3, <2>4 DEF Delete, n
<1>4. CASE Vacuum(t)
  <2>1. cfg' = cfg /\ UNCHANGED <<fresh, old, used, rotateMu, eligible>> /\ rotateMu = t
        /\ Goto(t, "checkpoint")
    BY <1>4, <1>0, <1>pcs DEF Vacuum, rotationVars, MutexOK
  <2>2. errors' \in 0..MaxErrors
    BY <1>4, <1>errors DEF Vacuum
  <2>3. CASE UNCHANGED <<pages, file, frames, wal>>
    BY <1>nat, <1>same, <1>pcs, <2>1, <2>2, <2>3, RotationStep
  <2>4. CASE Commit(used, used)
    <3>1. used <= PageLimit
      BY <1>nat, <1>disk
    <3>2. /\ pages' = used /\ pages' \in Nat /\ file' \in Nat /\ frames' \in Nat /\ wal' \in Nat
          /\ pages' <= file' + frames' /\ frames' <= wal' /\ FilesOK'
      BY <1>nat, <2>1, <2>4, <3>1, CommitKeeps
    <3>3. Rows' = Rows /\ used' = used
      BY <2>1 DEF Rows
    <3>4. DiskOK'
      <4>1. used' \in Extent(Rows') /\ used' <= pages'
        BY <1>nat, <1>disk, <3>2, <3>3
      <4> QED
        BY <3>2, <4>1 DEF DiskOK, Extent
    <3> QED
      BY <1>nat, <1>pcs, <2>1, <2>2, <3>2, <3>3, <3>4, RotationStep
  <2> QED
    BY <1>4, <2>3, <2>4 DEF Vacuum
<1>5. CASE Finish(t)
  <2>1. cfg' = cfg /\ UNCHANGED <<fresh, old, used, pages>> /\ rotateMu = t
    BY <1>5, <1>0, <1>pcs DEF Finish, MutexOK
  <2>2. errors' \in 0..MaxErrors
    BY <1>5, <1>errors DEF Finish
  <2>3. /\ CheckpointWAL \/ UNCHANGED <<file, frames, wal>>
        /\ \E e \in BOOLEAN : Done(t, e)
    BY <1>5 DEF Finish
  <2>4. PICK l \in PCs \ {"insert"} : Goto(t, l) /\ rotateMu' \in {None, t}
           /\ (l \in RotatePC => rotateMu' = t) /\ eligible' = 0
    BY <2>3, <1>done, <1>pcs
  <2>5. Rows' = Rows /\ used' = used
    BY <2>1 DEF Rows
  <2>6. file' \in Nat /\ frames' \in Nat /\ wal' \in Nat /\ DiskOK' /\ FilesOK'
    <3>1. CASE UNCHANGED <<file, frames, wal>>
      BY <1>nat, <1>same, <2>1, <3>1
    <3>2. CASE CheckpointWAL
      <4>1. file' = pages /\ frames' = 0 /\ wal' = 0
        BY <3>2 DEF CheckpointWAL
      <4>2. PageLimit' = PageLimit /\ AutoCheckpoint \in Nat
        BY <1>0, <2>1, Limits, RotationAssumption
      <4> QED
        BY <1>nat, <1>disk, <2>1, <2>5, <4>1, <4>2 DEF DiskOK, FilesOK
    <3> QED
      BY <2>3, <3>1, <3>2
  <2>7. /\ fresh' \in Nat /\ old' \in Nat /\ eligible' \in Nat /\ eligible' <= old'
        /\ used' \in Nat /\ pages' \in Nat /\ rotateMu \in {None, t}
        /\ Rows' \in Nat /\ Rows' <= Rows
    BY <1>nat, <2>1, <2>4, <2>5
  <2> QED
    BY <2>1, <2>2, <2>4, <2>6, <2>7, RotationStep
<1> QED
  BY <1>1, <1>2, <1>3, <1>4, <1>5 DEF Rotate

\* The attempts and time.
LEMMA OtherSteps ==
    ASSUME SizeInv, UpdateRow \/ Age
    PROVE  SizeInv'
<1>0. TypeOK
  BY DEF SizeInv
<1>nat. /\ fresh \in Nat /\ old \in Nat /\ eligible \in Nat /\ used \in Nat
        /\ Rows \in Nat /\ Rows = fresh + old
  BY DiskType
<1>1. CASE UpdateRow
  <2>1. UNCHANGED <<cfg, fresh, old, pc, rotateMu, eligible, errors>> /\ fresh > 0
    BY <1>1 DEF UpdateRow, rotationVars
  <2>2. PICK s, t \in Extent(1) : /\ used - s \in Extent(Rows - 1)
                                  /\ used' = used - s + t
                                  /\ Write(t)
    BY <1>1 DEF UpdateRow
  <2>3. Rows' = Rows /\ Rows - 1 \in Nat
    BY <1>nat, <2>1 DEF Rows
  <2>4. s \in Nat /\ t \in Nat /\ used - s \in Nat
    BY <2>2, <2>3, ExtentType
  <2>5. used' \in Extent(Rows')
    <3>1. (used - s) + t \in Extent((Rows - 1) + 1)
      BY <2>2, <2>3, ExtentAdds
    <3>2. (Rows - 1) + 1 = Rows
      BY <1>nat
    <3> QED
      BY <2>2, <2>3, <3>1, <3>2
  <2>6. used' <= used + t /\ t <= used'
    BY <1>nat, <2>2, <2>4
  <2>7. Rows' \in Nat /\ Rows' <= RowLimit
    <3>1. Rows + Cardinality(Admitted) <= RowLimit /\ RowLimit \in Nat
      BY Limits DEF SizeInv, AdmittedOK
    <3>2. Cardinality(Admitted) \in Nat
      BY RotationAssumption, FS_Subset, FS_CardinalityType DEF Admitted
    <3> QED
      BY <1>nat, <2>3, <3>1, <3>2
  <2>8. /\ pages' \in Nat /\ file' \in Nat /\ frames' \in Nat /\ wal' \in Nat /\ used' \in Nat
        /\ DiskOK' /\ FilesOK'
    BY <2>1, <2>2, <2>5, <2>6, <2>7, WriteKeeps
  <2>9. TypeOK'
    BY <1>0, <2>1, <2>8 DEF TypeOK
  <2>10. ConfigOK' /\ MutexOK'
    BY <2>1 DEF SizeInv, ConfigOK, MutexOK, RotatePC
  <2>11. AdmittedOK'
    BY <1>nat, <2>1, <2>3, AdmittedKept DEF Admitted
  <2> QED
    BY <2>8, <2>9, <2>10, <2>11 DEF SizeInv
<1>2. CASE Age
  <2>1. UNCHANGED <<cfg, used, pages, file, frames, wal, pc, rotateMu, eligible, errors>>
        /\ fresh > 0 /\ fresh' = fresh - 1 /\ old' = old + 1
    BY <1>2 DEF Age, rotationVars
  <2>2. fresh' \in Nat /\ old' \in Nat /\ Rows' = Rows /\ (eligible <= old => eligible' <= old')
    BY <1>nat, <2>1 DEF Rows
  <2>3. TypeOK'
    BY <1>0, <2>1, <2>2 DEF TypeOK
  <2>4. ConfigOK' /\ MutexOK'
    BY <2>1, <2>2 DEF SizeInv, ConfigOK, MutexOK
  <2>5. DiskOK' /\ FilesOK'
    BY <2>1, <2>2, DiskKept
  <2>6. AdmittedOK'
    BY <1>nat, <2>1, <2>2, AdmittedKept DEF Admitted
  <2> QED
    BY <2>3, <2>4, <2>5, <2>6 DEF SizeInv
<1> QED
  BY <1>1, <1>2

LEMMA SizeInit == Init => SizeInv
<1> SUFFICES ASSUME Init PROVE SizeInv
  OBVIOUS
<1>1. TypeOK
  BY RotationAssumption DEF Init, TypeOK
<1>2. ConfigOK
  BY StartedOK
<1>3. Rows = 0 /\ MaxRow \in Nat /\ AutoCheckpoint \in Nat /\ RowLimit \in Nat /\ PageLimit \in Nat
  BY <1>2, Limits, RotationAssumption DEF Init, Rows
<1>4. used \in Extent(Rows)
  BY <1>3 DEF Init, Extent
<1>5. DiskOK /\ FilesOK
  BY <1>3, <1>4 DEF Init, DiskOK, FilesOK
<1>6. MutexOK
  BY DEF Init, MutexOK, RotatePC
<1>7. AdmittedOK
  <2>1. Admitted = {}
    BY DEF Init, Admitted, Threads
  <2>2. Cardinality(Admitted) = 0
    BY <2>1, FS_EmptySet
  <2> QED
    BY <1>3, <2>2 DEF AdmittedOK
<1> QED
  BY <1>1, <1>2, <1>5, <1>6, <1>7 DEF SizeInv

LEMMA SizeStep == SizeInv /\ [Next]_vars => SizeInv'
<1> SUFFICES ASSUME SizeInv, [Next]_vars PROVE SizeInv'
  OBVIOUS
<1>1. CASE UNCHANGED vars
  <2>1. UNCHANGED <<cfg, fresh, old, eligible, used, pages, file, frames, wal, pc, rotateMu,
                    errors>>
    BY <1>1 DEF vars
  <2>2. Rows' = Rows /\ RowLimit' = RowLimit /\ Admitted' = Admitted
    BY <2>1 DEF Rows, RowLimit, MaxSize, Admitted
  <2>3. DiskOK' /\ FilesOK'
    BY <2>1, <2>2, DiskKept
  <2> QED
    BY <2>1, <2>2, <2>3 DEF SizeInv, TypeOK, ConfigOK, MutexOK, AdmittedOK
<1>2. CASE Next
  BY <1>2, RequestSteps, InsertStep, RotateSteps, OtherSteps DEF Next
<1> QED
  BY <1>1, <1>2

LEMMA SizeFacts == SizeInv => TypeOK /\ StoreIsBounded
<1> SUFFICES ASSUME SizeInv PROVE StoreIsBounded
  BY DEF SizeInv
<1>1. IsFiniteSet(Requests) /\ Admitted \in SUBSET Requests
  BY RotationAssumption DEF Admitted
<1>2. Cardinality(Admitted) \in Nat
  BY <1>1, FS_Subset, FS_CardinalityType
<1>3. /\ Rows \in Nat /\ file \in Nat /\ wal \in Nat
      /\ RowLimit \in Nat /\ PageLimit \in Nat /\ AutoCheckpoint \in Nat
  BY DiskType, Limits, RotationAssumption DEF SizeInv
<1>4. Rows + Cardinality(Admitted) <= RowLimit
  BY DEF SizeInv, AdmittedOK
<1>5. pages <= PageLimit /\ file <= PageLimit /\ wal <= PageLimit + AutoCheckpoint
  BY DEF SizeInv, FilesOK
<1>6. Rows <= RowLimit
  BY <1>2, <1>3, <1>4
<1>7. SizeBytes <= 2 * PageLimit + AutoCheckpoint
  BY <1>3, <1>5 DEF SizeBytes
<1> QED
  BY <1>5, <1>6, <1>7 DEF StoreIsBounded

\* The counters that DeliveryService and SQLite keep stay in range; in particular
\* RotateStore never deletes more rows than SelectRotatable has found.
THEOREM RotationTypes == Spec => []TypeOK
BY SizeInit, SizeStep, SizeFacts, PTL DEF Spec

\* How far the store outgrows STORE_MAX_SIZE_BYTES: by the webhooks that EnsureCapacity
\* admitted at the same time and by what updates add to the rows, however rows grow and
\* whatever is still in the WAL, for every accepted configuration.
THEOREM BoundedStore == Spec => []StoreIsBounded
BY SizeInit, SizeStep, SizeFacts, PTL DEF Spec

=============================================================================
