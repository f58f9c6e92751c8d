------------------------- MODULE TranscriptStoreProofs -------------------------
(***************************************************************************)
(* The stores keep their caps, the file store's index is its directory,    *)
(* and the answers of the endpoint hold, for every number of matches and   *)
(* reads, every policy, and any number of restarts, clock steps, full      *)
(* disks, failed writes and files held or lost.                            *)
(*                                                                         *)
(* The invariant says it of every step of a put, not only when the lock is *)
(* free.  Two facts carry the rest.  A name never comes back while a file  *)
(* of that name is being given up or read (NamesAreNew), so no file is     *)
(* taken for another.  And a match of which nothing is stored and nothing  *)
(* more will be put stays gone (Gone), so that a 404 is final.             *)
(***************************************************************************)
EXTENDS TranscriptStore, FiniteSetTheorems, WellFoundedInduction, TLAPS

Clock == 0..MaxClock
Record == [ended : Clock, name : Clock]
IsIndex(ix) == DOMAIN ix \subseteq Matches /\ ix \in [DOMAIN ix -> Record]

Putting == put # NoPut
PutFile == <<put.id, put.ended>>

\* The caps, for transcripts of the sizes w.
Weight(w, ids) == MapThenSumSet(LAMBDA m : w[m], ids)
Within(w, ids) == Cardinality(ids) <= MaxEntries /\ Weight(w, ids) <= MaxBytes

----------------------------------------------------------------------------
(* The invariant *)

StoreTypes ==
  /\ backend \in {"memory", "file", "sqlite"} /\ size \in [Matches -> Nat] /\ now \in Clock
  /\ IsIndex(index)
  /\ disk \subseteq Paths /\ orphans \subseteq disk /\ held \subseteq disk
  /\ backend # "file" => disk = {} /\ put = NoPut
  /\ Putting => /\ put \in [at : {"write", "replace", "index"}, id : Matches,
                            ended : Clock, again : BOOLEAN]
                /\ size[put.id] <= RecordLimit
  /\ tmps \subseteq {put.id} /\ (put.at \in {"none", "index"} => tmps = {})

\* The records of ix have their files among `files`, unless they are `lost`; and
\* each file is that of its record, waits to be deleted, or is an `extra` one.
Mirrors(ix, files, waiting, lost, extra) ==
  /\ \A m \in DOMAIN ix : File(ix, m) \notin waiting /\ (File(ix, m) \in files \/ m \in lost)
  /\ \A f \in files : \/ f[1] \in DOMAIN ix /\ f = File(ix, f[1])
                      \/ f \in waiting \/ f \in extra

Indexed ==
  backend = "file" =>
    /\ Mirrors(index, disk, orphans, shed, IF put.at = "index" THEN {PutFile} ELSE {})
    /\ put.at = "index" => PutFile \in disk \/ put.id \in shed

CapsHeld ==
  IF Putting THEN Within(size, DOMAIN index \union {put.id}) ELSE Within(size, DOMAIN index)

NamesAreNew ==
  /\ \A m \in DOMAIN index :
       <<m, now>> \in orphans \union BeingRead => index[m].ended <= now + Slack
  /\ Putting =>
       /\ PutFile \notin BeingRead
       /\ PutFile \in orphans => PutFile \in held /\ put.at # "index"
       /\ <<put.id, now>> \in Taken => now = put.ended

DriverKnown ==
  /\ driver \in [Matches -> [at : {"absent", "created", "storing", "ended", "told", "over"},
                             puts : Nat, kept : BOOLEAN]]
  /\ Putting => driver[put.id].at = "storing"
  /\ \A m \in Matches :
       /\ driver[m].kept => m \in settled /\ (m \in shed \/ m \in DOMAIN index)
       /\ driver[m].at \in {"storing", "ended", "told"} => m \in registered
       /\ driver[m].at \in {"absent", "created"} => m \notin settled

\* No transcript of m is stored, and none will be.
Decided(m) ==
  driver[m].at \in {"told", "over"} \/ (driver[m].at = "created" /\ m \notin registered)
Gone(m) == Decided(m) /\ m \notin DOMAIN index /\ \A f \in disk : f[1] # m

Denials == denied \subseteq Matches /\ \A m \in denied : Gone(m)

Read ==
  [at : {"idle", "asked", "lookup", "open", "missing", "200", "409", "404"},
   id : Matches \union {NoMatch}, pending : BOOLEAN, file : Paths \union {<<>>},
   tries : 0..2, told : BOOLEAN, late : BOOLEAN]
ReaderTypes == reader \in [Readers -> Read]

\* The answer that r was given, or will be, is right.
ReaderKnown(r) ==
  LET x == reader[r]
      m == reader[r].id
  IN
  /\ x.at = "idle" => ~x.told /\ ~x.late
  /\ x.at # "idle" =>
       /\ m \in Matches /\ driver[m].at # "absent"
       /\ ~x.pending => m \in settled \/ (m \notin registered /\ driver[m].at \in {"created", "over"})
  /\ x.at \in {"lookup", "open", "missing"} =>
       IF m \in DOMAIN index THEN TRUE \in saw[r] ELSE FALSE \in saw[r]
  /\ x.at \in {"open", "missing"} =>
       /\ backend = "file" /\ x.file \in Paths /\ x.file[1] = m /\ TRUE \in saw[r]
       /\ x.at = "missing" => x.file \notin disk
  /\ x.at = "200" => TRUE \in saw[r]
  /\ x.at \in {"409", "404"} => FALSE \in saw[r] \/ x.tries = 2
  /\ x.at = "409" => x.pending
  /\ x.told => /\ ~x.pending /\ driver[m].at \in {"told", "over"} /\ driver[m].kept
               /\ x.at = "404" => m \in shed \/ x.tries = 2
  /\ x.late => m \in denied /\ x.at \notin {"open", "missing", "200"}

StoreInv == StoreTypes /\ Indexed /\ CapsHeld /\ NamesAreNew
ReadersInv == ReaderTypes /\ \A r \in Readers : ReaderKnown(r)
IInv == StoreInv /\ DriverKnown /\ Denials /\ ReadersInv

----------------------------------------------------------------------------
(* The weight of a set of transcripts, counted byte by byte *)

Cells(w, A) == UNION {{m} \X (1..w[m]) : m \in A}

\* The bytes of finitely many transcripts are finitely many.
LEMMA CellsAreFinite ==
  ASSUME NEW w \in [Matches -> Nat], NEW A \in SUBSET Matches
  PROVE  IsFiniteSet(A) /\ IsFiniteSet(Cells(w, A))
<1> DEFINE T == {{m} \X (1..w[m]) : m \in A}
           f == [m \in A |-> {m} \X (1..w[m])]
<1>1. IsFiniteSet(A)
  BY FS_Subset, StoreAssumption
<1>2. IsFiniteSet(T)
  <2>1. f \in Surjection(A, T)
    BY DEF Surjection
  <2> HIDE DEF T, f
  <2> QED BY <1>1, <2>1, FS_Surjection
<1>3. ASSUME NEW m \in A PROVE IsFiniteSet({m} \X (1..w[m]))
  <2>1. w[m] \in Int /\ 1 \in Int
    OBVIOUS
  <2>2. IsFiniteSet(1..w[m])
    BY <2>1, FS_Interval
  <2> QED BY <2>2, FS_Singleton, FS_Product
<1>4. \A t \in T : IsFiniteSet(t)
  BY <1>3
<1> HIDE DEF T
<1>5. IsFiniteSet(UNION T)
  BY <1>2, <1>4, FS_UNION
<1> QED BY <1>1, <1>5 DEF Cells, T

\* One transcript more weighs its own bytes more.
LEMMA CellsAdd ==
  ASSUME NEW w \in [Matches -> Nat], NEW A \in SUBSET Matches, NEW x \in A
  PROVE  Cardinality(Cells(w, A)) = w[x] + Cardinality(Cells(w, A \ {x}))
<1> DEFINE X == {x} \X (1..w[x])  R == Cells(w, A \ {x})
<1>1. Cells(w, A) = X \union R /\ X \cap R = {}
  BY DEF Cells
<1>2. IsFiniteSet(R)
  BY CellsAreFinite
<1>3. w[x] \in Nat
  OBVIOUS
<1>4. IsFiniteSet(X) /\ Cardinality(X) = w[x]
  <2>1. IsFiniteSet({x}) /\ Cardinality({x}) = 1
    BY FS_Singleton
  <2>2. IsFiniteSet(1..w[x]) /\ Cardinality(1..w[x]) = w[x]
    BY <1>3, FS_Interval
  <2>3. Cardinality({x} \X (1..w[x])) = Cardinality({x}) * Cardinality(1..w[x])
    BY <2>1, <2>2, FS_Product
  <2>4. IsFiniteSet({x} \X (1..w[x]))
    BY <2>1, <2>2, FS_Product
  <2>5. 1 * w[x] = w[x]
    BY <1>3
  <2> QED BY <2>1, <2>2, <2>3, <2>4, <2>5
<1> HIDE DEF X, R
<1>5. Cardinality(X \union R) = Cardinality(X) + Cardinality(R) - Cardinality({})
  BY <1>1, <1>2, <1>4, FS_Union
<1>6. Cardinality({}) = 0 /\ Cardinality(R) \in Nat
  BY <1>2, FS_EmptySet, FS_CardinalityType
<1> QED BY <1>1, <1>3, <1>4, <1>5, <1>6 DEF R

\* The fold of Total is that count.  The fold is a function defined by recursion:
\* the count satisfies its equation, and no other function does.
LEMMA WeightIs ==
  ASSUME NEW w \in [Matches -> Nat], NEW A \in SUBSET Matches
  PROVE  Weight(w, A) = Cardinality(Cells(w, A))
<1> DEFINE Step(g) == [s \in SUBSET A |->
              IF s = {} THEN 0
              ELSE LET x == CHOOSE x \in s : TRUE IN w[x] + g[s \ {x}]]
           iter == CHOOSE g : g = Step(g)
           card == [s \in SUBSET A |-> Cardinality(Cells(w, s))]
<1>1. Weight(w, A) = iter[A]
  BY DEF Weight, MapThenSumSet, MapThenFoldSet
<1>2. ASSUME NEW s \in SUBSET A
      PROVE /\ IsFiniteSet(s) /\ Cardinality(s) \in Nat
            /\ s = {} => Cardinality(Cells(w, s)) = 0
            /\ \A x \in s : Cardinality(Cells(w, s)) = w[x] + Cardinality(Cells(w, s \ {x}))
  <2>1. IsFiniteSet(s)
    BY CellsAreFinite
  <2>2. Cardinality(Cells(w, {})) = 0
    <3>1. Cells(w, {}) = {}
      BY DEF Cells
    <3> QED BY <3>1, FS_EmptySet
  <2>3. ASSUME NEW x \in s
        PROVE Cardinality(Cells(w, s)) = w[x] + Cardinality(Cells(w, s \ {x}))
    BY CellsAdd
  <2> QED BY <2>1, <2>2, <2>3, FS_CardinalityType
<1>3. card = Step(card)
  <2> SUFFICES ASSUME NEW s \in SUBSET A PROVE card[s] = Step(card)[s]
    OBVIOUS
  <2>1. CASE s = {}
    BY <1>2, <2>1
  <2>2. CASE s # {}
    <3> DEFINE x == CHOOSE x \in s : TRUE
    <3>1. x \in s /\ s \ {x} \in SUBSET A
      BY <2>2
    <3> HIDE DEF x
    <3>2. card[s] = w[x] + card[s \ {x}]
      BY <1>2, <3>1
    <3> QED BY <2>2, <3>2 DEF x
  <2> QED BY <2>1, <2>2
<1>4. iter = Step(iter)
  <2> HIDE DEF Step, card
  <2> QED BY <1>3
<1>5. \A s \in SUBSET A : iter[s] = card[s]
  <2> DEFINE B == {s \in SUBSET A : iter[s] # card[s]}
             N == {Cardinality(s) : s \in B}
  <2> SUFFICES ASSUME B # {} PROVE FALSE
    OBVIOUS
  <2>1. N \subseteq Nat /\ N # {}
    BY <1>2
  <2>2. PICK n \in N : \A k \in N : ~ (<<k, n>> \in OpToRel(<, Nat))
    BY <2>1, NatLessThanWellFounded, WFMin
  <2>3. PICK s \in B : n = Cardinality(s)
    OBVIOUS
  <2>4. s \in SUBSET A /\ iter[s] = Step(iter)[s] /\ card[s] = Step(card)[s]
    <3>1. s \in SUBSET A
      OBVIOUS
    <3> HIDE DEF Step, iter, card
    <3> QED BY <1>3, <1>4, <3>1
  <2>5. s # {}
    <3> SUFFICES ASSUME s = {} PROVE FALSE
      OBVIOUS
    <3>1. iter[s] = 0 /\ card[s] = 0
      <4> HIDE DEF iter, card
      <4> QED BY <2>4
    <3> QED BY <3>1
  <2> DEFINE x == CHOOSE x \in s : TRUE
  <2>6. x \in s /\ s \ {x} \in SUBSET A
    BY <2>4, <2>5
  <2>7. iter[s] = w[x] + iter[s \ {x}] /\ card[s] = w[x] + card[s \ {x}]
    <3> HIDE DEF iter, card
    <3> QED BY <2>4, <2>5
  <2>8. Cardinality(s \ {x}) = Cardinality(s) - 1 /\ Cardinality(s) \in Nat
        /\ Cardinality(s \ {x}) \in Nat
    <3> HIDE DEF x
    <3> QED BY <1>2, <2>4, <2>6, FS_RemoveElement
  <2>9. s \ {x} \notin B
    <3> SUFFICES ASSUME s \ {x} \in B PROVE FALSE
      OBVIOUS
    <3> HIDE DEF x, B
    <3>1. Cardinality(s \ {x}) \in N
      OBVIOUS
    <3>2. ~ (<<Cardinality(s \ {x}), n>> \in OpToRel(<, Nat))
      BY <2>2, <3>1
    <3>3. ~ (Cardinality(s \ {x}) < n)
      BY <2>3, <2>8, <3>2 DEF OpToRel
    <3> QED BY <2>3, <2>8, <3>3
  <2>10. iter[s \ {x}] = card[s \ {x}]
    <3> HIDE DEF iter, card, x
    <3> QED BY <2>6, <2>9
  <2>11. iter[s] = card[s]
    <3> HIDE DEF iter, card, x
    <3> QED BY <2>7, <2>10
  <2> QED BY <2>3, <2>11
<1> HIDE DEF iter, card
<1>6. iter[A] = card[A]
  BY <1>5
<1> QED BY <1>1, <1>6 DEF card

\* Fewer transcripts are within the caps too; so are none, and one that put accepts.
LEMMA WithinSubset ==
  ASSUME NEW w \in [Matches -> Nat], NEW B \in SUBSET Matches, NEW A \in SUBSET B,
         Within(w, B)
  PROVE  Within(w, A)
<1>1. A \in SUBSET Matches /\ Cells(w, A) \in SUBSET Cells(w, B)
  BY DEF Cells
<1>2. IsFiniteSet(B) /\ IsFiniteSet(Cells(w, B)) /\ IsFiniteSet(A) /\ IsFiniteSet(Cells(w, A))
  BY <1>1, CellsAreFinite
<1>3. Cardinality(A) <= Cardinality(B) /\ Cardinality(Cells(w, A)) <= Cardinality(Cells(w, B))
  BY <1>1, <1>2, FS_Subset
<1>4. /\ Cardinality(A) \in Nat /\ Cardinality(B) \in Nat
      /\ Cardinality(Cells(w, A)) \in Nat /\ Cardinality(Cells(w, B)) \in Nat
  BY <1>2, FS_CardinalityType
<1>5. Weight(w, A) = Cardinality(Cells(w, A)) /\ Weight(w, B) = Cardinality(Cells(w, B))
  BY <1>1, WeightIs
<1> QED BY <1>3, <1>4, <1>5, StoreAssumption DEF Within

\* A record no larger than a record may be is within the limits alone.
LEMMA WithinOne ==
  ASSUME NEW w \in [Matches -> Nat], NEW m \in Matches, w[m] <= RecordLimit
  PROVE  Within(w, {m}) /\ Within(w, {})
<1>1. Cardinality({m}) = 1
  BY FS_Singleton
<1>2. Cells(w, {m} \ {m}) = {}
  BY DEF Cells
<1>3. Cardinality(Cells(w, {m})) = w[m] + Cardinality(Cells(w, {m} \ {m}))
  BY CellsAdd
<1>4. Weight(w, {m}) = Cardinality(Cells(w, {m}))
  BY WeightIs
<1>5. Cardinality({}) = 0
  BY FS_EmptySet
<1>6. Weight(w, {m}) = w[m] /\ w[m] \in Nat
  BY <1>2, <1>3, <1>4, <1>5
<1>7. Within(w, {m})
  BY <1>1, <1>6, StoreAssumption DEF Within
<1> QED BY <1>7, WithinSubset

\* No record is within the limits.
LEMMA WithinNone ==
  ASSUME NEW w \in [Matches -> Nat]
  PROVE  Within(w, {})
<1>1. Cells(w, {}) = {}
  BY DEF Cells
<1>2. Cardinality({}) = 0
  BY FS_EmptySet
<1>3. Weight(w, {}) = Cardinality(Cells(w, {}))
  BY WeightIs
<1> QED BY <1>1, <1>2, <1>3, StoreAssumption DEF Within

----------------------------------------------------------------------------
(* What the operations on the index give *)

\* What fits in a store is what is within its limits by its sizes.
LEMMA FitsIs ==
  ASSUME NEW ids
  PROVE  Fits(ids) <=> Within(size, ids)
BY DEF Fits, Within, Weight, Total

\* Room is made: with the new record the caps hold, for it alone would fit.
LEMMA RoomIsMade ==
  ASSUME NEW ix, DOMAIN ix \subseteq Matches, NEW m \in Matches,
         size \in [Matches -> Nat], size[m] <= RecordLimit, NEW D \in RoomFor(ix, m)
  PROVE  D \subseteq DOMAIN ix \ {m} /\ Within(size, (DOMAIN ix \ D) \union {m})
<1>1. D \subseteq DOMAIN ix \ {m}
  BY DEF RoomFor, Oldest
<1>2. Fits((DOMAIN ix \ D) \union {m}) \/ D = DOMAIN ix \ {m}
  BY DEF RoomFor, Oldest
<1>3. CASE D = DOMAIN ix \ {m}
  <2>1. (DOMAIN ix \ D) \union {m} = {m}
    BY <1>3
  <2> QED BY <1>1, <2>1, WithinOne
<1> QED BY <1>1, <1>2, <1>3, FitsIs

\* At start, what is over the caps goes.
LEMMA CapsAreMade ==
  ASSUME NEW ix, DOMAIN ix \subseteq Matches, size \in [Matches -> Nat], NEW D \in OverCaps(ix)
  PROVE  D \subseteq DOMAIN ix /\ Within(size, DOMAIN ix \ D)
<1>1. D \subseteq DOMAIN ix
  BY DEF OverCaps, Oldest
<1>2. Fits(DOMAIN ix \ D) \/ D = DOMAIN ix
  <2>1. DOMAIN ix \ {NoMatch} = DOMAIN ix
    BY StoreAssumption
  <2> QED BY <2>1 DEF OverCaps, Oldest
<1>3. CASE D = DOMAIN ix
  <2>1. DOMAIN ix \ D = {}
    BY <1>3
  <2> QED BY <1>1, <2>1, WithinNone
<1> QED BY <1>1, <1>2, <1>3, FitsIs

\* What is dropped to make room is in the index, and is not the record put.
LEMMA HoldingSpares ==
  ASSUME NEW ix, NEW m, NEW bytes, NEW D \in OldestHolding(ix, m, bytes)
  PROVE  D \subseteq DOMAIN ix \ {m}
BY DEF OldestHolding, Oldest

\* The part of the index that is kept, record by record.
LEMMA KeepIs ==
  ASSUME NEW ix, IsIndex(ix), NEW ids
  PROVE  /\ DOMAIN Keep(ix, ids) = DOMAIN ix \cap ids /\ IsIndex(Keep(ix, ids))
         /\ \A m \in DOMAIN ix \cap ids : /\ Keep(ix, ids)[m] = ix[m]
                                          /\ File(Keep(ix, ids), m) = File(ix, m)
BY DEF Keep, IsIndex, File

\* A clamp re-dates the records from the future and no other.
LEMMA ClampIs ==
  ASSUME NEW ix, IsIndex(ix), NEW files, now \in Clock
  PROVE  /\ DOMAIN Clamped(ix, files) = DOMAIN ix /\ IsIndex(Clamped(ix, files))
         /\ \A m \in DOMAIN ix :
              /\ Clamped(ix, files)[m].ended <= now + Slack
              /\ m \notin Future(ix) => File(Clamped(ix, files), m) = File(ix, m)
              /\ m \in Renamed(ix, files) => File(Clamped(ix, files), m) = <<m, now>>
              /\ backend = "file" /\ m \notin Renamed(ix, files)
                   => File(Clamped(ix, files), m) = File(ix, m)
<1> DEFINE c == Clamped(ix, files)
<1>1. DOMAIN c = DOMAIN ix
  BY DEF Clamped
<1>2. ASSUME NEW m \in DOMAIN ix
      PROVE /\ c[m] \in Record
            /\ c[m].ended <= now + Slack
            /\ m \notin Future(ix) => c[m].name = ix[m].name
            /\ m \in Renamed(ix, files) => c[m].name = now
            /\ backend = "file" /\ m \notin Renamed(ix, files) => c[m].name = ix[m].name
  <2>1. ix[m] \in Record /\ ix[m].ended \in Nat /\ ix[m].name \in Clock
    BY StoreAssumption DEF IsIndex, Record, Clock
  <2>2. CASE m \notin Future(ix)
    <3>1. c[m] = ix[m]
      BY <2>2 DEF Clamped
    <3>2. ~(ix[m].ended > now + Slack)
      BY <2>2 DEF Future
    <3>3. m \notin Renamed(ix, files)
      BY <2>2 DEF Renamed
    <3>4. now \in Nat /\ Slack \in Nat
      BY StoreAssumption DEF Clock
    <3> QED BY <2>1, <3>1, <3>2, <3>3, <3>4
  <2>3. CASE m \in Future(ix)
    <3>1. c[m] = [ended |-> now, name |-> IF m \in Renamed(ix, files) \/ backend # "file"
                                            THEN now ELSE ix[m].name]
      BY <2>3 DEF Clamped
    <3>2. now <= now + Slack
      BY StoreAssumption DEF Clock
    <3> QED BY <2>1, <2>3, <3>1, <3>2 DEF Record
  <2> QED BY <2>2, <2>3
<1>3. IsIndex(c)
  <2>1. c \in [DOMAIN c -> Record]
    BY <1>1, <1>2 DEF Clamped
  <2> QED BY <1>1, <2>1 DEF IsIndex
<1> QED BY <1>1, <1>2, <1>3 DEF File

\* The files change their names, and no held one does.
LEMMA ClampedFilesAre ==
  ASSUME NEW ix, IsIndex(ix), NEW files \in SUBSET Paths, now \in Clock
  PROVE  /\ ClampedFiles(ix, files) \subseteq Paths
         /\ \A f \in ClampedFiles(ix, files) :
              f \in files \/ (f[1] \in Renamed(ix, files) /\ f = <<f[1], now>>)
         /\ files \cap held \subseteq ClampedFiles(ix, files)
         /\ files = {} => ClampedFiles(ix, files) = {}
<1>1. Renamed(ix, files) \subseteq Matches
  BY DEF Renamed, Future, IsIndex
<1>2. ASSUME NEW m \in Renamed(ix, files) PROVE File(ix, m) \in files \ held
  BY DEF Renamed
<1>3. ClampedFiles(ix, files) \subseteq Paths
  BY <1>1 DEF ClampedFiles, Paths, Clock
<1>4. \A f \in ClampedFiles(ix, files) :
        f \in files \/ (f[1] \in Renamed(ix, files) /\ f = <<f[1], now>>)
  BY DEF ClampedFiles
<1>5. files \cap held \subseteq ClampedFiles(ix, files)
  BY <1>2 DEF ClampedFiles, Files
<1>6. files = {} => Renamed(ix, files) = {}
  BY <1>2
<1> QED BY <1>3, <1>4, <1>5, <1>6 DEF ClampedFiles

\* A clamp keeps the index the directory: a record and its file move together, to a
\* path that no file given up has.
LEMMA ClampMirrors ==
  ASSUME NEW ix, IsIndex(ix), NEW files \in SUBSET Paths, now \in Clock, backend = "file",
         NEW waiting, NEW lost, Mirrors(ix, files, waiting, lost, {}),
         \A m \in Renamed(ix, files) : <<m, now>> \notin waiting
  PROVE  /\ Mirrors(Clamped(ix, files), ClampedFiles(ix, files), waiting, lost, {})
         /\ waiting \subseteq files => waiting \subseteq ClampedFiles(ix, files)
<1> DEFINE c == Clamped(ix, files)  d == ClampedFiles(ix, files)  R == Renamed(ix, files)
<1>1. /\ DOMAIN c = DOMAIN ix
      /\ \A m \in R : m \in DOMAIN ix /\ File(c, m) = <<m, now>>
      /\ \A m \in DOMAIN ix \ R : File(c, m) = File(ix, m)
  <2>1. R \subseteq DOMAIN ix
    BY DEF Renamed, Future
  <2> QED BY <2>1, ClampIs
<1>2. d = (files \ Files(ix, R)) \union {<<m, now>> : m \in R}
  BY DEF ClampedFiles
<1>3. \A m \in R : \A k : File(ix, k) = File(ix, m) => k = m
  BY DEF File
<1> HIDE DEF c, d, R
<1>4. ASSUME NEW m \in DOMAIN c
      PROVE File(c, m) \notin waiting /\ (File(c, m) \in d \/ m \in lost)
  <2>1. CASE m \in R
    BY <1>1, <1>2, <2>1 DEF R
  <2>2. CASE m \notin R
    <3>1. File(c, m) = File(ix, m) /\ File(ix, m) \notin waiting
          /\ (File(ix, m) \in files \/ m \in lost)
      BY <1>1, <2>2 DEF Mirrors
    <3>2. File(ix, m) \notin Files(ix, R)
      BY <1>3, <2>2 DEF Files
    <3> QED BY <1>2, <3>1, <3>2
  <2> QED BY <2>1, <2>2
<1>5. ASSUME NEW f \in d
      PROVE (f[1] \in DOMAIN c /\ f = File(c, f[1])) \/ f \in waiting
  <2>1. CASE f \in {<<m, now>> : m \in R}
    BY <1>1, <2>1
  <2>2. CASE f \in files \ Files(ix, R)
    <3>1. (f[1] \in DOMAIN ix /\ f = File(ix, f[1])) \/ f \in waiting
      BY <2>2 DEF Mirrors
    <3>2. CASE f[1] \in DOMAIN ix /\ f = File(ix, f[1])
      <4>1. f[1] \notin R
        BY <2>2, <3>2 DEF Files
      <4> QED BY <1>1, <3>2, <4>1
    <3> QED BY <3>1, <3>2
  <2> QED BY <1>2, <2>1, <2>2
<1>6. waiting \subseteq files => waiting \subseteq d
  <2>1. \A m \in DOMAIN ix : File(ix, m) \notin waiting
    BY DEF Mirrors
  <2> QED BY <1>1, <1>2, <2>1 DEF Files
<1>7. Mirrors(c, d, waiting, lost, {})
  BY <1>4, <1>5 DEF Mirrors
<1> QED BY <1>6, <1>7 DEF c, d

\* So does dropping records: the files held open wait to be deleted.
LEMMA DropIs ==
  ASSUME NEW ix, IsIndex(ix), NEW files, NEW waiting, NEW ids, Drop(ix, files, waiting, ids)
  PROVE  /\ DOMAIN index' = DOMAIN ix \ ids /\ IsIndex(index')
         /\ \A m \in DOMAIN index' : index'[m] = ix[m]
<1>1. DOMAIN ix \cap (DOMAIN ix \ ids) = DOMAIN ix \ ids
  OBVIOUS
<1>2. index' = Keep(ix, DOMAIN ix \ ids)
  BY DEF Drop
<1> QED BY <1>1, <1>2, KeepIs

\* Dropping records keeps files and index what they are to each other.
LEMMA DropMirrors ==
  ASSUME NEW ix, IsIndex(ix), NEW files, NEW waiting, NEW lost, NEW ids,
         Mirrors(ix, files, waiting, lost, {}), ids \subseteq DOMAIN ix,
         Drop(ix, files, waiting, ids)
  PROVE  Mirrors(index', disk', orphans', lost \union ids, {})
<1> DEFINE k == Keep(ix, DOMAIN ix \ ids)  F == Files(ix, ids)
<1>1. index' = k /\ disk' = files \ (F \ held) /\ orphans' = waiting \union (F \cap held)
  BY DEF Drop
<1>2. /\ DOMAIN k = DOMAIN ix \ ids
      /\ \A m \in DOMAIN ix \ ids : File(k, m) = File(ix, m)
  <2>1. DOMAIN ix \cap (DOMAIN ix \ ids) = DOMAIN ix \ ids
    OBVIOUS
  <2> QED BY <2>1, KeepIs
<1>3. \A m \in DOMAIN ix : File(ix, m) \notin waiting /\ (File(ix, m) \in files \/ m \in lost)
  BY DEF Mirrors
<1>4. \A m \in DOMAIN ix \ ids : File(ix, m) \notin F
  BY DEF Files, File
<1> HIDE DEF k, F
<1>5. ASSUME NEW m \in DOMAIN k
      PROVE File(k, m) \notin orphans' /\ (File(k, m) \in disk' \/ m \in lost \union ids)
  BY <1>1, <1>2, <1>3, <1>4
<1>6. ASSUME NEW f \in disk'
      PROVE (f[1] \in DOMAIN k /\ f = File(k, f[1])) \/ f \in orphans'
  <2>1. (f[1] \in DOMAIN ix /\ f = File(ix, f[1])) \/ f \in waiting
    BY <1>1 DEF Mirrors
  <2>2. CASE f[1] \in DOMAIN ix /\ f = File(ix, f[1]) /\ f[1] \in ids
    <3>1. f \in F
      BY <2>2 DEF F, Files
    <3> QED BY <1>1, <3>1
  <2> QED BY <1>1, <1>2, <2>1, <2>2
<1> QED BY <1>1, <1>5, <1>6 DEF Mirrors

----------------------------------------------------------------------------
(* What a step leaves true for the drivers, and the reads it is not a step of *)

\* A step takes back nothing that a read, or an answer given, relies on.
Onward ==
  /\ backend' = backend
  /\ \A m \in Matches :
       /\ m \in settled => m \in settled'
       /\ driver[m].at # "absent" => driver'[m].at # "absent"
       /\ m \notin registered /\ driver[m].at \in {"created", "over"}
            => m \notin registered' /\ driver'[m].at \in {"created", "over"}
       /\ driver[m].at \in {"told", "over"} =>
            /\ driver'[m].at \in {"told", "over"} /\ (driver[m].kept => driver'[m].kept)
            /\ m \in shed => m \in shed'
       /\ Gone(m) => Gone(m)'
  /\ \A f \in BeingRead : f \notin disk => f \notin disk'

\* Membership is true or false.
LEMMA NotIn == \A a, S : a \notin S => (a \in S) = FALSE
OBVIOUS

\* Whatever happens to the record in a step, the read's history holds it.
LEMMA WatchIs ==
  ASSUME Watch, NEW r \in Readers, reader'[r].at \notin {"idle", "asked"}
  PROVE  /\ reader[r].at \in {"200", "409", "404"} => saw'[r] = saw[r]
         /\ reader[r].at \notin {"200", "409", "404"} =>
              /\ saw[r] \subseteq saw'[r]
              /\ reader'[r].id \in DOMAIN index' => TRUE \in saw'[r]
              /\ reader'[r].id \notin DOMAIN index' => FALSE \in saw'[r]
<1>1. saw'[r] = IF reader'[r].at \in {"idle", "asked"} THEN {}
                ELSE IF reader[r].at \in {"200", "409", "404"} THEN saw[r]
                ELSE saw[r] \union {reader'[r].id \in DOMAIN index'}
  BY DEF Watch
<1>2. CASE reader[r].at \in {"200", "409", "404"}
  BY <1>1, <1>2, Zenon
<1>3. CASE reader[r].at \notin {"200", "409", "404"}
  <2>1. saw'[r] = saw[r] \union {reader'[r].id \in DOMAIN index'}
    BY <1>1, <1>3, Zenon
  <2>2. reader'[r].id \in DOMAIN index' => (reader'[r].id \in DOMAIN index') = TRUE
    BY Zenon
  <2>3. reader'[r].id \notin DOMAIN index' => (reader'[r].id \in DOMAIN index') = FALSE
    BY NotIn
  <2> QED BY <1>3, <2>1, <2>2, <2>3, Zenon
<1> QED BY <1>2, <1>3

\* A read that a step is not of is as right as it was.
LEMMA ReaderStays ==
  ASSUME ReaderTypes, NEW r \in Readers, ReaderKnown(r), reader'[r] = reader[r],
         Watch, Onward, denied \subseteq denied'
  PROVE  ReaderKnown(r)'
<1> DEFINE x == reader[r]  m == reader[r].id
<1>1. /\ x.at \in {"idle", "asked", "lookup", "open", "missing", "200", "409", "404"}
      /\ m \in Matches \union {NoMatch}
  BY DEF ReaderTypes, Read
<1>2. x.at \in {"lookup", "open", "missing"} =>
        /\ saw[r] \subseteq saw'[r]
        /\ m \in DOMAIN index' => TRUE \in saw'[r]
        /\ m \notin DOMAIN index' => FALSE \in saw'[r]
  BY WatchIs
<1>3. x.at \in {"200", "409", "404"} => saw'[r] = saw[r]
  BY WatchIs
<1>4. x.at \in {"open", "missing"} => x.file \in BeingRead
  BY DEF BeingRead
<1>5. /\ x.at = "idle" => ~x.told /\ ~x.late
      /\ x.at # "idle" =>
           /\ m \in Matches /\ driver[m].at # "absent"
           /\ ~x.pending => m \in settled
                             \/ (m \notin registered /\ driver[m].at \in {"created", "over"})
      /\ x.at \in {"open", "missing"} =>
           /\ backend = "file" /\ x.file \in Paths /\ x.file[1] = m /\ TRUE \in saw[r]
           /\ x.at = "missing" => x.file \notin disk
      /\ x.at = "200" => TRUE \in saw[r]
      /\ x.at \in {"409", "404"} => FALSE \in saw[r] \/ x.tries = 2
      /\ x.at = "409" => x.pending
      /\ x.told => /\ ~x.pending /\ driver[m].at \in {"told", "over"} /\ driver[m].kept
                   /\ x.at = "404" => m \in shed \/ x.tries = 2
      /\ x.late => m \in denied /\ x.at \notin {"open", "missing", "200"}
  BY DEF ReaderKnown
<1>6. x.at # "idle" =>
        /\ m \in Matches /\ driver'[m].at # "absent"
        /\ ~x.pending => m \in settled'
                          \/ (m \notin registered' /\ driver'[m].at \in {"created", "over"})
  BY <1>5 DEF Onward
<1>7. x.at \in {"open", "missing"} =>
        /\ backend' = "file" /\ TRUE \in saw'[r]
        /\ x.at = "missing" => x.file \notin disk'
  BY <1>2, <1>4, <1>5 DEF Onward
<1>8. x.told => /\ driver'[m].at \in {"told", "over"} /\ driver'[m].kept
                /\ x.at = "404" => m \in shed' \/ x.tries = 2
  BY <1>5 DEF Onward
<1> HIDE DEF x, m
<1>9. reader'[r] = x /\ x.id = m
  BY DEF x, m
<1> QED BY <1>2, <1>3, <1>5, <1>6, <1>7, <1>8, <1>9 DEF ReaderKnown

\* What every step of the store is, seen from the drivers and the reads: no record
\* and no file comes but the one being put, and a record goes into `shed`.
StoreStep ==
  /\ UNCHANGED <<backend, server>>
  /\ shed \subseteq shed' /\ DOMAIN index \subseteq DOMAIN index' \union shed'
  /\ DOMAIN index' \subseteq DOMAIN index
  /\ \A f \in disk' \ disk : /\ f[1] \in DOMAIN index \/ (Putting /\ f[1] = put.id)
                             /\ f \notin BeingRead
  /\ Putting' => driver[put'.id].at = "storing"

\* A step of the store alone takes back nothing.
LEMMA StoreStepGoesOn ==
  ASSUME DriverKnown, StoreStep
  PROVE  DriverKnown' /\ Onward
<1>1. driver' = driver /\ registered' = registered /\ settled' = settled /\ backend' = backend
  BY DEF StoreStep, server
<1>2. DriverKnown'
  BY <1>1 DEF DriverKnown, StoreStep, Putting
<1>3. ASSUME NEW m \in Matches, Gone(m) PROVE Gone(m)'
  <2>1. Decided(m) /\ m \notin DOMAIN index /\ \A f \in disk : f[1] # m
    BY <1>3 DEF Gone
  <2>2. Putting => put.id # m
    BY <2>1 DEF Decided, DriverKnown
  <2>3. Decided(m)' /\ m \notin DOMAIN index'
    BY <1>1, <2>1 DEF Decided, StoreStep
  <2>4. \A f \in disk' : f[1] # m
    BY <2>1, <2>2 DEF StoreStep
  <2> QED BY <2>3, <2>4 DEF Gone
<1>4. \A f \in BeingRead : f \notin disk => f \notin disk'
  BY DEF StoreStep
<1> QED BY <1>1, <1>2, <1>3, <1>4 DEF Onward, StoreStep

\* persist_public_transcript returns for m.
LEMMA PersistGoesOn ==
  ASSUME DriverKnown, NEW m \in Matches, NEW kept \in BOOLEAN, driver[m].at = "storing",
         Persisted(m, kept), registered' = registered, backend' = backend,
         shed \ {m} \subseteq shed', m \in shed => m \in shed' \union DOMAIN index',
         DOMAIN index \subseteq DOMAIN index' \union shed',
         DOMAIN index' \subseteq DOMAIN index \union {m}, kept => m \in DOMAIN index',
         disk' \subseteq disk, Putting' => Putting /\ put' = put /\ put.id # m
  PROVE  DriverKnown' /\ Onward
<1> DEFINE Known == [at : {"absent", "created", "storing", "ended", "told", "over"},
                     puts : Nat, kept : BOOLEAN]
<1>1. driver \in [Matches -> Known]
  BY DEF DriverKnown
<1>2. /\ driver' = [driver EXCEPT ![m] = [driver[m] EXCEPT !.at = "ended",
                      !.puts = driver[m].puts + 1, !.kept = driver[m].kept \/ kept]]
      /\ settled' = settled \union {m}
  BY <1>1 DEF Persisted
<1>3. /\ driver' \in [Matches -> Known]
      /\ driver'[m].at = "ended" /\ (driver'[m].kept => driver[m].kept \/ kept)
      /\ \A k \in Matches \ {m} : driver'[k] = driver[k]
  <2> DEFINE d == [driver[m] EXCEPT !.at = "ended",
                     !.puts = driver[m].puts + 1, !.kept = driver[m].kept \/ kept]
  <2>1. d \in Known /\ d.at = "ended"
    <3>1. driver[m] \in Known
      BY <1>1
    <3>2. (driver[m].kept \/ kept) \in BOOLEAN /\ driver[m].puts + 1 \in Nat
      <4>1. driver[m].puts \in Nat
        BY <3>1
      <4> QED BY <4>1
    <3> QED BY <3>1, <3>2
  <2>2. d.kept => driver[m].kept \/ kept
    BY <1>1
  <2> HIDE DEF d, Known
  <2> QED BY <1>1, <1>2, <2>1, <2>2 DEF d
<1>4. ASSUME NEW k \in Matches
      PROVE /\ driver'[k].kept => k \in settled' /\ (k \in shed' \/ k \in DOMAIN index')
            /\ driver'[k].at \in {"storing", "ended", "told"} => k \in registered'
            /\ driver'[k].at \in {"absent", "created"} => k \notin settled'
  <2>1. /\ driver[k].kept => k \in settled /\ (k \in shed \/ k \in DOMAIN index)
        /\ driver[k].at \in {"storing", "ended", "told"} => k \in registered
        /\ driver[k].at \in {"absent", "created"} => k \notin settled
    BY DEF DriverKnown
  <2> HIDE DEF Known
  <2>2. CASE k = m
    BY <1>2, <1>3, <2>1, <2>2
  <2>3. CASE k # m
    BY <1>2, <1>3, <2>1, <2>3
  <2> QED BY <2>2, <2>3
<1>5. Putting' => driver'[put'.id].at = "storing"
  <2>1. Putting' => put'.id \in Matches \ {m} \/ put'.id \notin Matches
    OBVIOUS
  <2>2. Putting' => driver[put'.id].at = "storing"
    BY DEF DriverKnown
  <2>3. \A k : k # m => driver'[k] = driver[k]
    <3> HIDE DEF Known
    <3> QED BY <1>1, <1>2
  <2> QED BY <2>2, <2>3
<1>6. DriverKnown'
  BY <1>3, <1>4, <1>5 DEF DriverKnown
<1>7. ASSUME NEW k \in Matches
      PROVE /\ k \in settled => k \in settled'
            /\ driver[k].at # "absent" => driver'[k].at # "absent"
            /\ k \notin registered /\ driver[k].at \in {"created", "over"}
                 => k \notin registered' /\ driver'[k].at \in {"created", "over"}
            /\ driver[k].at \in {"told", "over"} =>
                 /\ driver'[k].at \in {"told", "over"} /\ (driver[k].kept => driver'[k].kept)
                 /\ k \in shed => k \in shed'
            /\ Gone(k) => Gone(k)'
  <2> HIDE DEF Known
  <2>1. CASE k = m
    BY <1>2, <1>3, <2>1 DEF Gone, Decided
  <2>2. CASE k # m
    <3>1. driver'[k] = driver[k]
      BY <1>3, <2>2
    <3>2. Gone(k) => Gone(k)'
      BY <2>2, <3>1 DEF Gone, Decided
    <3> QED BY <1>2, <2>2, <3>1, <3>2
  <2> QED BY <2>1, <2>2
<1>8. \A f \in BeingRead : f \notin disk => f \notin disk'
  OBVIOUS
<1> QED BY <1>6, <1>7, <1>8 DEF Onward

\* A driver's other steps leave the store alone.
Drives(m) == Create(m) \/ Ends(m) \/ Tell(m) \/ StoreAgain(m) \/ Return(m) \/ Evict(m)

\* A driver that moves on takes back nothing.
LEMMA MoveGoesOn ==
  ASSUME DriverKnown, NEW m \in Matches,
         NEW at \in {"absent", "created", "storing", "ended", "told", "over"},
         driver' = [driver EXCEPT ![m].at = at],
         UNCHANGED <<backend, index, disk, put, shed>>,
         registered' \ {m} = registered \ {m}, settled' \ {m} = settled \ {m},
         settled \subseteq settled',
         at \in {"storing", "ended", "told"} => m \in registered',
         at \in {"absent", "created"} => m \notin settled',
         driver[m].at # "absent" => at # "absent",
         m \notin registered /\ driver[m].at \in {"created", "over"}
           => m \notin registered' /\ at \in {"created", "over"},
         driver[m].at \in {"told", "over"} => at \in {"told", "over"},
         driver[m].at = "storing" => at = "storing"
  PROVE  DriverKnown' /\ Onward
<1> DEFINE Known == [at : {"absent", "created", "storing", "ended", "told", "over"},
                     puts : Nat, kept : BOOLEAN]
<1>1. driver \in [Matches -> Known]
  BY DEF DriverKnown
<1>2. /\ driver' \in [Matches -> Known]
      /\ driver'[m].at = at /\ driver'[m].kept = driver[m].kept
      /\ \A k \in Matches \ {m} : driver'[k] = driver[k]
  BY <1>1
<1>3. Putting' => driver'[put'.id].at = "storing"
  <2>1. Putting' => Putting /\ put'.id = put.id
    BY DEF Putting
  <2>2. \A k : k # m => driver'[k] = driver[k]
    <3> HIDE DEF Known
    <3> QED BY <1>1
  <2> QED BY <1>2, <2>1, <2>2 DEF DriverKnown
<1> HIDE DEF Known
<1>4. ASSUME NEW k \in Matches
      PROVE /\ driver'[k].kept => k \in settled' /\ (k \in shed' \/ k \in DOMAIN index')
            /\ driver'[k].at \in {"storing", "ended", "told"} => k \in registered'
            /\ driver'[k].at \in {"absent", "created"} => k \notin settled'
            /\ k \in settled => k \in settled'
            /\ driver[k].at # "absent" => driver'[k].at # "absent"
            /\ k \notin registered /\ driver[k].at \in {"created", "over"}
                 => k \notin registered' /\ driver'[k].at \in {"created", "over"}
            /\ driver[k].at \in {"told", "over"} =>
                 /\ driver'[k].at \in {"told", "over"} /\ (driver[k].kept => driver'[k].kept)
                 /\ k \in shed => k \in shed'
            /\ Gone(k) => Gone(k)'
  <2>1. /\ driver[k].kept => k \in settled /\ (k \in shed \/ k \in DOMAIN index)
        /\ driver[k].at \in {"storing", "ended", "told"} => k \in registered
        /\ driver[k].at \in {"absent", "created"} => k \notin settled
    BY DEF DriverKnown
  <2>2. CASE k = m
    <3>1. Gone(k) => Gone(k)'
      BY <1>2, <2>2 DEF Gone, Decided
    <3> QED BY <1>2, <2>1, <2>2, <3>1
  <2>3. CASE k # m
    <3>1. driver'[k] = driver[k] /\ (k \in registered' <=> k \in registered)
          /\ (k \in settled' <=> k \in settled)
      BY <1>2, <2>3
    <3>2. Gone(k) => Gone(k)'
      BY <3>1 DEF Gone, Decided
    <3> QED BY <2>1, <3>1, <3>2
  <2> QED BY <2>2, <2>3
<1>5. \A f \in BeingRead : f \notin disk => f \notin disk'
  OBVIOUS
<1>6. DriverKnown'
  BY <1>2, <1>3, <1>4 DEF DriverKnown, Known
<1> QED BY <1>4, <1>5, <1>6 DEF Onward

\* Every step of a driver takes back nothing.
LEMMA DriveGoesOn ==
  ASSUME DriverKnown, NEW m \in Matches, Drives(m)
  PROVE  DriverKnown' /\ Onward
<1>1. UNCHANGED <<backend, index, disk, put, shed>>
  BY DEF Drives, Create, Ends, Tell, StoreAgain, Return, Evict, store
<1>2. /\ driver[m].at \in {"absent", "created", "storing", "ended", "told", "over"}
      /\ driver[m].at \in {"storing", "ended", "told"} => m \in registered
      /\ driver[m].at \in {"absent", "created"} => m \notin settled
  BY DEF DriverKnown
<1>3. CASE Create(m)
  <2>1. driver' = [driver EXCEPT ![m].at = "created"]
    BY <1>3 DEF Create, At
  <2>2. /\ driver[m].at = "absent" /\ settled' = settled
        /\ registered' = registered \union {m}
    BY <1>3 DEF Create
  <2> QED BY <1>1, <1>2, <2>1, <2>2, MoveGoesOn
<1>4. CASE Ends(m)
  <2>1. driver' = [driver EXCEPT ![m].at = "storing"]
    BY <1>4 DEF Ends, At
  <2>2. driver[m].at = "created" /\ m \in registered /\ UNCHANGED <<settled, registered>>
    BY <1>4 DEF Ends
  <2> QED BY <1>1, <1>2, <2>1, <2>2, MoveGoesOn
<1>5. CASE Tell(m)
  <2>1. driver' = [driver EXCEPT ![m].at = "told"]
    BY <1>5 DEF Tell, At
  <2>2. driver[m].at = "ended" /\ UNCHANGED <<settled, registered>>
    BY <1>5 DEF Tell
  <2> QED BY <1>1, <1>2, <2>1, <2>2, MoveGoesOn
<1>6. CASE StoreAgain(m)
  <2>1. driver' = [driver EXCEPT ![m].at = "storing"]
    BY <1>6 DEF StoreAgain, At
  <2>2. driver[m].at = "ended" /\ UNCHANGED <<settled, registered>>
    BY <1>6 DEF StoreAgain
  <2> QED BY <1>1, <1>2, <2>1, <2>2, MoveGoesOn
<1>7. CASE Return(m)
  <2>1. driver' = [driver EXCEPT ![m].at = "over"]
    BY <1>7 DEF Return, At
  <2>2. /\ driver[m].at \in {"told", "ended"} /\ registered' = registered
        /\ settled' = settled \union {m}
    BY <1>7 DEF Return
  <2> QED BY <1>1, <1>2, <2>1, <2>2, MoveGoesOn
<1>8. CASE Evict(m)
  <2>1. driver' = [driver EXCEPT ![m].at = driver[m].at]
    BY <1>8 DEF Evict, DriverKnown
  <2>2. /\ driver[m].at \in {"created", "over"} /\ registered' = registered \ {m}
        /\ settled' = settled
    BY <1>8 DEF Evict
  <2> QED BY <1>1, <1>2, <2>1, <2>2, MoveGoesOn
<1> QED BY <1>3, <1>4, <1>5, <1>6, <1>7, <1>8 DEF Drives

----------------------------------------------------------------------------
(* The store's invariant, step by step *)

\* A step that leaves the store alone, and opens no file.
LEMMA QuietStore ==
  ASSUME StoreInv, UNCHANGED <<backend, size, now, store, held, shed>>,
         BeingRead' \subseteq BeingRead
  PROVE  StoreInv'
<1>1. /\ index' = index /\ disk' = disk /\ tmps' = tmps /\ orphans' = orphans /\ put' = put
      /\ backend' = backend /\ size' = size /\ now' = now /\ held' = held /\ shed' = shed
  BY DEF store
<1>2. StoreTypes'
  BY <1>1 DEF StoreInv, StoreTypes, LockFree, Putting
<1>3. Indexed'
  BY <1>1 DEF StoreInv, Indexed, Mirrors, PutFile, File
<1>4. CapsHeld'
  BY <1>1 DEF StoreInv, CapsHeld, Putting
<1>5. NamesAreNew'
  <2>1. Taken' \subseteq Taken
    BY <1>1 DEF Taken, Files, File
  <2> QED BY <1>1, <2>1 DEF StoreInv, NamesAreNew, PutFile, Putting
<1> QED BY <1>2, <1>3, <1>4, <1>5 DEF StoreInv

\* No record from the future has the clock's name among the files given up or read.
LEMMA FutureIsNew ==
  ASSUME StoreTypes, NamesAreNew, NEW m \in Future(index)
  PROVE  <<m, now>> \notin orphans \union BeingRead
<1>1. m \in DOMAIN index /\ index[m].ended > now + Slack
  BY DEF Future
<1>2. index[m].ended \in Nat /\ now + Slack \in Nat
  BY <1>1, StoreAssumption DEF StoreTypes, IsIndex, Record, Clock
<1>3. <<m, now>> \in orphans \union BeingRead => index[m].ended <= now + Slack
  BY <1>1 DEF NamesAreNew
<1> QED BY <1>1, <1>2, <1>3

\* The file store's index after a clamp, and records dropped.
LEMMA TrimIs ==
  ASSUME backend = "file", StoreTypes, NamesAreNew,
         NEW files \in SUBSET disk, held \subseteq files,
         NEW waiting \in SUBSET files, waiting \subseteq orphans,
         Mirrors(index, files, waiting, shed, {}),
         NEW ids, ids \subseteq DOMAIN index, shed' = shed \union ids,
         Drop(Clamped(index, files), ClampedFiles(index, files), waiting, ids)
  PROVE  /\ IsIndex(index') /\ DOMAIN index' = DOMAIN index \ ids
         /\ \A m \in DOMAIN index' : index'[m].ended <= now + Slack
         /\ Mirrors(index', disk', orphans', shed', {})
         /\ disk' \subseteq Paths /\ orphans' \subseteq disk' /\ held \subseteq disk'
         /\ orphans' \subseteq waiting \union held
         /\ \A f \in disk' \ disk : f[1] \in DOMAIN index /\ f \notin BeingRead
<1> DEFINE c == Clamped(index, files)  d == ClampedFiles(index, files)
<1>1. IsIndex(index) /\ now \in Clock /\ files \in SUBSET Paths
  BY DEF StoreTypes
<1>2. \A m \in Renamed(index, files) : m \in DOMAIN index /\ <<m, now>> \notin orphans \union BeingRead
  <2>1. ASSUME NEW m \in Renamed(index, files)
        PROVE m \in DOMAIN index /\ <<m, now>> \notin orphans \union BeingRead
    <3>1. m \in Future(index) /\ m \in DOMAIN index
      BY DEF Renamed, Future
    <3> QED BY <3>1, FutureIsNew
  <2> QED BY <2>1
<1>3. /\ DOMAIN c = DOMAIN index /\ IsIndex(c)
      /\ \A m \in DOMAIN index : c[m].ended <= now + Slack
  BY <1>1, ClampIs
<1>4. Mirrors(c, d, waiting, shed, {}) /\ waiting \subseteq d
  BY <1>1, <1>2, ClampMirrors
<1>5. /\ d \subseteq Paths /\ held \subseteq d
      /\ \A f \in d : f \in files \/ (f[1] \in Renamed(index, files) /\ f = <<f[1], now>>)
  BY <1>1, ClampedFilesAre
<1> HIDE DEF c, d
<1>6. Drop(c, d, waiting, ids)
  BY DEF c, d
<1>7. /\ DOMAIN index' = DOMAIN c \ ids /\ IsIndex(index')
      /\ \A m \in DOMAIN index' : index'[m] = c[m]
      /\ Mirrors(index', disk', orphans', shed \union ids, {})
      /\ disk' \subseteq d /\ held \subseteq disk' /\ orphans' \subseteq disk'
      /\ orphans' \subseteq waiting \union held
  <2>1. ids \subseteq DOMAIN c
    BY <1>3
  <2>2. Mirrors(c, d, waiting, shed, {}) /\ waiting \subseteq d /\ held \subseteq d /\ IsIndex(c)
    BY <1>3, <1>4, <1>5
  <2>3. /\ DOMAIN index' = DOMAIN c \ ids /\ IsIndex(index')
        /\ \A m \in DOMAIN index' : index'[m] = c[m]
    BY ONLY <1>6, <2>2, DropIs
  <2>4. /\ disk' \subseteq d /\ held \subseteq disk' /\ orphans' \subseteq disk'
        /\ orphans' \subseteq waiting \union held
    <3>1. waiting \cap Files(c, ids) = {}
      BY <2>1, <2>2 DEF Files, Mirrors
    <3> QED BY <1>6, <2>2, <3>1 DEF Drop
  <2>5. Mirrors(index', disk', orphans', shed \union ids, {})
    BY ONLY <1>6, <2>1, <2>2, DropMirrors
  <2> QED BY <2>3, <2>4, <2>5
<1>8. \A f \in disk' \ disk : f[1] \in DOMAIN index /\ f \notin BeingRead
  <2>1. ASSUME NEW f \in disk' \ disk PROVE f[1] \in DOMAIN index /\ f \notin BeingRead
    <3>1. f[1] \in Renamed(index, files) /\ f = <<f[1], now>>
      BY <1>5, <1>7
    <3>2. f[1] \in DOMAIN index /\ <<f[1], now>> \notin BeingRead
      BY <1>2, <3>1
    <3> QED BY <3>1, <3>2
  <2> QED BY <2>1
<1>9. Mirrors(index', disk', orphans', shed', {})
  BY <1>7
<1> QED BY <1>3, <1>5, <1>7, <1>8, <1>9

\* The clock goes, or is set back, but not to a name that is in use.
LEMMA TickStore ==
  ASSUME StoreInv, DriverKnown, NEW t \in Clock, Tick(t)
  PROVE  StoreInv' /\ StoreStep
<1>1. /\ index' = index /\ disk' = disk /\ tmps' = tmps /\ orphans' = orphans /\ put' = put
      /\ backend' = backend /\ size' = size /\ now' = t /\ held' = held /\ shed' = shed
      /\ reader' = reader /\ server' = server /\ \A f \in Taken : f[2] # t
  BY DEF Tick, store
<1>2. StoreTypes'
  BY <1>1 DEF StoreInv, StoreTypes, LockFree, Putting
<1>3. Indexed'
  BY <1>1 DEF StoreInv, Indexed, Mirrors, PutFile, File
<1>4. CapsHeld'
  BY <1>1 DEF StoreInv, CapsHeld, Putting
<1>5. NamesAreNew'
  <2>1. Taken' = Taken /\ BeingRead' = BeingRead
    BY <1>1 DEF Taken, BeingRead, Files, File
  <2>2. \A m : <<m, t>> \notin Taken /\ <<m, t>> \notin orphans \union BeingRead
    BY <1>1 DEF Taken
  <2> QED BY <1>1, <2>1, <2>2 DEF StoreInv, NamesAreNew, PutFile, Putting
<1>6. StoreStep
  BY <1>1 DEF StoreStep, Putting, DriverKnown
<1> QED BY <1>2, <1>3, <1>4, <1>5, <1>6 DEF StoreInv

\* A file is held, and let go.
LEMMA HoldStore ==
  ASSUME StoreInv, DriverKnown, NEW f, (f \in disk /\ Hold(f)) \/ (f \in held /\ LetGo(f))
  PROVE  StoreInv' /\ StoreStep
<1>1. /\ index' = index /\ disk' = disk /\ tmps' = tmps /\ orphans' = orphans /\ put' = put
      /\ backend' = backend /\ size' = size /\ now' = now /\ shed' = shed
      /\ reader' = reader /\ server' = server
  BY DEF Hold, LetGo, store
<1>2. /\ held' \subseteq disk
      /\ Putting /\ PutFile \in held => PutFile \in held' \/ held = {}
      /\ held = {} \/ held' \subseteq held
  <2>1. CASE f \in disk /\ Hold(f)
    BY <2>1 DEF Hold, StoreInv, StoreTypes
  <2>2. CASE f \in held /\ LetGo(f)
    <3>1. f # PutFile
      BY <2>2 DEF LetGo, PutFile
    <3> QED BY <2>2, <3>1 DEF LetGo, StoreInv, StoreTypes
  <2> QED BY <2>1, <2>2
<1>3. StoreTypes'
  BY <1>1, <1>2 DEF StoreInv, StoreTypes, LockFree, Putting
<1>4. Indexed'
  BY <1>1 DEF StoreInv, Indexed, Mirrors, PutFile, File
<1>5. CapsHeld'
  BY <1>1 DEF StoreInv, CapsHeld, Putting
<1>6. NamesAreNew'
  <2>1. Taken' = Taken /\ BeingRead' = BeingRead
    BY <1>1 DEF Taken, BeingRead, Files, File
  <2> QED BY <1>1, <1>2, <2>1 DEF StoreInv, NamesAreNew, PutFile, Putting
<1>7. StoreStep
  BY <1>1 DEF StoreStep, Putting, DriverKnown
<1> QED BY <1>3, <1>4, <1>5, <1>6, <1>7 DEF StoreInv

\* A file is lost: its record, if it has one, counts among those that faults took.
LEMMA LostStore ==
  ASSUME StoreInv, DriverKnown, NEW f \in disk, Lost(f)
  PROVE  StoreInv' /\ StoreStep
<1>1. /\ index' = index /\ tmps' = tmps /\ put' = put /\ held' = held
      /\ backend' = backend /\ size' = size /\ now' = now /\ reader' = reader
      /\ server' = server /\ f \notin held
  BY DEF Lost
<1>2. disk' = disk \ {f} /\ orphans' = orphans \ {f} /\ shed' = shed \union {f[1]}
  BY DEF Lost
<1>3. StoreTypes'
  BY <1>1, <1>2 DEF StoreInv, StoreTypes, LockFree, Putting
<1>4. Indexed'
  <2> SUFFICES ASSUME backend = "file" PROVE Indexed'
    BY <1>1 DEF Indexed
  <2> DEFINE extra == IF put.at = "index" THEN {PutFile} ELSE {}
  <2>1. Mirrors(index, disk, orphans, shed, extra)
        /\ (put.at = "index" => PutFile \in disk \/ put.id \in shed)
    BY DEF StoreInv, Indexed
  <2>2. \A m : File(index, m) = f => m = f[1]
    BY DEF File
  <2>3. PutFile = f => put.id = f[1]
    BY DEF PutFile
  <2> HIDE DEF extra
  <2>4. Mirrors(index, disk', orphans', shed', extra)
    BY <1>2, <2>1, <2>2 DEF Mirrors
  <2>5. put.at = "index" => PutFile \in disk' \/ put.id \in shed'
    BY <1>2, <2>1, <2>3
  <2> QED BY <1>1, <2>4, <2>5 DEF Indexed, Mirrors, File, PutFile, extra
<1>5. CapsHeld'
  BY <1>1 DEF StoreInv, CapsHeld, Putting
<1>6. NamesAreNew'
  <2>1. Taken' \subseteq Taken /\ BeingRead' = BeingRead /\ orphans' \subseteq orphans
    BY <1>1, <1>2 DEF Taken, BeingRead, Files, File
  <2> QED BY <1>1, <2>1 DEF StoreInv, NamesAreNew, PutFile, Putting
<1>7. StoreStep
  BY <1>1, <1>2 DEF StoreStep, Putting, DriverKnown
<1> QED BY <1>3, <1>4, <1>5, <1>6, <1>7 DEF StoreInv

\* A put starts: with its record the caps hold, and its name is new.
LEMMA PutBeginStore ==
  ASSUME StoreInv, DriverKnown, NEW m \in Matches, PutBegin(m)
  PROVE  StoreInv' /\ StoreStep
<1> DEFINE files == disk \ (orphans \ held)
           ix == Clamped(index, files)
           fresh == Keep(ix, DOMAIN ix \ Expired(ix))
<1>1. PICK room \in RoomFor(fresh, m) :
        /\ Drop(ix, ClampedFiles(index, files), orphans \cap held, Expired(ix) \union room)
        /\ shed' = shed \union Expired(ix) \union room
  BY DEF PutBegin
<1>2. /\ backend = "file" /\ driver[m].at = "storing" /\ LockFree /\ size[m] <= RecordLimit
      /\ <<m, now>> \notin BeingRead
      /\ put' = [at |-> "write", id |-> m, ended |-> now, again |-> FALSE]
      /\ backend' = backend /\ size' = size /\ now' = now /\ tmps' = tmps /\ held' = held
      /\ server' = server /\ reader' = reader
  BY DEF PutBegin, Puts
<1>3. StoreTypes /\ NamesAreNew /\ Indexed /\ IsIndex(index) /\ now \in Clock
      /\ size \in [Matches -> Nat]
  BY DEF StoreInv, StoreTypes
<1>4. DOMAIN ix = DOMAIN index /\ IsIndex(ix)
  BY <1>3, ClampIs
<1>5. DOMAIN fresh = DOMAIN ix \ Expired(ix) /\ DOMAIN fresh \subseteq Matches
  BY <1>3, <1>4 DEF Keep, IsIndex
<1> DEFINE ids == Expired(ix) \union room
<1> HIDE DEF ix, fresh
<1>6. room \subseteq DOMAIN fresh \ {m} /\ Within(size, (DOMAIN fresh \ room) \union {m})
  BY <1>2, <1>3, <1>5, RoomIsMade
<1>7. ids \subseteq DOMAIN index /\ DOMAIN index \ ids = DOMAIN fresh \ room
  BY <1>4, <1>5, <1>6 DEF Expired
<1>8. Mirrors(index, files, orphans \cap held, shed, {})
  <2>1. Mirrors(index, disk, orphans, shed, {})
    BY <1>2, <1>3 DEF Indexed, LockFree, NoPut
  <2> QED BY <2>1 DEF Mirrors
<1>9. held \subseteq files /\ orphans \cap held \subseteq files
  BY <1>3 DEF StoreTypes
<1>10. shed' = shed \union ids
  BY <1>1
<1>11. Drop(ix, ClampedFiles(index, files), orphans \cap held, ids)
  BY <1>1
<1> HIDE DEF ids, files
<1>12. /\ IsIndex(index') /\ DOMAIN index' = DOMAIN index \ ids
       /\ \A k \in DOMAIN index' : index'[k].ended <= now + Slack
       /\ Mirrors(index', disk', orphans', shed', {})
       /\ disk' \subseteq Paths /\ orphans' \subseteq disk' /\ held \subseteq disk'
       /\ orphans' \subseteq (orphans \cap held) \union held
       /\ \A f \in disk' \ disk : f[1] \in DOMAIN index /\ f \notin BeingRead
  <2>1. files \in SUBSET disk
    BY DEF files
  <2>2. orphans \cap held \in SUBSET files /\ orphans \cap held \subseteq orphans
    BY <1>9
  <2> QED BY <1>2, <1>3, <1>7, <1>8, <1>9, <1>10, <1>11, <2>1, <2>2, TrimIs DEF ix
<1>13. put'.at = "write" /\ put'.id = m /\ put'.ended = now /\ put' # NoPut
  <2>1. "write" # "none"
    OBVIOUS
  <2> QED BY <1>2, <2>1 DEF NoPut
<1>14. StoreTypes'
  <2>1. tmps = {}
    BY <1>2, <1>3 DEF StoreTypes, LockFree, NoPut
  <2>2. put' \in [at : {"write", "replace", "index"}, id : Matches, ended : Clock, again : BOOLEAN]
    BY <1>2, <1>3
  <2> QED BY <1>2, <1>3, <1>12, <1>13, <2>1, <2>2 DEF StoreTypes, Putting
<1>15. Indexed'
  BY <1>12, <1>13 DEF Indexed
<1>16. CapsHeld'
  BY <1>2, <1>6, <1>7, <1>12, <1>13 DEF CapsHeld, Putting
<1>17. NamesAreNew'
  <2>1. BeingRead' = BeingRead
    BY <1>2 DEF BeingRead
  <2>2. PutFile' = <<m, now>>
    BY <1>13 DEF PutFile
  <2> QED BY <1>2, <1>12, <1>13, <2>1, <2>2 DEF NamesAreNew
<1>18. StoreStep
  BY <1>2, <1>10, <1>12, <1>13 DEF StoreStep
<1> QED BY <1>14, <1>15, <1>16, <1>17, <1>18 DEF StoreInv

\* The record is written to its temporary file, or that fails.
LEMMA PutWriteStore ==
  ASSUME StoreInv, DriverKnown, PutWrite
  PROVE  StoreInv' /\ StoreStep
<1>1. /\ index' = index /\ disk' = disk /\ orphans' = orphans /\ held' = held
      /\ backend' = backend /\ size' = size /\ now' = now /\ shed' = shed
      /\ reader' = reader /\ server' = server /\ tmps' = tmps \union {put.id}
      /\ put.at = "write" /\ put' = [put EXCEPT !.at = "replace"]
  BY DEF PutWrite
<1>2. Putting
  BY <1>1 DEF Putting, NoPut
<1>3. put \in [at : {"write", "replace", "index"}, id : Matches, ended : Clock, again : BOOLEAN]
  BY <1>2 DEF StoreInv, StoreTypes
<1>4. /\ put' \in [at : {"write", "replace", "index"}, id : Matches, ended : Clock, again : BOOLEAN]
      /\ put'.at = "replace" /\ put'.id = put.id /\ put'.ended = put.ended
  BY <1>1, <1>3
<1>5. Putting' /\ PutFile' = PutFile
  BY <1>4 DEF Putting, NoPut, PutFile
<1>6. StoreTypes'
  BY <1>1, <1>2, <1>4 DEF StoreInv, StoreTypes, Putting
<1>7. Indexed'
  BY <1>1, <1>4 DEF StoreInv, Indexed, Mirrors, File
<1>8. CapsHeld'
  BY <1>1, <1>2, <1>4, <1>5 DEF StoreInv, CapsHeld
<1>9. NamesAreNew'
  <2>1. Taken' = Taken /\ BeingRead' = BeingRead
    BY <1>1, <1>4 DEF Taken, BeingRead, Files, File
  <2> QED BY <1>1, <1>2, <1>4, <1>5, <2>1 DEF StoreInv, NamesAreNew
<1>10. StoreStep
  BY <1>1, <1>2, <1>4 DEF StoreStep, DriverKnown
<1> QED BY <1>6, <1>7, <1>8, <1>9, <1>10 DEF StoreInv

\* A put without room for its record keeps the store's invariant.
LEMMA PutNoSpaceStore ==
  ASSUME StoreInv, DriverKnown, PutNoSpace
  PROVE  StoreInv' /\ StoreStep
<1>1. /\ backend' = backend /\ size' = size /\ now' = now /\ tmps' = tmps /\ held' = held
      /\ reader' = reader /\ server' = server
      /\ put.at = "write" /\ put' = [put EXCEPT !.again = TRUE]
  BY DEF PutNoSpace
<1>2. Putting
  BY <1>1 DEF Putting, NoPut
<1>3. put \in [at : {"write", "replace", "index"}, id : Matches, ended : Clock, again : BOOLEAN]
  BY <1>2 DEF StoreInv, StoreTypes
<1>4. /\ put' \in [at : {"write", "replace", "index"}, id : Matches, ended : Clock, again : BOOLEAN]
      /\ put'.at = "write" /\ put'.id = put.id /\ put'.ended = put.ended
  BY <1>1, <1>3
<1>5. Putting' /\ PutFile' = PutFile
  BY <1>4 DEF Putting, NoPut, PutFile
<1>6. PICK more \in OldestHolding(index, put.id, 2 * size[put.id]) :
        Drop(index, disk, orphans, more) /\ shed' = shed \union more
  BY DEF PutNoSpace
<1>7. more \subseteq DOMAIN index \ {put.id}
  BY HoldingSpares
<1>8. /\ backend = "file" /\ IsIndex(index) /\ disk \subseteq Paths
      /\ orphans \subseteq disk /\ held \subseteq disk
  BY <1>2 DEF StoreInv, StoreTypes, Putting
<1>9. Mirrors(index, disk, orphans, shed, {})
  BY <1>1, <1>8 DEF StoreInv, Indexed
<1>10. /\ DOMAIN index' = DOMAIN index \ more /\ IsIndex(index')
       /\ \A m \in DOMAIN index' : index'[m] = index[m]
  BY <1>6, <1>8, DropIs
<1>11. Mirrors(index', disk', orphans', shed', {})
  BY <1>6, <1>7, <1>8, <1>9, DropMirrors
<1>12. /\ disk' = disk \ (Files(index, more) \ held)
       /\ orphans' = orphans \union (Files(index, more) \cap held)
  BY <1>6 DEF Drop
<1>13. \A f \in Files(index, more) : f[1] \in more /\ f \notin orphans
  BY <1>7, <1>9 DEF Files, File, Mirrors
<1>14. StoreTypes'
  <2>1. orphans' \subseteq disk' /\ held \subseteq disk' /\ disk' \subseteq Paths
    BY <1>8, <1>12, <1>13
  <2> QED BY <1>1, <1>2, <1>4, <1>8, <1>10, <2>1 DEF StoreInv, StoreTypes
<1>15. Indexed'
  BY <1>4, <1>11 DEF Indexed
<1>16. CapsHeld'
  <2>1. Within(size, DOMAIN index \union {put.id}) /\ size \in [Matches -> Nat]
    BY <1>2 DEF StoreInv, CapsHeld, StoreTypes
  <2>2. DOMAIN index \union {put.id} \in SUBSET Matches
    BY <1>3, <1>8 DEF IsIndex
  <2>3. DOMAIN index' \union {put.id} \in SUBSET (DOMAIN index \union {put.id})
    BY <1>10
  <2>4. Within(size, DOMAIN index' \union {put.id})
    BY <2>1, <2>2, <2>3, WithinSubset
  <2> QED BY <1>1, <1>4, <1>5, <2>4 DEF CapsHeld
<1>17. NamesAreNew'
  <2>1. BeingRead' = BeingRead
    BY <1>1 DEF BeingRead
  <2>2. \A m \in DOMAIN index' : <<m, now>> \in orphans' => <<m, now>> \in orphans
    BY <1>10, <1>12, <1>13
  <2>3. PutFile \in orphans' => PutFile \in orphans
    BY <1>7, <1>12, <1>13 DEF PutFile
  <2>4. <<put.id, now>> \in Taken' => <<put.id, now>> \in Taken
    <3>1. Files(index', DOMAIN index' \cap {put.id}) \subseteq Files(index, DOMAIN index \cap {put.id})
      BY <1>10 DEF Files, File
    <3> QED BY <1>4, <1>7, <1>12, <1>13, <2>1, <3>1 DEF Taken
  <2>5. NamesAreNew
    BY DEF StoreInv
  <2> QED BY <1>1, <1>2, <1>4, <1>5, <1>10, <2>1, <2>2, <2>3, <2>4, <2>5 DEF NamesAreNew
<1>18. StoreStep
  <2>1. DOMAIN index \subseteq DOMAIN index' \union shed' /\ shed \subseteq shed'
    BY <1>6, <1>10
  <2>2. disk' \ disk = {} /\ DOMAIN index' \subseteq DOMAIN index
    BY <1>10, <1>12
  <2> QED BY <1>1, <1>2, <1>4, <2>1, <2>2 DEF StoreStep, DriverKnown
<1> QED BY <1>14, <1>15, <1>16, <1>17, <1>18 DEF StoreInv

\* A put whose write or rename fails keeps the store's invariant.
LEMMA PutFailsStore ==
  ASSUME StoreInv, DriverKnown, PutFails
  PROVE  StoreInv' /\ DriverKnown' /\ Onward
<1>1. /\ index' = index /\ disk' = disk /\ orphans' = orphans /\ held' = held
      /\ backend' = backend /\ size' = size /\ now' = now /\ shed' = shed
      /\ reader' = reader /\ registered' = registered /\ tmps' = tmps \ {put.id}
      /\ put.at \in {"write", "replace"} /\ put' = NoPut /\ Persisted(put.id, FALSE)
  BY DEF PutFails
<1>2. Putting
  BY <1>1 DEF Putting, NoPut
<1>3. put \in [at : {"write", "replace", "index"}, id : Matches, ended : Clock, again : BOOLEAN]
  BY <1>2 DEF StoreInv, StoreTypes
<1>4. ~Putting' /\ put'.at = "none"
  BY <1>1 DEF Putting, NoPut
<1>5. StoreTypes'
  <2>1. tmps' = {}
    BY <1>1 DEF StoreInv, StoreTypes
  <2> QED BY <1>1, <1>4, <2>1 DEF StoreInv, StoreTypes
<1>6. Indexed'
  BY <1>1, <1>4 DEF StoreInv, Indexed, Mirrors, File
<1>7. CapsHeld'
  <2>1. Within(size, DOMAIN index \union {put.id}) /\ size \in [Matches -> Nat]
    BY <1>2 DEF StoreInv, CapsHeld, StoreTypes
  <2>2. DOMAIN index \union {put.id} \in SUBSET Matches
    BY <1>3 DEF StoreInv, StoreTypes, IsIndex
  <2>3. DOMAIN index \in SUBSET (DOMAIN index \union {put.id})
    OBVIOUS
  <2>4. Within(size, DOMAIN index)
    BY <2>1, <2>2, <2>3, WithinSubset
  <2> QED BY <1>1, <1>4, <2>4 DEF CapsHeld
<1>8. NamesAreNew'
  <2>1. BeingRead' = BeingRead
    BY <1>1 DEF BeingRead
  <2> QED BY <1>1, <1>4, <2>1 DEF StoreInv, NamesAreNew
<1>9. DriverKnown' /\ Onward
  <2>1. driver[put.id].at = "storing" /\ put.id \in Matches
    BY <1>2, <1>3 DEF DriverKnown
  <2>2. FALSE \in BOOLEAN
    OBVIOUS
  <2> QED BY <1>1, <1>4, <2>1, <2>2, PersistGoesOn
<1> QED BY <1>5, <1>6, <1>7, <1>8, <1>9 DEF StoreInv

\* The temporary file becomes the record's file, at a path no other file waits at.
LEMMA PutReplaceStore ==
  ASSUME StoreInv, DriverKnown, PutReplace
  PROVE  StoreInv' /\ StoreStep
<1>1. /\ index' = index /\ orphans' = orphans /\ held' = held
      /\ backend' = backend /\ size' = size /\ now' = now /\ shed' = shed
      /\ reader' = reader /\ server' = server /\ tmps' = tmps \ {put.id}
      /\ put.at = "replace" /\ put' = [put EXCEPT !.at = "index"]
      /\ disk' = disk \union {PutFile} /\ PutFile \notin held
  BY DEF PutReplace, PutFile
<1>2. Putting
  BY <1>1 DEF Putting, NoPut
<1>3. put \in [at : {"write", "replace", "index"}, id : Matches, ended : Clock, again : BOOLEAN]
  BY <1>2 DEF StoreInv, StoreTypes
<1>4. /\ put' \in [at : {"write", "replace", "index"}, id : Matches, ended : Clock, again : BOOLEAN]
      /\ put'.at = "index" /\ put'.id = put.id /\ put'.ended = put.ended
  BY <1>1, <1>3
<1>5. Putting' /\ PutFile' = PutFile
  BY <1>4 DEF Putting, NoPut, PutFile
<1>6. PutFile \in Paths /\ PutFile[1] = put.id
  BY <1>3 DEF PutFile, Paths, Clock
<1>7. PutFile \notin orphans /\ PutFile \notin BeingRead
  BY <1>1, <1>2 DEF StoreInv, NamesAreNew
<1>8. StoreTypes'
  BY <1>1, <1>2, <1>4, <1>6 DEF StoreInv, StoreTypes, Putting
<1>9. Indexed'
  <2> SUFFICES ASSUME backend = "file" PROVE Indexed'
    BY <1>1 DEF Indexed
  <2>1. Mirrors(index, disk, orphans, shed, {})
    BY <1>1 DEF StoreInv, Indexed
  <2>2. Mirrors(index, disk', orphans, shed, {PutFile})
    BY <1>1, <2>1 DEF Mirrors
  <2>3. Mirrors(index', disk', orphans', shed', {PutFile'})
    BY <1>1, <1>5, <2>2
  <2> QED BY <1>1, <1>4, <1>5, <2>3 DEF Indexed
<1>10. CapsHeld'
  BY <1>1, <1>2, <1>4, <1>5 DEF StoreInv, CapsHeld
<1>11. NamesAreNew'
  <2>1. Taken' = Taken /\ BeingRead' = BeingRead
    BY <1>1, <1>4 DEF Taken, BeingRead, Files, File
  <2> QED BY <1>1, <1>2, <1>4, <1>5, <1>7, <2>1 DEF StoreInv, NamesAreNew
<1>12. StoreStep
  BY <1>1, <1>2, <1>4, <1>6, <1>7 DEF StoreStep, DriverKnown
<1> QED BY <1>8, <1>9, <1>10, <1>11, <1>12 DEF StoreInv

\* The index follows: the file replaced is deleted, or waits to be.
LEMMA PutDoneStore ==
  ASSUME StoreInv, DriverKnown, PutDone
  PROVE  StoreInv' /\ DriverKnown' /\ Onward
<1> DEFINE m == put.id
           old == Files(index, DOMAIN index \cap {m}) \ {PutFile}
<1>1. /\ put.at = "index" /\ put' = NoPut
      /\ backend' = backend /\ size' = size /\ now' = now /\ tmps' = tmps /\ held' = held
      /\ reader' = reader /\ registered' = registered /\ Persisted(m, TRUE)
  BY DEF PutDone
<1>2. /\ index' = Added(index, m, put.ended)
      /\ disk' = disk \ (old \ held) /\ orphans' = orphans \union (old \cap held)
      /\ shed' = IF PutFile \in disk THEN shed \ {m} ELSE shed
  BY DEF PutDone, PutFile
<1>3. Putting
  BY <1>1 DEF Putting, NoPut
<1>4. /\ put \in [at : {"write", "replace", "index"}, id : Matches, ended : Clock, again : BOOLEAN]
      /\ m \in Matches /\ put.ended \in Clock
  BY <1>3 DEF StoreInv, StoreTypes
<1>5. ~Putting' /\ put'.at = "none" /\ put' = NoPut
  BY <1>1 DEF Putting, NoPut
<1>6. /\ backend = "file" /\ IsIndex(index) /\ disk \subseteq Paths
      /\ orphans \subseteq disk /\ held \subseteq disk /\ tmps = {}
      /\ size \in [Matches -> Nat] /\ now \in Clock
  BY <1>1, <1>3 DEF StoreInv, StoreTypes, Putting
<1>7. /\ Mirrors(index, disk, orphans, shed, {PutFile})
      /\ PutFile \in disk \/ m \in shed
      /\ PutFile \notin orphans
  BY <1>1, <1>3, <1>6 DEF StoreInv, Indexed, NamesAreNew
<1>8. /\ DOMAIN index' = DOMAIN index \union {m} /\ IsIndex(index')
      /\ index'[m] = [ended |-> put.ended, name |-> put.ended]
      /\ \A k \in DOMAIN index \ {m} : index'[k] = index[k]
  BY <1>2, <1>4, <1>6 DEF Added, IsIndex, Record
<1>9. File(index', m) = PutFile /\ \A k \in DOMAIN index \ {m} : File(index', k) = File(index, k)
  BY <1>8 DEF File, PutFile
<1>10. \A f \in old : f[1] = m /\ f # PutFile
  BY DEF Files, File
<1>11. orphans \cap old = {}
  BY <1>7 DEF Files, Mirrors
<1>12. StoreTypes'
  <2>1. orphans' \subseteq disk' /\ held \subseteq disk' /\ disk' \subseteq Paths
    BY <1>2, <1>6, <1>11
  <2> QED BY <1>1, <1>5, <1>6, <1>8, <2>1 DEF StoreTypes
<1>13. Indexed'
  <2>1. ASSUME NEW k \in DOMAIN index'
        PROVE File(index', k) \notin orphans' /\ (File(index', k) \in disk' \/ k \in shed')
    <3>1. CASE k = m
      BY <1>2, <1>7, <1>9, <3>1
    <3>2. CASE k # m
      <4>1. /\ k \in DOMAIN index /\ File(index', k) = File(index, k)
            /\ File(index, k) \notin orphans /\ (File(index, k) \in disk \/ k \in shed)
        BY <1>7, <1>8, <1>9, <3>2 DEF Mirrors
      <4>2. File(index, k) \notin old
        BY <1>10, <3>2 DEF File
      <4> QED BY <1>2, <3>2, <4>1, <4>2
    <3> QED BY <3>1, <3>2
  <2>2. ASSUME NEW f \in disk'
        PROVE (f[1] \in DOMAIN index' /\ f = File(index', f[1])) \/ f \in orphans'
    <3>1. f \in disk /\ (f \in old => f \in orphans')
      BY <1>2
    <3>2. \/ f[1] \in DOMAIN index /\ f = File(index, f[1])
          \/ f \in orphans \/ f = PutFile
      BY <1>7, <3>1 DEF Mirrors
    <3>3. CASE f = PutFile
      BY <1>8, <1>9, <3>3 DEF PutFile
    <3>4. CASE f \in orphans
      BY <1>2, <3>4
    <3>5. CASE f[1] \in DOMAIN index /\ f = File(index, f[1]) /\ f # PutFile
      <4>1. CASE f[1] = m
        <5>1. f \in old
          BY <3>5, <4>1 DEF Files
        <5> QED BY <3>1, <5>1
      <4>2. CASE f[1] # m
        BY <1>8, <1>9, <3>5, <4>2
      <4> QED BY <4>1, <4>2
    <3> QED BY <3>2, <3>3, <3>4, <3>5
  <2>3. Mirrors(index', disk', orphans', shed', {})
    BY <2>1, <2>2 DEF Mirrors
  <2> QED BY <1>5, <2>3 DEF Indexed
<1>14. CapsHeld'
  <2>1. Within(size, DOMAIN index \union {m})
    BY <1>3 DEF StoreInv, CapsHeld
  <2> QED BY <1>1, <1>5, <1>8, <2>1 DEF CapsHeld
<1>15. NamesAreNew'
  <2>1. BeingRead' = BeingRead
    BY <1>1 DEF BeingRead
  <2>2. NamesAreNew
    BY DEF StoreInv
  <2>3. ASSUME NEW k \in DOMAIN index', <<k, now>> \in orphans' \union BeingRead
        PROVE index'[k].ended <= now + Slack
    <3>1. CASE k = m
      <4>1. <<m, now>> \in Taken
        BY <1>2, <2>3, <3>1 DEF Taken
      <4>2. index'[k].ended = now /\ now \in Nat
        BY <1>3, <1>6, <1>8, <2>2, <3>1, <4>1, StoreAssumption DEF NamesAreNew, Clock
      <4> QED BY <4>2, StoreAssumption
    <3>2. CASE k # m
      <4>1. <<k, now>> \in orphans \union BeingRead
        BY <1>2, <1>10, <2>3, <3>2
      <4>2. k \in DOMAIN index /\ index'[k] = index[k]
        BY <1>8, <3>2
      <4> QED BY <2>2, <4>1, <4>2 DEF NamesAreNew
    <3> QED BY <3>1, <3>2
  <2> QED BY <1>1, <1>5, <2>1, <2>3 DEF NamesAreNew
<1>16. DriverKnown' /\ Onward
  <2>1. driver[m].at = "storing"
    BY <1>3 DEF DriverKnown
  <2>2. TRUE \in BOOLEAN
    OBVIOUS
  <2>3. /\ shed \ {m} \subseteq shed' /\ disk' \subseteq disk
        /\ DOMAIN index \subseteq DOMAIN index' \union shed' /\ m \in DOMAIN index'
        /\ DOMAIN index' \subseteq DOMAIN index \union {m}
    BY <1>2, <1>8
  <2> HIDE DEF m
  <2> QED BY ONLY <1>1, <1>4, <1>5, <2>1, <2>2, <2>3, DriverKnown, PersistGoesOn
<1> QED BY <1>12, <1>13, <1>14, <1>15, <1>16 DEF StoreInv

\* The memory and SQLite stores' put.
LEMMA PutAtOnceStore ==
  ASSUME StoreInv, DriverKnown, NEW m \in Matches, NEW extra, PutAtOnce(m, extra),
         backend # "file"
  PROVE  StoreInv' /\ DriverKnown' /\ Onward
<1> DEFINE ix == Index1
           fresh == Keep(ix, DOMAIN ix \ Expired(ix))
<1>1. PICK room \in RoomFor(fresh, m) :
        LET roomy == Keep(fresh, DOMAIN fresh \ room)
        IN \E more \in IF extra = 0 THEN {{}} ELSE OldestHolding(roomy, m, extra) :
             /\ index' = Added(Keep(roomy, DOMAIN roomy \ more), m, now)
             /\ shed' = (shed \union Expired(ix) \union room \union more) \ {m}
  BY DEF PutAtOnce
<1> DEFINE roomy == Keep(fresh, DOMAIN fresh \ room)
<1>2. PICK more \in IF extra = 0 THEN {{}} ELSE OldestHolding(roomy, m, extra) :
        /\ index' = Added(Keep(roomy, DOMAIN roomy \ more), m, now)
        /\ shed' = (shed \union Expired(ix) \union room \union more) \ {m}
  BY <1>1
<1>3. /\ driver[m].at = "storing" /\ LockFree /\ size[m] <= RecordLimit
      /\ Persisted(m, TRUE) /\ reader' = reader /\ registered' = registered
      /\ backend' = backend /\ size' = size /\ now' = now /\ tmps' = tmps /\ held' = held
      /\ disk' = disk /\ orphans' = orphans /\ put' = put
  BY DEF PutAtOnce, Puts
<1>4. /\ StoreTypes /\ IsIndex(index) /\ now \in Clock /\ size \in [Matches -> Nat]
      /\ disk = {} /\ orphans = {}
  BY DEF StoreInv, StoreTypes
<1>5. /\ DOMAIN ix = DOMAIN index /\ IsIndex(ix)
      /\ \A k \in DOMAIN ix : ix[k].ended <= now + Slack
  BY <1>4, ClampIs DEF Index1
<1> HIDE DEF ix
<1>6. /\ DOMAIN fresh = DOMAIN ix \ Expired(ix) /\ DOMAIN fresh \subseteq Matches /\ IsIndex(fresh)
      /\ \A k \in DOMAIN fresh : fresh[k] = ix[k]
  <2>1. DOMAIN ix \cap (DOMAIN ix \ Expired(ix)) = DOMAIN ix \ Expired(ix)
    OBVIOUS
  <2> QED BY <1>5, <2>1, KeepIs DEF IsIndex
<1> HIDE DEF fresh
<1>7. room \subseteq DOMAIN fresh \ {m} /\ Within(size, (DOMAIN fresh \ room) \union {m})
  BY <1>3, <1>4, <1>6, RoomIsMade
<1>8. /\ DOMAIN roomy = DOMAIN fresh \ room /\ IsIndex(roomy)
      /\ \A k \in DOMAIN roomy : roomy[k] = fresh[k]
  <2>1. DOMAIN fresh \cap (DOMAIN fresh \ room) = DOMAIN fresh \ room
    OBVIOUS
  <2> QED BY <1>6, <2>1, KeepIs
<1> HIDE DEF roomy
<1> DEFINE left == Keep(roomy, DOMAIN roomy \ more)
<1>9. /\ DOMAIN left = DOMAIN roomy \ more /\ IsIndex(left)
      /\ \A k \in DOMAIN left : left[k] = roomy[k]
  <2>1. DOMAIN roomy \cap (DOMAIN roomy \ more) = DOMAIN roomy \ more
    OBVIOUS
  <2> QED BY <1>8, <2>1, KeepIs
<1>10. index' = Added(left, m, now)
  BY <1>2
<1> HIDE DEF left
<1>11. /\ DOMAIN index' = DOMAIN left \union {m} /\ IsIndex(index')
       /\ index'[m].ended = now /\ \A k \in DOMAIN left \ {m} : index'[k] = left[k]
  BY <1>4, <1>9, <1>10 DEF Added, IsIndex, Record
<1>12. StoreTypes'
  BY <1>3, <1>4, <1>11 DEF StoreTypes, LockFree, Putting, NoPut
<1>13. Indexed'
  BY <1>3 DEF Indexed
<1>14. CapsHeld'
  <2>1. (DOMAIN fresh \ room) \union {m} \in SUBSET Matches
    BY <1>6
  <2>2. DOMAIN index' \in SUBSET ((DOMAIN fresh \ room) \union {m})
    BY <1>8, <1>9, <1>11
  <2>3. Within(size, DOMAIN index')
    BY <1>4, <1>7, <2>1, <2>2, WithinSubset
  <2> QED BY <1>3, <2>3 DEF CapsHeld, Putting, LockFree
<1>15. NamesAreNew'
  <2>1. now <= now + Slack
    BY <1>4, StoreAssumption DEF Clock
  <2>2. ASSUME NEW k \in DOMAIN index' PROVE index'[k].ended <= now + Slack
    <3>1. CASE k = m
      BY <1>11, <2>1, <3>1
    <3>2. CASE k # m
      <4>1. k \in DOMAIN left /\ index'[k] = left[k]
        BY <1>11, <3>2
      <4>2. k \in DOMAIN roomy /\ left[k] = roomy[k]
        BY <1>9, <4>1
      <4>3. k \in DOMAIN fresh /\ roomy[k] = fresh[k]
        BY <1>8, <4>2
      <4>4. k \in DOMAIN ix /\ fresh[k] = ix[k]
        BY <1>6, <4>3
      <4> QED BY <1>5, <4>1, <4>2, <4>3, <4>4
    <3> QED BY <3>1, <3>2
  <2> QED BY <1>3, <2>2 DEF NamesAreNew, LockFree, Putting
<1>16. DriverKnown' /\ Onward
  <2>1. TRUE \in BOOLEAN /\ ~Putting'
    BY <1>3 DEF Putting, LockFree
  <2>2. /\ shed \ {m} \subseteq shed' /\ disk' \subseteq disk
        /\ DOMAIN index \subseteq DOMAIN index' \union shed' /\ m \in DOMAIN index'
        /\ DOMAIN index' \subseteq DOMAIN index \union {m}
    BY <1>2, <1>3, <1>5, <1>6, <1>8, <1>9, <1>11
  <2> QED BY ONLY <1>3, <2>1, <2>2, DriverKnown, m \in Matches, PersistGoesOn
<1> QED BY <1>12, <1>13, <1>14, <1>15, <1>16 DEF StoreInv

\* A lookup clamps the index, and drops the record it wants when that has expired.
LEMMA LooksStore ==
  ASSUME StoreInv, DriverKnown, NEW r \in Readers, Looks(r)
  PROVE  /\ StoreInv' /\ StoreStep /\ LockFree /\ orphans' \subseteq orphans \union held
         /\ backend # "file" => disk' = {}
         /\ DOMAIN index' = DOMAIN index \ ({reader[r].id} \cap Expired(Index1))
         /\ reader[r].id \in DOMAIN index' <=> Here(r)
         /\ reader[r].id \in DOMAIN index' =>
              File(Index1, reader[r].id) \in Paths /\ File(Index1, reader[r].id)[1] = reader[r].id
<1> DEFINE dead == {reader[r].id} \cap Expired(Index1)
           c == Index1  d == Disk1
<1>1. /\ LockFree /\ Drop(c, d, orphans, dead) /\ shed' = shed \union dead
      /\ backend' = backend /\ size' = size /\ now' = now /\ tmps' = tmps /\ put' = put
      /\ held' = held /\ server' = server
  BY DEF Looks
<1>2. /\ StoreTypes /\ NamesAreNew /\ Indexed /\ CapsHeld
      /\ IsIndex(index) /\ now \in Clock /\ size \in [Matches -> Nat]
      /\ held \subseteq disk /\ orphans \subseteq disk
  BY DEF StoreInv, StoreTypes
<1>3. /\ DOMAIN c = DOMAIN index /\ IsIndex(c)
      /\ \A m \in DOMAIN c : c[m].ended <= now + Slack
  BY <1>2, ClampIs DEF Index1
<1>4. dead \subseteq DOMAIN index
  BY <1>3 DEF Expired
<1> HIDE DEF c, d
<1>5. /\ DOMAIN index' = DOMAIN c \ dead /\ IsIndex(index')
      /\ \A m \in DOMAIN index' : index'[m] = c[m]
  BY <1>1, <1>3, DropIs
<1>6. backend = "file" =>
        /\ Mirrors(index', disk', orphans', shed', {})
        /\ disk' \subseteq Paths /\ orphans' \subseteq disk' /\ held \subseteq disk'
        /\ orphans' \subseteq orphans \union held
        /\ \A f \in disk' \ disk : f[1] \in DOMAIN index /\ f \notin BeingRead
  <2> SUFFICES ASSUME backend = "file"
               PROVE  /\ Mirrors(index', disk', orphans', shed', {})
                      /\ disk' \subseteq Paths /\ orphans' \subseteq disk' /\ held \subseteq disk'
                      /\ orphans' \subseteq orphans \union held
                      /\ \A f \in disk' \ disk : f[1] \in DOMAIN index /\ f \notin BeingRead
    OBVIOUS
  <2>1. Mirrors(index, disk, orphans, shed, {})
    BY <1>1, <1>2 DEF Indexed, LockFree, NoPut
  <2>2. disk \in SUBSET disk /\ orphans \in SUBSET disk /\ orphans \subseteq orphans
    BY <1>2
  <2>3. Drop(Clamped(index, disk), ClampedFiles(index, disk), orphans, dead)
    BY <1>1 DEF c, d, Index1, Disk1
  <2> HIDE DEF dead
  <2> QED BY <1>1, <1>2, <1>4, <2>1, <2>2, <2>3, TrimIs
<1>7. backend # "file" => disk' = {} /\ orphans' = {} /\ held = {}
  <2> SUFFICES ASSUME backend # "file" PROVE disk' = {} /\ orphans' = {} /\ held = {}
    OBVIOUS
  <2>1. disk = {} /\ orphans = {} /\ held = {}
    BY <1>2 DEF StoreTypes
  <2>2. d = {}
    <3>1. disk \in SUBSET Paths
      BY <1>2 DEF StoreTypes
    <3> QED BY <1>2, <2>1, <3>1, ClampedFilesAre DEF d, Disk1
  <2> QED BY <1>1, <2>1, <2>2 DEF Drop
<1>8. StoreTypes'
  BY <1>1, <1>2, <1>5, <1>6, <1>7 DEF StoreTypes, LockFree, Putting, NoPut
<1>9. Indexed'
  BY <1>1, <1>6 DEF Indexed, LockFree, NoPut
<1>10. CapsHeld'
  <2>1. Within(size, DOMAIN index)
    BY <1>1, <1>2 DEF CapsHeld, LockFree, Putting
  <2>2. DOMAIN index \in SUBSET Matches /\ DOMAIN index' \in SUBSET DOMAIN index
    BY <1>2, <1>3, <1>5 DEF IsIndex
  <2>3. Within(size, DOMAIN index')
    BY <1>2, <2>1, <2>2, WithinSubset
  <2> QED BY <1>1, <2>3 DEF CapsHeld, LockFree, Putting
<1>11. NamesAreNew'
  BY <1>1, <1>3, <1>5 DEF NamesAreNew, LockFree, Putting
<1>12. StoreStep
  <2>1. \A f \in disk' \ disk : f[1] \in DOMAIN index /\ f \notin BeingRead
    BY <1>6, <1>7
  <2> QED BY <1>1, <1>3, <1>5, <2>1 DEF StoreStep, LockFree, Putting
<1>13. orphans' \subseteq orphans \union held
  BY <1>6, <1>7
<1>14. reader[r].id \in DOMAIN index' <=> Here(r)
  <2>1. DOMAIN index' = DOMAIN Index1 \ dead
    BY <1>5 DEF c
  <2> QED BY <2>1 DEF Here
<1>15. reader[r].id \in DOMAIN index' =>
              File(Index1, reader[r].id) \in Paths /\ File(Index1, reader[r].id)[1] = reader[r].id
  BY <1>3, <1>5 DEF c, File, Paths, IsIndex, Record, Clock
<1> QED BY <1>1, <1>3, <1>5, <1>7, <1>8, <1>9, <1>10, <1>11, <1>12, <1>13, <1>14, <1>15
        DEF StoreInv

\* The record of a file that is gone, and was not replaced, goes too.
LEMMA RecheckStore ==
  ASSUME StoreInv, DriverKnown, NEW r \in Readers, Recheck(r),
         reader[r].file \notin disk, BeingRead' \subseteq BeingRead
  PROVE  /\ StoreInv' /\ StoreStep /\ LockFree
         /\ reader[r].file \in Files(index, DOMAIN index \cap {reader[r].id}) =>
              DOMAIN index' = DOMAIN index \ {reader[r].id} /\ reader[r].id \in shed'
<1> DEFINE m == reader[r].id
           dead == IF reader[r].file \in Files(index, DOMAIN index \cap {m}) THEN {m} ELSE {}
<1>1. /\ LockFree
      /\ backend' = backend /\ size' = size /\ now' = now /\ tmps' = tmps /\ put' = put
      /\ held' = held /\ server' = server /\ disk' = disk /\ orphans' = orphans
  BY DEF Recheck
<1>2. /\ StoreTypes /\ NamesAreNew /\ Indexed /\ CapsHeld
      /\ IsIndex(index) /\ now \in Clock /\ size \in [Matches -> Nat]
  BY DEF StoreInv, StoreTypes
<1>3. /\ DOMAIN index' = DOMAIN index \ dead /\ IsIndex(index')
      /\ \A k \in DOMAIN index' : index'[k] = index[k] /\ File(index', k) = File(index, k)
  <2>1. CASE reader[r].file \in Files(index, DOMAIN index \cap {m})
    <3>1. index' = Keep(index, DOMAIN index \ {m})
      BY <2>1 DEF Recheck
    <3>2. DOMAIN index \cap (DOMAIN index \ {m}) = DOMAIN index \ {m}
      OBVIOUS
    <3>3. dead = {m}
      BY <2>1
    <3> HIDE DEF dead, m
    <3>4. /\ DOMAIN index' = DOMAIN index \ {m} /\ IsIndex(index')
          /\ \A k \in DOMAIN index \ {m} : index'[k] = index[k] /\ File(index', k) = File(index, k)
      BY ONLY <1>2, <3>1, <3>2, KeepIs
    <3> QED BY <3>3, <3>4
  <2>2. CASE reader[r].file \notin Files(index, DOMAIN index \cap {m})
    <3>1. index' = index
      BY <2>2 DEF Recheck
    <3> QED BY <1>2, <2>2, <3>1
  <2> QED BY <2>1, <2>2
<1>4. shed' = shed \union dead
  BY DEF Recheck
<1>5. m \in dead => m \in DOMAIN index /\ File(index, m) \notin disk
  BY DEF Files
<1>6. dead \subseteq {m}
  OBVIOUS
<1> HIDE DEF dead
<1>7. StoreTypes'
  BY <1>1, <1>2, <1>3 DEF StoreTypes, LockFree, Putting
<1>8. Indexed'
  <2> SUFFICES ASSUME backend = "file" PROVE Indexed'
    BY <1>1 DEF Indexed
  <2>1. Mirrors(index, disk, orphans, shed, {})
    BY <1>1, <1>2 DEF Indexed, LockFree, NoPut
  <2>2. Mirrors(index', disk, orphans, shed', {})
    BY <1>3, <1>4, <1>5, <1>6, <2>1 DEF Mirrors
  <2> QED BY <1>1, <2>2 DEF Indexed, LockFree, NoPut
<1>9. CapsHeld'
  <2>1. Within(size, DOMAIN index)
    BY <1>1, <1>2 DEF CapsHeld, LockFree, Putting
  <2>2. DOMAIN index \in SUBSET Matches /\ DOMAIN index' \in SUBSET DOMAIN index
    BY <1>2, <1>3 DEF IsIndex
  <2>3. Within(size, DOMAIN index')
    BY <1>2, <2>1, <2>2, WithinSubset
  <2> QED BY <1>1, <2>3 DEF CapsHeld, LockFree, Putting
<1>10. NamesAreNew'
  BY <1>1, <1>2, <1>3 DEF NamesAreNew, LockFree, Putting
<1>11. StoreStep
  BY <1>1, <1>3, <1>4 DEF StoreStep, LockFree, Putting
<1> QED BY <1>1, <1>3, <1>4, <1>7, <1>8, <1>9, <1>10, <1>11 DEF StoreInv, dead

\* Of the files of a match there is a latest one.
LEMMA LatestFile ==
  ASSUME disk \subseteq Paths, NEW g \in disk
  PROVE  \E f \in Found : f[1] = g[1]
<1> DEFINE D == {MaxClock - f[2] : f \in {f \in disk : f[1] = g[1]}}
<1>1. \A f \in disk : f[2] \in Nat /\ MaxClock - f[2] \in Nat
  <2>1. ASSUME NEW f \in disk PROVE f[2] \in Nat /\ MaxClock - f[2] \in Nat
    <3>1. f[2] \in 0..MaxClock
      BY DEF Paths
    <3> QED BY <3>1, StoreAssumption
  <2> QED BY <2>1
<1>2. D \subseteq Nat /\ D # {}
  BY <1>1
<1>3. PICK x \in D : \A y \in D : ~ (<<y, x>> \in OpToRel(<, Nat))
  BY <1>2, NatLessThanWellFounded, WFMin
<1>4. PICK f \in disk : f[1] = g[1] /\ x = MaxClock - f[2]
  OBVIOUS
<1>5. ASSUME NEW h \in disk, h[1] = f[1] PROVE h[2] <= f[2]
  <2>1. MaxClock - h[2] \in D
    BY <1>4, <1>5
  <2>2. ~(MaxClock - h[2] < x)
    BY <1>2, <1>3, <2>1 DEF OpToRel
  <2> QED BY <1>1, <1>4, <2>2, StoreAssumption
<1>6. f \in Found
  BY <1>5 DEF Found
<1> QED BY <1>4, <1>6

\* What a file store finds at its start is a directory that its index mirrors: the
\* files that are not the latest of their match wait to be deleted.
LEMMA LoadedMirrors ==
  ASSUME StoreTypes, backend = "file"
  PROVE  LET files == Found \union (disk \cap held)
         IN /\ IsIndex(Loaded) /\ DOMAIN Loaded = {f[1] : f \in disk}
            /\ Mirrors(Loaded, files, files \ Files(Loaded, DOMAIN Loaded), {}, {})
            /\ files \ Files(Loaded, DOMAIN Loaded) \subseteq held
<1> DEFINE files == Found \union (disk \cap held)
           L == [m \in {f[1] : f \in Found} |->
                   LET f == CHOOSE f \in Found : f[1] = m IN [ended |-> f[2], name |-> f[2]]]
<1>1. Loaded = L
  BY DEF Loaded
<1>2. Found \subseteq disk /\ disk \subseteq Paths /\ \A f \in Found, g \in disk : g[1] = f[1] => g[2] <= f[2]
  BY DEF Found, StoreTypes
<1>3. ASSUME NEW m \in DOMAIN L
      PROVE L[m] \in Record /\ m \in Matches /\ File(L, m) \in Found
  <2> DEFINE f == CHOOSE f \in Found : f[1] = m
  <2>1. f \in Found /\ f[1] = m
    <3>1. \E g \in Found : g[1] = m
      OBVIOUS
    <3> QED BY <3>1
  <2>2. L[m] = [ended |-> f[2], name |-> f[2]]
    OBVIOUS
  <2> HIDE DEF f, L
  <2>3. f = <<m, f[2]>> /\ m \in Matches /\ f[2] \in Clock
    BY <1>2, <2>1 DEF Paths, Clock
  <2>4. File(L, m) = f
    BY <2>2, <2>3 DEF File
  <2> QED BY <2>1, <2>2, <2>3, <2>4 DEF Record
<1>4. IsIndex(L)
  <2>1. L \in [DOMAIN L -> Record]
    BY <1>3
  <2>2. DOMAIN L \subseteq Matches
    BY <1>3
  <2> HIDE DEF L
  <2> QED BY <2>1, <2>2 DEF IsIndex
<1>5. DOMAIN L = {f[1] : f \in disk}
  <2>1. \A g \in disk : g[1] \in DOMAIN L
    BY <1>2, LatestFile
  <2>2. DOMAIN L \subseteq {f[1] : f \in disk}
    BY <1>2
  <2> HIDE DEF L
  <2> QED BY <2>1, <2>2
<1>6. \A f \in Found : f[1] \in DOMAIN L
  OBVIOUS
<1> HIDE DEF L
<1>7. ASSUME NEW f \in Found PROVE f \in Files(L, DOMAIN L)
  <2> DEFINE m == f[1]
             g == File(L, m)
  <2>1. m \in DOMAIN L /\ g \in Found /\ g[1] = m
    BY <1>3, <1>6 DEF File
  <2> HIDE DEF g
  <2>2. g[2] <= f[2] /\ f[2] <= g[2]
    BY <1>2, <2>1
  <2>3. f[2] \in Nat /\ g[2] \in Nat /\ f = <<m, f[2]>> /\ g = <<m, g[2]>>
    BY <1>2, <2>1, StoreAssumption DEF Paths
  <2>4. f[2] = g[2]
    BY <2>2, <2>3
  <2>5. f = g
    BY <2>3, <2>4
  <2> QED BY <2>1, <2>5 DEF Files, g
<1>8. files \ Files(L, DOMAIN L) \subseteq held
  BY <1>7
<1>9. Mirrors(L, files, files \ Files(L, DOMAIN L), {}, {})
  <2>1. \A m \in DOMAIN L : File(L, m) \in files /\ File(L, m) \in Files(L, DOMAIN L)
    BY <1>3 DEF Files
  <2>2. \A f \in Files(L, DOMAIN L) : f[1] \in DOMAIN L /\ f = File(L, f[1])
    BY DEF Files, File
  <2> HIDE DEF files
  <2> QED BY <2>1, <2>2 DEF Mirrors
<1> QED BY <1>1, <1>4, <1>5, <1>8, <1>9

\* The process restarts: the store is in order again, whatever the crash left, and no
\* transcript that was gone comes back.
LEMMA RestartStore ==
  ASSUME StoreInv, DriverKnown, Restart
  PROVE  StoreInv' /\ DriverKnown' /\ \A m \in Matches : Gone(m) => Gone(m)'
<1> DEFINE files == Found \union (disk \cap held)
           ix == Clamped(Loaded, files)
           kept == ClampedFiles(Loaded, files)
           fresh == Keep(ix, DOMAIN ix \ Expired(ix))
<1>1. PICK over \in OverCaps(fresh) :
        /\ index' = Keep(ix, DOMAIN ix \ (Expired(ix) \union over))
        /\ disk' = kept \ (Files(ix, Expired(ix) \union over) \ held)
        /\ orphans' = (kept \cap held) \ Files(ix, DOMAIN ix \ (Expired(ix) \union over))
        /\ shed' = shed \union (Expired(ix) \union over)
                    \union (IF backend = "memory" THEN Matches ELSE {})
  BY DEF Restart
<1> DEFINE gone == Expired(ix) \union over
<1>2. /\ tmps' = {} /\ put' = NoPut /\ registered' = {}
      /\ driver' = [m \in Matches |->
           IF driver[m].at = "absent" THEN driver[m] ELSE [driver[m] EXCEPT !.at = "over"]]
      /\ reader' = [r \in Readers |-> NoRead]
      /\ backend' = backend /\ size' = size /\ now' = now /\ held' = held /\ settled' = settled
  BY DEF Restart
<1>3. /\ StoreTypes /\ IsIndex(index) /\ now \in Clock /\ size \in [Matches -> Nat]
      /\ held \subseteq disk /\ disk \subseteq Paths
      /\ backend \in {"memory", "file", "sqlite"} /\ (backend # "file" => disk = {})
  BY DEF StoreInv, StoreTypes
<1>4. files \in SUBSET disk /\ files \in SUBSET Paths /\ held \subseteq files
  BY <1>3 DEF Found
<1>5. IsIndex(Loaded) /\ (backend = "memory" => DOMAIN Loaded = {})
      /\ (backend = "sqlite" => Loaded = index)
      /\ (backend = "file" => DOMAIN Loaded = {f[1] : f \in disk})
  <2>1. CASE backend = "memory"
    <3>1. Loaded = <<>>
      BY <2>1 DEF Loaded
    <3>2. <<>> \in [{} -> Record] /\ DOMAIN <<>> = {}
      OBVIOUS
    <3> QED BY <2>1, <3>1, <3>2 DEF IsIndex
  <2>2. CASE backend = "sqlite"
    BY <1>3, <2>2 DEF Loaded
  <2>3. CASE backend = "file"
    BY <1>3, <2>3, LoadedMirrors
  <2> QED BY <1>3, <2>1, <2>2, <2>3
<1>6. /\ DOMAIN ix = DOMAIN Loaded /\ IsIndex(ix)
      /\ \A m \in DOMAIN ix : ix[m].ended <= now + Slack
  BY <1>3, <1>5, ClampIs
<1>7. /\ kept \subseteq Paths /\ files \cap held \subseteq kept
      /\ \A f \in kept : f \in files \/ f[1] \in Renamed(Loaded, files)
      /\ files = {} => kept = {}
  <2> HIDE DEF files
  <2> QED BY <1>3, <1>4, <1>5, ClampedFilesAre
<1>8. Renamed(Loaded, files) \subseteq DOMAIN Loaded
      /\ \A m \in Renamed(Loaded, files) : <<m, now>> \notin held
  BY DEF Renamed, Future
<1>9. /\ DOMAIN fresh = DOMAIN ix \ Expired(ix) /\ DOMAIN fresh \subseteq Matches
  BY <1>6 DEF Keep, IsIndex
<1> DEFINE waiting == files \ Files(Loaded, DOMAIN Loaded)
<1>10. backend = "file" => Mirrors(ix, kept, waiting, {}, {}) /\ waiting \subseteq held
  <2> SUFFICES ASSUME backend = "file"
               PROVE  Mirrors(ix, kept, waiting, {}, {}) /\ waiting \subseteq held
    OBVIOUS
  <2>1. Mirrors(Loaded, files, waiting, {}, {}) /\ waiting \subseteq held
    BY <1>3, LoadedMirrors
  <2>2. \A m \in Renamed(Loaded, files) : <<m, now>> \notin waiting
    BY <1>8, <2>1
  <2> HIDE DEF files, waiting
  <2> QED BY <1>3, <1>4, <1>5, <2>1, <2>2, ClampMirrors
<1> HIDE DEF files, ix, kept, fresh, waiting
<1>11. over \subseteq DOMAIN fresh /\ Within(size, DOMAIN fresh \ over)
  BY <1>3, <1>9, CapsAreMade
<1>12. gone \subseteq DOMAIN ix /\ DOMAIN ix \ gone = DOMAIN fresh \ over
  BY <1>9, <1>11 DEF Expired
<1>13. /\ index' = Keep(ix, DOMAIN ix \ gone) /\ disk' = kept \ (Files(ix, gone) \ held)
       /\ orphans' = (kept \cap held) \ Files(ix, DOMAIN ix \ gone)
       /\ shed \subseteq shed' /\ gone \subseteq shed' /\ (backend = "memory" => Matches \subseteq shed')
  BY <1>1
<1> HIDE DEF gone
<1>14. /\ DOMAIN index' = DOMAIN ix \ gone /\ IsIndex(index')
       /\ \A m \in DOMAIN index' : index'[m] = ix[m] /\ File(index', m) = File(ix, m)
  <2>1. DOMAIN ix \cap (DOMAIN ix \ gone) = DOMAIN ix \ gone
    OBVIOUS
  <2> QED BY <1>6, <1>13, <2>1, KeepIs
<1>15. ~Putting' /\ put'.at = "none"
  BY <1>2 DEF Putting, NoPut
<1>16. StoreTypes'
  <2>1. disk' \subseteq Paths
    BY <1>7, <1>13
  <2>2. orphans' \subseteq disk'
    BY <1>13
  <2>3. held \subseteq disk'
    BY <1>4, <1>7, <1>13
  <2>4. backend # "file" => disk' = {}
    BY <1>3, <1>4, <1>7, <1>13
  <2> QED BY <1>2, <1>3, <1>14, <1>15, <2>1, <2>2, <2>3, <2>4 DEF StoreTypes
<1>17. Indexed'
  <2> SUFFICES ASSUME backend = "file" PROVE Indexed'
    BY <1>2 DEF Indexed
  <2>1. ASSUME NEW m \in DOMAIN index'
        PROVE File(index', m) \notin orphans' /\ File(index', m) \in disk'
    <3>1. /\ m \in DOMAIN ix \ gone /\ File(index', m) = File(ix, m)
          /\ File(ix, m) \in kept
      BY <1>10, <1>14 DEF Mirrors
    <3>2. File(ix, m) \in Files(ix, DOMAIN ix \ gone) /\ File(ix, m) \notin Files(ix, gone)
      BY <3>1 DEF Files, File
    <3> QED BY <1>13, <3>1, <3>2
  <2>2. ASSUME NEW f \in disk'
        PROVE (f[1] \in DOMAIN index' /\ f = File(index', f[1])) \/ f \in orphans'
    <3>1. f \in kept /\ (f \in Files(ix, gone) => f \in held)
      BY <1>13
    <3>2. (f[1] \in DOMAIN ix /\ f = File(ix, f[1])) \/ f \in held
      BY <1>10, <3>1 DEF Mirrors
    <3>3. CASE f \in Files(ix, DOMAIN ix \ gone)
      BY <1>14, <3>3 DEF Files, File
    <3>4. CASE f \notin Files(ix, DOMAIN ix \ gone)
      <4>1. f[1] \in DOMAIN ix /\ f = File(ix, f[1]) => f[1] \in gone
        BY <3>4 DEF Files
      <4>2. f \in held
        BY <3>1, <3>2, <4>1 DEF Files
      <4> QED BY <1>13, <3>1, <3>4, <4>2
    <3> QED BY <3>3, <3>4
  <2>3. Mirrors(index', disk', orphans', shed', {})
    BY <2>1, <2>2 DEF Mirrors
  <2> QED BY <1>15, <2>3 DEF Indexed
<1>18. CapsHeld'
  BY <1>2, <1>11, <1>12, <1>14, <1>15 DEF CapsHeld
<1>19. NamesAreNew'
  BY <1>2, <1>6, <1>14, <1>15 DEF NamesAreNew
<1> DEFINE Known == [at : {"absent", "created", "storing", "ended", "told", "over"},
                     puts : Nat, kept : BOOLEAN]
<1>20. driver \in [Matches -> Known]
  BY DEF DriverKnown
<1>21. /\ driver' \in [Matches -> Known]
       /\ \A m \in Matches :
            /\ driver'[m].at = IF driver[m].at = "absent" THEN "absent" ELSE "over"
            /\ driver'[m].kept = driver[m].kept
  BY <1>2, <1>20
<1> HIDE DEF Known
<1>22. ASSUME NEW m \in DOMAIN index PROVE m \in shed' \/ m \in DOMAIN index'
  <2>1. m \in Matches
    BY <1>3 DEF IsIndex
  <2>2. backend = "memory" => m \in shed'
    BY <1>13, <2>1
  <2>3. backend = "file" => m \in shed \/ m \in DOMAIN Loaded
    <3> SUFFICES ASSUME backend = "file" PROVE m \in shed \/ m \in DOMAIN Loaded
      OBVIOUS
    <3>1. File(index, m) \in disk \/ m \in shed
      BY DEF StoreInv, Indexed, Mirrors
    <3> QED BY <1>5, <3>1 DEF File
  <2>4. m \in DOMAIN Loaded => m \in shed' \/ m \in DOMAIN index'
    BY <1>6, <1>13, <1>14
  <2> QED BY <1>3, <1>5, <1>13, <2>2, <2>3, <2>4
<1>23. DriverKnown'
  <2>1. ASSUME NEW m \in Matches
        PROVE /\ driver'[m].kept => m \in settled' /\ (m \in shed' \/ m \in DOMAIN index')
              /\ driver'[m].at \in {"storing", "ended", "told"} => m \in registered'
              /\ driver'[m].at \in {"absent", "created"} => m \notin settled'
    <3>1. /\ driver[m].kept => m \in settled /\ (m \in shed \/ m \in DOMAIN index)
          /\ driver[m].at \in {"absent", "created"} => m \notin settled
      BY DEF DriverKnown
    <3>2. driver'[m].kept = driver[m].kept
          /\ driver'[m].at = IF driver[m].at = "absent" THEN "absent" ELSE "over"
      BY <1>21
    <3>3. driver'[m].kept => m \in settled' /\ (m \in shed' \/ m \in DOMAIN index')
      BY <1>2, <1>13, <1>22, <3>1, <3>2
    <3>4. /\ driver'[m].at \in {"storing", "ended", "told"} => m \in registered'
          /\ driver'[m].at \in {"absent", "created"} => m \notin settled'
      BY <1>2, <3>1, <3>2
    <3> QED BY <3>3, <3>4
  <2> QED BY <1>15, <1>21, <2>1 DEF DriverKnown, Known
<1>24. ASSUME NEW m \in Matches, Gone(m) PROVE Gone(m)'
  <2>1. Decided(m) /\ m \notin DOMAIN index /\ \A f \in disk : f[1] # m
    BY <1>24 DEF Gone
  <2>2. Decided(m)'
    BY <1>21, <2>1 DEF Decided
  <2>3. m \notin DOMAIN Loaded
    BY <1>3, <1>5, <2>1
  <2>4. m \notin DOMAIN index'
    BY <1>6, <1>14, <2>3
  <2>5. \A f \in disk' : f[1] # m
    BY <1>4, <1>7, <1>8, <1>13, <2>1, <2>3
  <2> QED BY <2>2, <2>4, <2>5 DEF Gone
<1> QED BY <1>16, <1>17, <1>18, <1>19, <1>23, <1>24 DEF StoreInv

----------------------------------------------------------------------------
(* The reads, step by step *)

\* A step that is no read's.
LEMMA NoReadStep ==
  ASSUME IInv, Watch, reader' = reader, denied' = denied, StoreInv', DriverKnown', Onward
  PROVE  IInv'
<1>1. ReaderTypes /\ (\A r \in Readers : ReaderKnown(r)) /\ Denials
  BY DEF IInv, ReadersInv
<1>2. Denials'
  BY <1>1 DEF Denials, Onward
<1>3. ASSUME NEW r \in Readers PROVE ReaderKnown(r)'
  BY <1>1, ReaderStays
<1>4. ReadersInv'
  BY <1>1, <1>3 DEF ReadersInv, ReaderTypes
<1> QED BY <1>2, <1>4 DEF IInv

\* A step of the read r, which becomes x.
LEMMA ReadStep ==
  ASSUME IInv, Watch, StoreInv', DriverKnown', Onward,
         NEW r \in Readers, NEW x \in Read, reader' = [reader EXCEPT ![r] = x],
         ReaderKnown(r)', denied \subseteq denied',
         \A m \in denied' \ denied : m \in Matches /\ Gone(m)'
  PROVE  IInv'
<1>1. ReaderTypes /\ (\A k \in Readers : ReaderKnown(k)) /\ Denials
  BY DEF IInv, ReadersInv
<1>2. Denials'
  BY <1>1 DEF Denials, Onward
<1>3. ReaderTypes' /\ \A k \in Readers \ {r} : reader'[k] = reader[k]
  BY <1>1 DEF ReaderTypes
<1>4. ASSUME NEW k \in Readers PROVE ReaderKnown(k)'
  <2>1. CASE k = r
    BY <2>1
  <2>2. CASE k # r
    BY <1>1, <1>3, <2>2, ReaderStays
  <2> QED BY <2>1, <2>2
<1>5. ReadersInv'
  BY <1>3, <1>4 DEF ReadersInv
<1> QED BY <1>2, <1>5 DEF IInv

\* What is known of a read under way stays known of its match, whoever steps.
LEMMA KnownOn ==
  ASSUME NEW r \in Readers, ReaderKnown(r), Onward, reader[r].at # "idle"
  PROVE  /\ reader[r].id \in Matches /\ driver'[reader[r].id].at # "absent"
         /\ ~reader[r].pending =>
              \/ reader[r].id \in settled'
              \/ reader[r].id \notin registered' /\ driver'[reader[r].id].at \in {"created", "over"}
         /\ reader[r].told =>
              /\ ~reader[r].pending /\ driver'[reader[r].id].at \in {"told", "over"}
              /\ driver'[reader[r].id].kept
         /\ reader[r].late => reader[r].id \in denied
<1> DEFINE m == reader[r].id
<1>1. m \in Matches /\ driver[m].at # "absent"
      /\ (~reader[r].pending => m \in settled
             \/ (m \notin registered /\ driver[m].at \in {"created", "over"}))
      /\ (reader[r].told =>
            ~reader[r].pending /\ driver[m].at \in {"told", "over"} /\ driver[m].kept)
      /\ (reader[r].late => m \in denied)
  BY DEF ReaderKnown
<1> HIDE DEF m
<1>2. driver'[m].at # "absent"
      /\ (~reader[r].pending => m \in settled'
             \/ (m \notin registered' /\ driver'[m].at \in {"created", "over"}))
      /\ (reader[r].told => driver'[m].at \in {"told", "over"} /\ driver'[m].kept)
  BY <1>1 DEF Onward
<1> QED BY <1>1, <1>2 DEF m

\* A read that answers, with the record or without.
LEMMA AnswerStep ==
  ASSUME IInv, Watch, StoreInv', DriverKnown', Onward, UNCHANGED server,
         NEW r \in Readers, reader[r].at \in {"lookup", "open", "missing"},
         NEW found \in BOOLEAN, NEW tries \in 0..2, Finds(r, found, tries),
         found => TRUE \in saw'[r] /\ ~reader[r].late,
         ~found => /\ FALSE \in saw'[r] \/ tries = 2
                   /\ reader[r].told => reader[r].id \in shed' \/ tries = 2
                   /\ tries # 2 => reader[r].id \notin DOMAIN index'
                   /\ put'.at = "none" /\ orphans' \subseteq orphans \union held
  PROVE  IInv'
<1> DEFINE m == reader[r].id
           at == IF found THEN "200" ELSE IF reader[r].pending THEN "409" ELSE "404"
           x == [reader[r] EXCEPT !.tries = tries, !.at = at]
<1>1. reader \in [Readers -> Read] /\ reader[r] \in Read /\ ReaderKnown(r) /\ DriverKnown
  BY DEF IInv, ReadersInv, ReaderTypes
<1>2. at \in {"200", "409", "404"} /\ (at = "200" <=> found) /\ (at = "409" => reader[r].pending)
      /\ (at = "404" => ~reader[r].pending)
  OBVIOUS
<1>3. reader' = [reader EXCEPT ![r].tries = tries, ![r].at = at]
  BY DEF Finds
<1>4. denied' = IF found \/ reader[r].pending \/ Undecided(r) THEN denied
                ELSE denied \union {m}
  BY DEF Finds
<1> HIDE DEF at
<1>5. reader' = [reader EXCEPT ![r] = x]
  BY <1>1, <1>3
<1>6. /\ x \in Read /\ x.at = at /\ x.tries = tries /\ x.id = m
      /\ x.pending = reader[r].pending /\ x.told = reader[r].told /\ x.late = reader[r].late
  BY <1>1, <1>2 DEF Read
<1> HIDE DEF x
<1>7. reader'[r] = x
  BY <1>1, <1>5
<1>8. /\ m \in Matches /\ driver'[m].at # "absent"
      /\ ~x.pending => m \in settled'
                        \/ (m \notin registered' /\ driver'[m].at \in {"created", "over"})
      /\ x.told => ~x.pending /\ driver'[m].at \in {"told", "over"} /\ driver'[m].kept
      /\ x.late => m \in denied
  BY <1>1, <1>6, KnownOn
<1>9. ReaderKnown(r)'
  <2>1. denied \subseteq denied'
    BY <1>4
  <2>2. x.at = "200" => TRUE \in saw'[r] /\ ~x.late
    BY <1>2, <1>6
  <2>3. x.at \in {"409", "404"} => FALSE \in saw'[r] \/ x.tries = 2
    BY <1>2, <1>6
  <2>4. x.told => (x.at = "404" => m \in shed' \/ x.tries = 2)
    BY <1>2, <1>6
  <2>5. x.at \in {"200", "409", "404"} /\ (x.at = "409" => x.pending)
    BY <1>2, <1>6
  <2> HIDE DEF m
  <2>6. reader'[r] = x /\ x.id = m
    BY <1>6, <1>7
  <2> QED BY ONLY <1>8, <2>1, <2>2, <2>3, <2>4, <2>5, <2>6 DEF ReaderKnown
<1>10. ASSUME NEW k \in denied' \ denied PROVE k \in Matches /\ Gone(k)'
  <2>1. k = m /\ ~found /\ ~reader[r].pending /\ ~Undecided(r)
    BY <1>4, <1>10
  <2>2. /\ ~(m \in settled /\ driver[m].at \in {"storing", "ended"})
        /\ \A f \in orphans \union held : f[1] # m
        /\ tries # 2
    BY <1>6, <1>7, <2>1 DEF Undecided
  <2>3. driver' = driver /\ registered' = registered /\ settled' = settled
    BY DEF server
  <2> HIDE DEF m
  <2>4. Decided(k)'
    <3>1. /\ driver[k].at \in {"absent", "created", "storing", "ended", "told", "over"}
          /\ driver[k].at \in {"absent", "created"} => k \notin settled
      BY <1>1, <1>8, <2>1 DEF DriverKnown
    <3>2. k \in settled \/ (k \notin registered /\ driver[k].at \in {"created", "over"})
      BY <1>1, <2>1 DEF ReaderKnown, m
    <3>3. driver[k].at \in {"told", "over"} \/ (driver[k].at = "created" /\ k \notin registered)
      BY <2>1, <2>2, <3>1, <3>2
    <3> QED BY <2>3, <3>3 DEF Decided
  <2>5. k \notin DOMAIN index'
    BY <2>1, <2>2 DEF m
  <2>6. \A f \in disk' : f[1] # k
    <3>1. CASE backend' # "file"
      BY <3>1 DEF StoreInv, StoreTypes
    <3>2. CASE backend' = "file"
      <4>1. Mirrors(index', disk', orphans', shed', {})
        BY <2>1, <3>2 DEF StoreInv, Indexed
      <4> QED BY <2>1, <2>2, <2>5, <4>1 DEF Mirrors
    <3> QED BY <3>1, <3>2
  <2>7. Gone(k)'
    BY <2>4, <2>5, <2>6 DEF Gone
  <2> QED BY <1>8, <2>1, <2>7
<1> QED BY <1>4, <1>5, <1>6, <1>9, <1>10, ReadStep

\* A read's step that leaves the store and the drivers alone, and opens no file.
LEMMA QuietRead ==
  ASSUME IInv, UNCHANGED <<backend, size, now, store, held, server, shed>>,
         NEW r \in Readers, NEW x \in Read, reader' = [reader EXCEPT ![r] = x],
         x.at \in {"open", "missing"} =>
           reader[r].at \in {"open", "missing"} /\ x.file = reader[r].file
  PROVE  StoreInv' /\ DriverKnown' /\ Onward /\ server' = server
<1>1. reader \in [Readers -> Read] /\ StoreInv /\ DriverKnown
  BY DEF IInv, ReadersInv, ReaderTypes
<1>2. BeingRead' \subseteq BeingRead
  <2>1. ASSUME NEW k \in Readers, reader'[k].at \in {"open", "missing"}
        PROVE reader'[k].file \in BeingRead
    <3>1. CASE k = r
      BY <1>1, <2>1, <3>1 DEF BeingRead
    <3>2. CASE k # r
      <4>1. reader'[k] = reader[k]
        BY <1>1, <3>2
      <4> QED BY <2>1, <4>1 DEF BeingRead
    <3> QED BY <3>1, <3>2
  <2> QED BY <2>1 DEF BeingRead
<1>3. StoreInv'
  BY <1>1, <1>2, QuietStore
<1>4. StoreStep
  BY <1>1 DEF StoreStep, store, Putting, DriverKnown
<1> QED BY <1>1, <1>3, <1>4, StoreStepGoesOn

\* A reader that asks keeps the invariant.
LEMMA AskStep ==
  ASSUME IInv, NEW r \in Readers, NEW m \in Matches, Ask(r, m), Watch
  PROVE  IInv'
<1> DEFINE pending == m \in registered \ settled
           told == driver[m].at \in {"told", "over"} /\ driver[m].kept
           late == m \in denied
           x == [NoRead EXCEPT !.at = "asked", !.id = m,
                   !.pending = pending, !.told = told, !.late = late]
<1>1. reader \in [Readers -> Read] /\ ReaderKnown(r) /\ DriverKnown
  BY DEF IInv, ReadersInv, ReaderTypes
<1>2. /\ driver[m].at # "absent" /\ denied' = denied
      /\ UNCHANGED <<backend, size, now, store, held, server, shed>>
      /\ reader' = [reader EXCEPT ![r] = x]
  BY DEF Ask
<1>3. pending \in BOOLEAN /\ told \in BOOLEAN /\ late \in BOOLEAN
  OBVIOUS
<1> HIDE DEF pending, told, late
<1>4. /\ x \in Read /\ x.at = "asked" /\ x.id = m
      /\ x.pending = pending /\ x.told = told /\ x.late = late
  <2>1. NoRead \in Read
    BY DEF NoRead, Read
  <2> QED BY <1>3, <2>1 DEF Read
<1> HIDE DEF x
<1>5. StoreInv' /\ DriverKnown' /\ Onward /\ server' = server
  BY <1>2, <1>4, QuietRead
<1>6. reader'[r] = x
  BY <1>1, <1>2
<1>7. ReaderKnown(r)'
  <2>1. /\ driver[m].at \in {"absent", "created", "storing", "ended", "told", "over"}
        /\ driver[m].kept => m \in settled
        /\ driver[m].at \in {"storing", "ended", "told"} => m \in registered
    BY <1>1 DEF DriverKnown
  <2>2. ~pending => m \in settled \/ (m \notin registered /\ driver[m].at \in {"created", "over"})
    BY <1>2, <2>1 DEF pending
  <2>3. told => ~pending /\ driver[m].at \in {"told", "over"} /\ driver[m].kept
    BY <2>1 DEF pending, told
  <2>4. late => m \in denied
    BY DEF late
  <2>5. driver' = driver /\ registered' = registered /\ settled' = settled
    BY <1>5 DEF server
  <2>6. driver[m].at # "absent" /\ denied' = denied
    BY <1>2
  <2> QED BY ONLY <1>4, <1>6, <2>2, <2>3, <2>4, <2>5, <2>6, m \in Matches DEF ReaderKnown
<1> QED BY <1>2, <1>4, <1>5, <1>7, ReadStep

\* A reader that gets its slot keeps the invariant.
LEMMA SlotStep ==
  ASSUME IInv, NEW r \in Readers, Slot(r), Watch
  PROVE  IInv'
<1> DEFINE x == [reader[r] EXCEPT !.at = "lookup"]  m == reader[r].id
<1>1. reader \in [Readers -> Read] /\ reader[r] \in Read /\ ReaderKnown(r)
  BY DEF IInv, ReadersInv, ReaderTypes
<1>2. /\ reader[r].at = "asked" /\ denied' = denied
      /\ UNCHANGED <<backend, size, now, store, held, server, shed>>
      /\ reader' = [reader EXCEPT ![r] = x]
  BY <1>1 DEF Slot
<1>3. /\ x \in Read /\ x.at = "lookup" /\ x.id = m
      /\ x.pending = reader[r].pending /\ x.told = reader[r].told /\ x.late = reader[r].late
  BY <1>1 DEF Read
<1> HIDE DEF x
<1>4. StoreInv' /\ DriverKnown' /\ Onward
  BY <1>2, <1>3, QuietRead
<1>5. reader'[r] = x
  BY <1>1, <1>2
<1>6. /\ m \in DOMAIN index' => TRUE \in saw'[r]
      /\ m \notin DOMAIN index' => FALSE \in saw'[r]
  BY <1>2, <1>3, <1>5, WatchIs
<1>7. /\ m \in Matches /\ driver'[m].at # "absent"
      /\ ~x.pending => m \in settled'
                        \/ (m \notin registered' /\ driver'[m].at \in {"created", "over"})
      /\ x.told => ~x.pending /\ driver'[m].at \in {"told", "over"} /\ driver'[m].kept
      /\ x.late => m \in denied
  BY <1>1, <1>2, <1>3, <1>4, KnownOn
<1> HIDE DEF m
<1>8. ReaderKnown(r)'
  <2>1. denied' = denied
    BY <1>2
  <2> QED BY ONLY <1>3, <1>5, <1>6, <1>7, <2>1 DEF ReaderKnown
<1> QED BY <1>2, <1>3, <1>4, <1>8, ReadStep

\* A reader that leaves keeps the invariant.
LEMMA LeaveStep ==
  ASSUME IInv, NEW r \in Readers, Leave(r), Watch
  PROVE  IInv'
<1>1. reader \in [Readers -> Read]
  BY DEF IInv, ReadersInv, ReaderTypes
<1>2. /\ denied' = denied /\ UNCHANGED <<backend, size, now, store, held, server, shed>>
      /\ reader' = [reader EXCEPT ![r] = NoRead]
  BY DEF Leave
<1>3. NoRead \in Read /\ NoRead.at = "idle" /\ NoRead.told = FALSE /\ NoRead.late = FALSE
  BY DEF NoRead, Read
<1>4. StoreInv' /\ DriverKnown' /\ Onward
  BY <1>2, <1>3, QuietRead
<1>5. reader'[r] = NoRead
  BY <1>1, <1>2
<1>6. ReaderKnown(r)'
  BY <1>3, <1>5 DEF ReaderKnown
<1> QED BY <1>2, <1>3, <1>4, <1>6, ReadStep

\* The file is opened, or is gone.
LEMMA OpenStep ==
  ASSUME IInv, NEW r \in Readers, Open(r), Watch
  PROVE  IInv'
<1> DEFINE m == reader[r].id
<1>1. reader \in [Readers -> Read] /\ reader[r] \in Read /\ ReaderKnown(r)
  BY DEF IInv, ReadersInv, ReaderTypes
<1>2. /\ reader[r].at = "open" /\ UNCHANGED <<backend, size, now, store, held, server, shed>>
  BY DEF Open
<1>3. /\ TRUE \in saw[r] /\ ~reader[r].late /\ backend = "file"
      /\ reader[r].file \in Paths /\ reader[r].file[1] = m
  BY <1>1, <1>2 DEF ReaderKnown
<1>4. CASE reader[r].file \in disk
  <2>1. Finds(r, TRUE, reader[r].tries)
    BY <1>4 DEF Open
  <2> DEFINE x == [reader[r] EXCEPT !.tries = reader[r].tries, !.at = "200"]
  <2>2. reader' = [reader EXCEPT ![r] = x]
    BY <1>1, <2>1 DEF Finds
  <2>3. x \in Read /\ x.at = "200"
    BY <1>1 DEF Read
  <2> HIDE DEF x
  <2>4. StoreInv' /\ DriverKnown' /\ Onward /\ UNCHANGED server
    BY <1>2, <2>2, <2>3, QuietRead
  <2>5. TRUE \in saw'[r]
    <3>1. reader'[r] = x
      BY <1>1, <2>2
    <3> QED BY <1>2, <1>3, <2>3, <3>1, WatchIs
  <2>6. TRUE \in BOOLEAN /\ reader[r].tries \in 0..2 /\ reader[r].at \in {"lookup", "open", "missing"}
    BY <1>1, <1>2 DEF Read
  <2> QED BY <1>3, <2>1, <2>4, <2>5, <2>6, AnswerStep
<1>5. CASE reader[r].file \notin disk
  <2> DEFINE x == [reader[r] EXCEPT !.at = "missing"]
  <2>1. reader' = [reader EXCEPT ![r] = x] /\ denied' = denied
    BY <1>1, <1>5 DEF Open
  <2>2. /\ x \in Read /\ x.at = "missing" /\ x.id = m /\ x.file = reader[r].file
        /\ x.pending = reader[r].pending /\ x.told = reader[r].told /\ x.late = reader[r].late
    BY <1>1 DEF Read
  <2> HIDE DEF x
  <2>3. StoreInv' /\ DriverKnown' /\ Onward
    BY <1>2, <2>1, <2>2, QuietRead
  <2>4. reader'[r] = x
    BY <1>1, <2>1
  <2>5. /\ TRUE \in saw'[r]
        /\ m \in DOMAIN index' => TRUE \in saw'[r]
        /\ m \notin DOMAIN index' => FALSE \in saw'[r]
    BY <1>2, <1>3, <2>2, <2>4, WatchIs
  <2>6. /\ m \in Matches /\ driver'[m].at # "absent"
        /\ ~x.pending => m \in settled'
                          \/ (m \notin registered' /\ driver'[m].at \in {"created", "over"})
        /\ x.told => ~x.pending /\ driver'[m].at \in {"told", "over"} /\ driver'[m].kept
        /\ ~x.late
    BY <1>1, <1>2, <1>3, <2>2, <2>3, KnownOn
  <2>7. backend' = "file" /\ x.file \in Paths /\ x.file[1] = m /\ x.file \notin disk'
    BY <1>2, <1>3, <1>5, <2>2 DEF store
  <2> HIDE DEF m
  <2>8. ReaderKnown(r)'
    BY ONLY <2>1, <2>2, <2>4, <2>5, <2>6, <2>7 DEF ReaderKnown
  <2> QED BY <1>2, <2>1, <2>2, <2>3, <2>8, ReadStep
<1> QED BY <1>4, <1>5

\* A lookup that finds nothing: what was stored for the read has been taken.
LEMMA LookMisses ==
  ASSUME IInv, Watch, NEW r \in Readers, Looks(r), ~Here(r),
         NEW tries \in 0..2, Finds(r, FALSE, tries)
  PROVE  IInv'
<1> DEFINE m == reader[r].id
<1>1. reader \in [Readers -> Read] /\ ReaderKnown(r) /\ StoreInv /\ DriverKnown
  BY DEF IInv, ReadersInv, ReaderTypes
<1>2. /\ reader[r].at = "lookup" /\ put' = put /\ UNCHANGED server
  BY DEF Looks
<1>3. /\ StoreInv' /\ StoreStep /\ LockFree /\ orphans' \subseteq orphans \union held
      /\ m \notin DOMAIN index'
  BY <1>1, LooksStore
<1>4. DriverKnown' /\ Onward
  BY <1>1, <1>3, StoreStepGoesOn
<1>5. reader'[r].at \in {"409", "404"} /\ reader'[r].id = m
  BY <1>1 DEF Finds, Read
<1>6. FALSE \in saw'[r]
  BY <1>2, <1>3, <1>5, WatchIs
<1>7. reader[r].told => m \in shed'
  <2>1. reader[r].told => m \in Matches /\ driver[m].kept
    BY <1>1, <1>2 DEF ReaderKnown
  <2>2. m \in Matches /\ driver[m].kept => m \in shed \/ m \in DOMAIN index
    BY <1>1 DEF DriverKnown
  <2> HIDE DEF m
  <2> QED BY <1>3, <2>1, <2>2 DEF StoreStep
<1>8. put'.at = "none"
  BY <1>2, <1>3 DEF LockFree, NoPut
<1>9. FALSE \in BOOLEAN /\ reader[r].at \in {"lookup", "open", "missing"}
  BY <1>2
<1> QED BY <1>2, <1>3, <1>4, <1>6, <1>7, <1>8, <1>9, AnswerStep

\* A record that is there was never denied.
LEMMA HereIsNotLate ==
  ASSUME IInv, NEW r \in Readers, Looks(r), Here(r)
  PROVE  ~reader[r].late
<1>1. ReaderKnown(r) /\ StoreInv /\ DriverKnown /\ Denials
  BY DEF IInv, ReadersInv
<1>2. reader[r].id \in DOMAIN index
  BY <1>1, LooksStore
<1> QED BY <1>1, <1>2 DEF ReaderKnown, Denials, Gone

\* A read under the lock keeps the invariant.
LEMMA GetAtOnceStep ==
  ASSUME IInv, NEW r \in Readers, GetMemory(r) \/ GetSqlite(r), Watch
  PROVE  IInv'
<1> DEFINE m == reader[r].id
<1>1. Looks(r) /\ Finds(r, Here(r), 0)
  BY DEF GetMemory, GetSqlite
<1>2. 0 \in 0..2
  OBVIOUS
<1>3. CASE ~Here(r)
  <2>1. Finds(r, FALSE, 0)
    BY <1>1, <1>3 DEF Finds
  <2> QED BY <1>1, <1>2, <1>3, <2>1, LookMisses
<1>4. CASE Here(r)
  <2>1. Finds(r, TRUE, 0)
    BY <1>1, <1>4 DEF Finds
  <2>2. reader \in [Readers -> Read] /\ StoreInv /\ DriverKnown
    BY DEF IInv, ReadersInv, ReaderTypes
  <2>3. reader[r].at = "lookup" /\ UNCHANGED server
    BY <1>1 DEF Looks
  <2>4. StoreInv' /\ StoreStep /\ m \in DOMAIN index'
    BY <1>1, <1>4, <2>2, LooksStore
  <2>5. DriverKnown' /\ Onward
    BY <2>2, <2>4, StoreStepGoesOn
  <2>6. reader'[r].at = "200" /\ reader'[r].id = m
    BY <2>1, <2>2 DEF Finds, Read
  <2>7. TRUE \in saw'[r]
    BY <2>3, <2>4, <2>6, WatchIs
  <2>8. ~reader[r].late
    BY <1>1, <1>4, HereIsNotLate
  <2>9. TRUE \in BOOLEAN /\ reader[r].at \in {"lookup", "open", "missing"}
    BY <2>3
  <2> QED BY <1>2, <2>1, <2>3, <2>4, <2>5, <2>7, <2>8, <2>9, AnswerStep
<1> QED BY <1>3, <1>4

\* A reader that looks a file up keeps the invariant.
LEMMA GetFileStep ==
  ASSUME IInv, NEW r \in Readers, GetFile(r), Watch
  PROVE  IInv'
<1> DEFINE m == reader[r].id
<1>1. reader \in [Readers -> Read] /\ reader[r] \in Read /\ ReaderKnown(r)
      /\ StoreInv /\ DriverKnown
  BY DEF IInv, ReadersInv, ReaderTypes
<1>2. Looks(r) /\ backend = "file"
  BY DEF GetFile
<1>3. CASE ~Here(r)
  <2>1. Finds(r, FALSE, reader[r].tries) /\ reader[r].tries \in 0..2
    BY <1>1, <1>3 DEF GetFile, Read
  <2> QED BY <1>2, <1>3, <2>1, LookMisses
<1>4. CASE Here(r)
  <2> DEFINE x == [reader[r] EXCEPT !.at = "open", !.file = File(Index1, m)]
  <2>1. reader' = [reader EXCEPT ![r] = x] /\ denied' = denied
    BY <1>1, <1>4 DEF GetFile
  <2>2. /\ StoreInv' /\ StoreStep /\ m \in DOMAIN index'
        /\ File(Index1, m) \in Paths /\ File(Index1, m)[1] = m
    BY <1>1, <1>2, <1>4, LooksStore
  <2>3. DriverKnown' /\ Onward
    BY <1>1, <2>2, StoreStepGoesOn
  <2>4. /\ x \in Read /\ x.at = "open" /\ x.id = m /\ x.file = File(Index1, m)
        /\ x.pending = reader[r].pending /\ x.told = reader[r].told /\ x.late = reader[r].late
    <3> HIDE DEF m
    <3> QED BY <1>1, <2>2 DEF Read, m
  <2> HIDE DEF x
  <2>5. reader'[r] = x
    BY <1>1, <2>1
  <2>6. reader[r].at = "lookup"
    BY <1>2 DEF Looks
  <2>7. TRUE \in saw'[r]
    BY <2>2, <2>4, <2>5, <2>6, WatchIs
  <2>8. ~x.late
    BY <1>2, <1>4, <2>4, HereIsNotLate
  <2>9. /\ m \in Matches /\ driver'[m].at # "absent"
        /\ ~x.pending => m \in settled'
                          \/ (m \notin registered' /\ driver'[m].at \in {"created", "over"})
        /\ x.told => ~x.pending /\ driver'[m].at \in {"told", "over"} /\ driver'[m].kept
    BY <1>1, <2>3, <2>4, <2>6, KnownOn
  <2>10. backend' = "file" /\ x.file \in Paths /\ x.file[1] = m
    BY <1>2, <2>2, <2>4 DEF StoreStep
  <2>11. m \in DOMAIN index'
    BY <2>2
  <2> HIDE DEF m
  <2>12. ReaderKnown(r)'
    BY ONLY <2>1, <2>4, <2>5, <2>7, <2>8, <2>9, <2>10, <2>11 DEF ReaderKnown
  <2> QED BY <2>1, <2>2, <2>3, <2>4, <2>12, ReadStep
<1> QED BY <1>3, <1>4

\* Under the lock again, the file being gone.
LEMMA RecheckStep ==
  ASSUME IInv, NEW r \in Readers, Recheck(r), Watch
  PROVE  IInv'
<1> DEFINE m == reader[r].id
           replaced == reader[r].file \notin Files(index, DOMAIN index \cap {m})
<1>1. reader \in [Readers -> Read] /\ reader[r] \in Read /\ ReaderKnown(r)
      /\ StoreInv /\ DriverKnown
  BY DEF IInv, ReadersInv, ReaderTypes
<1>2. /\ reader[r].at = "missing" /\ put' = put /\ orphans' = orphans /\ UNCHANGED server
      /\ reader[r].file \notin disk
  BY <1>1 DEF Recheck, ReaderKnown
<1> DEFINE again == [reader[r] EXCEPT !.at = "lookup", !.tries = 1]
<1>again. /\ again \in Read /\ again.at = "lookup" /\ again.id = m
          /\ again.pending = reader[r].pending /\ again.told = reader[r].told
          /\ again.late = reader[r].late
  <2>1. reader[r] \in Read /\ 1 \in 0..2
    BY <1>1
  <2> QED BY ONLY <2>1 DEF Read
<1>3. \E x \in Read : /\ reader' = [reader EXCEPT ![r] = x]
                      /\ x.at \notin {"idle", "asked", "open", "missing"} /\ x.id = m
  <2>1. CASE replaced /\ reader[r].tries = 0
    <3>1. reader' = [reader EXCEPT ![r] = again]
      BY <1>1, <2>1 DEF Recheck
    <3> QED BY <1>again, <3>1
  <2>2. CASE ~(replaced /\ reader[r].tries = 0)
    <3> DEFINE tries == IF replaced THEN 2 ELSE reader[r].tries
    <3>1. Finds(r, FALSE, tries)
      BY <2>2 DEF Recheck
    <3>tries. tries \in 0..2
      BY <1>1 DEF Read
    <3> HIDE DEF tries, replaced
    <3> DEFINE at == IF reader[r].pending THEN "409" ELSE "404"
               x == [reader[r] EXCEPT !.tries = tries, !.at = at]
    <3>2. reader' = [reader EXCEPT ![r] = x]
      BY <1>1, <3>1 DEF Finds
    <3>3. x \in Read /\ x.at \in {"409", "404"} /\ x.id = m
      BY <1>1, <3>tries DEF Read
    <3> HIDE DEF x
    <3> QED BY <3>2, <3>3
  <2> QED BY <2>1, <2>2
<1>4. BeingRead' \subseteq BeingRead
  BY <1>1, <1>3 DEF BeingRead
<1>5. /\ StoreInv' /\ StoreStep /\ LockFree
      /\ ~replaced => DOMAIN index' = DOMAIN index \ {m} /\ m \in shed'
  BY <1>1, <1>2, <1>4, RecheckStore
<1>6. DriverKnown' /\ Onward
  BY <1>1, <1>5, StoreStepGoesOn
<1>7. reader'[r].id = m /\ reader'[r].at \notin {"idle", "asked", "open", "missing"}
  BY <1>1, <1>3
<1>8. /\ m \in DOMAIN index' => TRUE \in saw'[r]
      /\ m \notin DOMAIN index' => FALSE \in saw'[r]
  BY <1>2, <1>7, WatchIs
<1>9. put'.at = "none" /\ orphans' \subseteq orphans \union held
  BY <1>2, <1>5 DEF LockFree, NoPut
<1>10. FALSE \in BOOLEAN /\ reader[r].at \in {"lookup", "open", "missing"}
  BY <1>2
<1>11. CASE ~replaced
  <2>1. Finds(r, FALSE, reader[r].tries) /\ reader[r].tries \in 0..2
    BY <1>1, <1>11 DEF Recheck, Read
  <2>2. FALSE \in saw'[r] /\ m \notin DOMAIN index' /\ m \in shed'
    BY <1>5, <1>8, <1>11
  <2> HIDE DEF replaced
  <2> QED BY <1>2, <1>5, <1>6, <1>9, <1>10, <2>1, <2>2, AnswerStep
<1>12. CASE replaced /\ reader[r].tries # 0
  <2> DEFINE tries == IF replaced THEN 2 ELSE reader[r].tries
  <2>1. Finds(r, FALSE, tries)
    BY <1>12 DEF Recheck
  <2>2. tries = 2 /\ 2 \in 0..2
    BY <1>12
  <2> HIDE DEF replaced, tries
  <2> QED BY <1>2, <1>5, <1>6, <1>9, <1>10, <2>1, <2>2, AnswerStep
<1>13. CASE replaced /\ reader[r].tries = 0
  <2> DEFINE x == again
  <2>1. reader' = [reader EXCEPT ![r] = x] /\ denied' = denied
    BY <1>1, <1>13 DEF Recheck
  <2>2. /\ x \in Read /\ x.at = "lookup" /\ x.id = m
        /\ x.pending = reader[r].pending /\ x.told = reader[r].told /\ x.late = reader[r].late
    BY <1>again
  <2> HIDE DEF x, replaced
  <2>3. reader'[r] = x
    BY <1>1, <2>1
  <2>4. /\ m \in Matches /\ driver'[m].at # "absent"
        /\ ~x.pending => m \in settled'
                          \/ (m \notin registered' /\ driver'[m].at \in {"created", "over"})
        /\ x.told => ~x.pending /\ driver'[m].at \in {"told", "over"} /\ driver'[m].kept
        /\ x.late => m \in denied
    BY <1>1, <1>2, <1>6, <2>2, KnownOn
  <2> HIDE DEF m
  <2>5. ReaderKnown(r)'
    <3>1. denied' = denied
      BY <2>1
    <3> QED BY ONLY <1>8, <2>2, <2>3, <2>4, <3>1 DEF ReaderKnown
  <2> QED BY <1>5, <1>6, <2>1, <2>2, <2>5, ReadStep
<1> QED BY <1>11, <1>12, <1>13

----------------------------------------------------------------------------
(* The invariant holds *)

\* The invariant holds when the server starts.
LEMMA InitHolds ==
  ASSUME Init
  PROVE  IInv
<1>1. /\ backend \in Backends /\ size \in Weights
      /\ now = 0 /\ index = <<>> /\ disk = {} /\ tmps = {} /\ orphans = {} /\ held = {}
      /\ put = NoPut
      /\ driver = [m \in Matches |-> [at |-> "absent", puts |-> 0, kept |-> FALSE]]
      /\ registered = {} /\ settled = {}
      /\ reader = [r \in Readers |-> NoRead] /\ shed = {} /\ denied = {}
  BY DEF Init
<1>2. DOMAIN index = {} /\ IsIndex(index)
  <2>1. <<>> \in [{} -> Record] /\ DOMAIN <<>> = {}
    OBVIOUS
  <2> QED BY <1>1, <2>1 DEF IsIndex
<1>3. ~Putting /\ put.at = "none"
  BY <1>1 DEF Putting, NoPut
<1>4. size \in [Matches -> Nat] /\ backend \in {"memory", "file", "sqlite"} /\ now \in Clock
  <2>1. size \in [Matches -> Nat \ {0}]
    BY <1>1, StoreAssumption
  <2> QED BY <1>1, <2>1, StoreAssumption DEF Clock
<1>5. StoreTypes
  BY <1>1, <1>2, <1>3, <1>4 DEF StoreTypes
<1>6. Indexed
  BY <1>1, <1>2, <1>3 DEF Indexed, Mirrors
<1>7. CapsHeld
  BY <1>2, <1>3, <1>4, WithinNone DEF CapsHeld
<1>8. NamesAreNew
  BY <1>2, <1>3 DEF NamesAreNew
<1>9. DriverKnown
  BY <1>1, <1>3 DEF DriverKnown
<1>10. ReaderTypes /\ \A r \in Readers : ReaderKnown(r)
  <2>1. /\ NoRead \in Read /\ NoRead.at = "idle" /\ NoRead.told = FALSE /\ NoRead.late = FALSE
    BY DEF NoRead, Read
  <2>2. ReaderTypes
    BY <1>1, <2>1 DEF ReaderTypes
  <2>3. ASSUME NEW r \in Readers PROVE ReaderKnown(r)
    BY <1>1, <2>1 DEF ReaderKnown
  <2> QED BY <2>2, <2>3
<1>11. Denials
  BY <1>1 DEF Denials
<1> QED BY <1>5, <1>6, <1>7, <1>8, <1>9, <1>10, <1>11 DEF IInv, StoreInv, ReadersInv

\* A step that changes nothing keeps the invariant.
LEMMA StutterHolds ==
  ASSUME IInv, UNCHANGED vars
  PROVE  IInv'
<1>1. /\ UNCHANGED <<backend, size, now, store, held, server, shed>>
      /\ reader' = reader /\ denied' = denied /\ saw' = saw
  BY DEF vars
<1>2. StoreInv /\ DriverKnown /\ Denials /\ ReadersInv
  BY DEF IInv
<1>3. BeingRead' = BeingRead
  BY <1>1 DEF BeingRead
<1>4. StoreInv'
  BY <1>1, <1>2, <1>3, QuietStore
<1>5. DriverKnown'
  BY <1>1, <1>2 DEF DriverKnown, server, store, Putting
<1>6. Denials'
  BY <1>1, <1>2 DEF Denials, Gone, Decided, server, store
<1>7. ReadersInv'
  <2>1. ReaderTypes'
    BY <1>1, <1>2 DEF ReadersInv, ReaderTypes
  <2>2. ASSUME NEW r \in Readers PROVE ReaderKnown(r)'
    <3>1. ReaderKnown(r)
      BY <1>2 DEF ReadersInv
    <3>2. /\ reader' = reader /\ denied' = denied /\ saw' = saw /\ driver' = driver
          /\ registered' = registered /\ settled' = settled /\ index' = index /\ disk' = disk
          /\ backend' = backend /\ shed' = shed
      BY <1>1 DEF server, store
    <3> QED BY ONLY <3>1, <3>2 DEF ReaderKnown
  <2> QED BY <2>1, <2>2 DEF ReadersInv
<1> QED BY <1>4, <1>5, <1>6, <1>7 DEF IInv

\* A restart ends every read.
LEMMA RestartStep ==
  ASSUME IInv, Restart
  PROVE  IInv'
<1>1. StoreInv /\ DriverKnown /\ Denials
  BY DEF IInv
<1>2. StoreInv' /\ DriverKnown' /\ \A m \in Matches : Gone(m) => Gone(m)'
  BY <1>1, RestartStore
<1>3. reader' = [r \in Readers |-> NoRead] /\ denied' = denied
  BY DEF Restart
<1>4. Denials'
  BY <1>1, <1>2, <1>3 DEF Denials
<1>5. NoRead \in Read /\ NoRead.at = "idle" /\ NoRead.told = FALSE /\ NoRead.late = FALSE
  BY DEF NoRead, Read
<1>6. ReaderTypes' /\ \A r \in Readers : reader'[r] = NoRead
  BY <1>3, <1>5 DEF ReaderTypes
<1>7. ASSUME NEW r \in Readers PROVE ReaderKnown(r)'
  BY <1>5, <1>6 DEF ReaderKnown
<1> QED BY <1>2, <1>4, <1>6, <1>7 DEF IInv, ReadersInv

\* Every step keeps the invariant.
LEMMA NextHolds ==
  ASSUME IInv, Next
  PROVE  IInv'
<1>1. StoreInv /\ DriverKnown
  BY DEF IInv
<1>2. ASSUME NEW t \in 0..MaxClock, Tick(t), Watch PROVE IInv'
  <2>1. t \in Clock /\ reader' = reader /\ denied' = denied
    BY <1>2 DEF Clock, Tick
  <2>2. StoreInv' /\ StoreStep
    BY <1>1, <1>2, <2>1, TickStore
  <2>3. DriverKnown' /\ Onward
    BY <1>1, <2>2, StoreStepGoesOn
  <2> QED BY <1>2, <2>1, <2>2, <2>3, NoReadStep
<1>3. ASSUME NEW f, (f \in disk /\ Hold(f)) \/ (f \in held /\ LetGo(f)), Watch PROVE IInv'
  <2>1. reader' = reader /\ denied' = denied
    BY <1>3 DEF Hold, LetGo
  <2>2. StoreInv' /\ StoreStep
    BY <1>1, <1>3, HoldStore
  <2>3. DriverKnown' /\ Onward
    BY <1>1, <2>2, StoreStepGoesOn
  <2> QED BY <1>3, <2>1, <2>2, <2>3, NoReadStep
<1>4. ASSUME NEW f \in disk, Lost(f), Watch PROVE IInv'
  <2>1. reader' = reader /\ denied' = denied
    BY <1>4 DEF Lost
  <2>2. StoreInv' /\ StoreStep
    BY <1>1, <1>4, LostStore
  <2>3. DriverKnown' /\ Onward
    BY <1>1, <2>2, StoreStepGoesOn
  <2> QED BY <1>4, <2>1, <2>2, <2>3, NoReadStep
<1>5. CASE Restart /\ Watch
  BY <1>5, RestartStep
<1>6. ASSUME NEW m \in Matches, Drives(m), Watch PROVE IInv'
  <2>1. /\ UNCHANGED <<backend, size, now, store, held, shed>>
        /\ reader' = reader /\ denied' = denied
    BY <1>6 DEF Drives, Create, Ends, Tell, StoreAgain, Return, Evict
  <2>2. BeingRead' \subseteq BeingRead
    BY <2>1 DEF BeingRead
  <2>3. StoreInv'
    BY <1>1, <2>1, <2>2, QuietStore
  <2>4. DriverKnown' /\ Onward
    BY <1>1, <1>6, DriveGoesOn
  <2> QED BY <1>6, <2>1, <2>3, <2>4, NoReadStep
<1>7. ASSUME NEW m \in Matches, Rejected(m) \/ PutRolledBack(m), Watch PROVE IInv'
  <2>1. /\ UNCHANGED <<backend, size, now, store, held, shed>>
        /\ reader' = reader /\ denied' = denied /\ registered' = registered
        /\ driver[m].at = "storing" /\ Persisted(m, FALSE)
    BY <1>7 DEF Rejected, PutRolledBack, Puts
  <2>2. BeingRead' \subseteq BeingRead
    BY <2>1 DEF BeingRead
  <2>3. StoreInv'
    BY <1>1, <2>1, <2>2, QuietStore
  <2>4. Putting => put.id # m
    <3>1. CASE Rejected(m)
      <4>1. Putting => size[put.id] <= RecordLimit
        BY <1>1 DEF StoreInv, StoreTypes
      <4>2. size[m] > RecordLimit /\ size[m] \in Nat
        BY <1>1, <3>1 DEF Rejected, StoreInv, StoreTypes
      <4> QED BY <4>1, <4>2, StoreAssumption
    <3>2. CASE PutRolledBack(m)
      BY <3>2 DEF PutRolledBack, Puts, LockFree, Putting
    <3> QED BY <1>7, <3>1, <3>2
  <2>5. /\ backend' = backend /\ disk' = disk /\ index' = index /\ put' = put /\ shed' = shed
        /\ (Putting' => Putting)
    BY <2>1 DEF store, Putting
  <2>6. DriverKnown' /\ Onward
    <3>1. FALSE \in BOOLEAN
      OBVIOUS
    <3> QED BY <1>1, <2>1, <2>4, <2>5, <3>1, PersistGoesOn
  <2> QED BY <1>7, <2>1, <2>3, <2>6, NoReadStep
<1>8. ASSUME NEW m \in Matches, PutMemory(m) \/ PutSqlite(m) \/ PutSqliteFull(m), Watch
      PROVE IInv'
  <2>1. backend # "file" /\ \E extra : PutAtOnce(m, extra)
    BY <1>8 DEF PutMemory, PutSqlite, PutSqliteFull
  <2>2. reader' = reader /\ denied' = denied
    BY <2>1 DEF PutAtOnce
  <2>3. StoreInv' /\ DriverKnown' /\ Onward
    BY <1>1, <2>1, PutAtOnceStore
  <2> QED BY <1>8, <2>2, <2>3, NoReadStep
<1>9. ASSUME NEW m \in Matches, PutBegin(m), Watch PROVE IInv'
  <2>1. reader' = reader /\ denied' = denied
    BY <1>9 DEF PutBegin
  <2>2. StoreInv' /\ StoreStep
    BY <1>1, <1>9, PutBeginStore
  <2>3. DriverKnown' /\ Onward
    BY <1>1, <2>2, StoreStepGoesOn
  <2> QED BY <1>9, <2>1, <2>2, <2>3, NoReadStep
<1>10. CASE (PutWrite \/ PutNoSpace \/ PutReplace) /\ Watch
  <2>1. reader' = reader /\ denied' = denied
    BY <1>10 DEF PutWrite, PutNoSpace, PutReplace
  <2>2. StoreInv' /\ StoreStep
    BY <1>1, <1>10, PutWriteStore, PutNoSpaceStore, PutReplaceStore
  <2>3. DriverKnown' /\ Onward
    BY <1>1, <2>2, StoreStepGoesOn
  <2> QED BY <1>10, <2>1, <2>2, <2>3, NoReadStep
<1>11. CASE (PutFails \/ PutDone) /\ Watch
  <2>1. reader' = reader /\ denied' = denied
    BY <1>11 DEF PutFails, PutDone
  <2>2. StoreInv' /\ DriverKnown' /\ Onward
    BY <1>1, <1>11, PutFailsStore, PutDoneStore
  <2> QED BY <1>11, <2>1, <2>2, NoReadStep
<1>12. ASSUME NEW r \in Readers, NEW m \in Matches, Ask(r, m), Watch PROVE IInv'
  BY <1>12, AskStep
<1>13. ASSUME NEW r \in Readers, Watch,
              \/ Slot(r) \/ GetMemory(r) \/ GetSqlite(r) \/ GetFile(r)
              \/ Open(r) \/ Recheck(r) \/ Leave(r)
       PROVE IInv'
  BY <1>13, SlotStep, GetAtOnceStep, GetFileStep, OpenStep, RecheckStep, LeaveStep
<1> QED BY <1>2, <1>3, <1>4, <1>5, <1>6, <1>7, <1>8, <1>9, <1>10, <1>11, <1>12, <1>13
        DEF Next, Drives

----------------------------------------------------------------------------
(* The theorems *)

\* The store is what its puts, its readers and its faults made it, as the invariant
\* says: between the steps of a put too, and through every restart.
THEOREM StoreKeepsItsInvariant == Spec => []IInv
<1>1. Init => IInv
  BY InitHolds
<1>2. IInv /\ [Next]_vars => IInv'
  BY NextHolds, StutterHolds
<1> QED BY <1>1, <1>2, PTL DEF Spec

\* Whenever the lock is free the caps hold, and the file store's index is its directory.
THEOREM StoresStayInOrder == Spec => []StoreInOrder
<1>1. IInv => StoreInOrder
  <2> SUFFICES ASSUME IInv, LockFree PROVE StoreInOrder
    BY DEF StoreInOrder
  <2>1. StoreInv /\ ~Putting /\ put.at = "none"
    BY DEF IInv, LockFree, Putting, NoPut
  <2>2. Fits(DOMAIN index)
    BY <2>1, FitsIs DEF StoreInv, CapsHeld
  <2>3. ASSUME backend = "file"
        PROVE /\ \A m \in DOMAIN index : File(index, m) \in disk \ orphans \/ m \in shed
              /\ disk \subseteq Files(index, DOMAIN index) \union orphans
              /\ tmps = {}
    <3>1. Mirrors(index, disk, orphans, shed, {})
      BY <2>1, <2>3 DEF StoreInv, Indexed
    <3>2. tmps = {}
      BY <2>1 DEF StoreInv, StoreTypes
    <3> QED BY <3>1, <3>2 DEF Mirrors, Files
  <2> QED BY <2>2, <2>3 DEF StoreInOrder
<1> QED BY <1>1, StoreKeepsItsInvariant, PTL

\* A read's answer was true at some moment since it took its slot.
THEOREM ReadsAreLinear == Spec => []ReadsLinearize
<1>1. IInv => ReadsLinearize
  BY DEF IInv, ReadersInv, ReaderKnown, ReadsLinearize
<1> QED BY <1>1, StoreKeepsItsInvariant, PTL

\* A client that saw the terminal frame gets its transcript unless the policy, or a
\* fault, took it; and a 404 is final.
THEOREM AnswersAreKept == Spec => []AnswersHold
<1>1. IInv => AnswersHold
  BY DEF IInv, ReadersInv, ReaderKnown, AnswersHold
<1> QED BY <1>1, StoreKeepsItsInvariant, PTL
=============================================================================
