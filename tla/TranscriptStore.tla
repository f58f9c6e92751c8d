--------------------------- MODULE TranscriptStore ---------------------------
(***************************************************************************)
(* The public transcripts of ended matches: the three stores of            *)
(* transcript_store.py, the drivers that put (persist_public_transcript)   *)
(* and the readers of GET /matches/{id}/public-transcript.                 *)
(*                                                                         *)
(* A store's lock is held through a put.  The memory and SQLite stores do  *)
(* everything under it, so their put is one step; the file store's put is  *)
(* the file operations a crash or a read outside the lock may come between.*)
(* A body is its match: a match's two puts carry the same transcript.      *)
(***************************************************************************)
EXTENDS Naturals, FiniteSets, FiniteSetsExt

CONSTANTS
  Matches,
  Readers,      \* transcript reads, from any client
  Backends,     \* the stores to consider: "memory", "file", "sqlite"
  Weights,      \* what the transcripts may weigh: functions of the match
  MaxEntries, MaxBytes, RecordLimit, TTL,  \* RetentionPolicy
  Slack,        \* FUTURE_SLACK_S
  ReadSlots,    \* MAX_CONCURRENT_TRANSCRIPT_READS
  NoMatch,
  MaxClock,     \* bound: how far the clock goes
  MaxMishaps    \* bound: restarts, clock steps back, full disks, held or lost files

ASSUME StoreAssumption ==
  /\ IsFiniteSet(Matches) /\ NoMatch \notin Matches
  /\ Backends \subseteq {"memory", "file", "sqlite"}
  /\ Weights \subseteq [Matches -> Nat \ {0}] /\ MaxClock \in Nat /\ MaxMishaps \in Nat
  /\ MaxEntries \in Nat \ {0} /\ MaxBytes \in Nat \ {0}
  /\ RecordLimit \in 1..MaxBytes /\ TTL \in Nat \ {0} /\ Slack \in Nat
  /\ ReadSlots \in Nat \ {0}

VARIABLES
  backend,   \* which store the server was started with
  size,      \* the bytes of each match's transcript
  now,       \* the wall clock
  index,     \* the records: id -> [ended, name]; durable for SQLite
  disk,      \* the files <id, name> of the file store
  tmps,      \* the ids with a temporary file
  orphans,   \* _orphans: files that could not be deleted yet
  held,      \* files another process holds open: they cannot be deleted
  put,       \* the put that holds the lock
  driver,    \* each match's driver
  registered,\* the matches in the registry
  settled,   \* match.transcript_settled
  reader,    \* each read
  mishaps,   \* faults so far
  shed,      \* history: ids whose record the policy, or a fault, has taken
  denied,    \* history: ids a read has answered 404 for
  saw        \* history: whether each read's record was there, since its lookup

store == <<index, disk, tmps, orphans, put>>
server == <<driver, registered, settled>>
vars == <<backend, size, now, store, held, server, reader, mishaps, shed, denied, saw>>

NoPut == [at |-> "none", id |-> NoMatch, ended |-> 0, again |-> FALSE]
NoRead == [at |-> "idle", id |-> NoMatch, pending |-> FALSE, file |-> <<>>,
           tries |-> 0, told |-> FALSE, late |-> FALSE]

Init ==
  /\ backend \in Backends /\ size \in Weights
  /\ now = 0 /\ index = <<>> /\ disk = {} /\ tmps = {} /\ orphans = {} /\ held = {}
  /\ put = NoPut
  /\ driver = [m \in Matches |-> [at |-> "absent", puts |-> 0, kept |-> FALSE]]
  /\ registered = {} /\ settled = {}
  /\ reader = [r \in Readers |-> NoRead]
  /\ mishaps = 0 /\ shed = {} /\ denied = {} /\ saw = [r \in Readers |-> {}]

----------------------------------------------------------------------------
(* The index, shared by the three stores. *)

IsExpired(ended) == now >= ended + TTL

Total(ids) == MapThenSumSet(LAMBDA m : size[m], ids)

Fits(ids) == Cardinality(ids) <= MaxEntries /\ Total(ids) <= MaxBytes

Keep(ix, ids) == [m \in DOMAIN ix \cap ids |-> ix[m]]

File(ix, m) == <<m, ix[m].name>>
Files(ix, ids) == {File(ix, m) : m \in ids}

\* The sets of oldest ids, `spared` apart, whose loss is the first to be enough;
\* all of them when none is.  Records that ended together go in either order.
Oldest(ix, spared, enough) ==
  LET ids == DOMAIN ix \ {spared}
      Last(D) == {d \in D : \A e \in D : ix[e].ended <= ix[d].ended}
  IN {D \in SUBSET ids :
        /\ \A d \in D, k \in ids \ D : ix[d].ended <= ix[k].ended
        /\ D \in enough \/ D = ids
        /\ D # {} => \E d \in Last(D) : D \ {d} \notin enough}

\* Mutant: room is made only once the caps are exceeded.
RoomAfter(ix, m) == Oldest(ix, m, {D \in SUBSET DOMAIN ix : Fits(DOMAIN ix \ D)})

RoomFor(ix, m) ==
  Oldest(ix, m, {D \in SUBSET DOMAIN ix : Fits((DOMAIN ix \ D) \union {m})})

OverCaps(ix) == Oldest(ix, NoMatch, {D \in SUBSET DOMAIN ix : Fits(DOMAIN ix \ D)})

OldestHolding(ix, m, bytes) ==
  Oldest(ix, m, {D \in SUBSET DOMAIN ix : D # {} /\ Total(D) >= bytes})

Expired(ix) == {m \in DOMAIN ix : IsExpired(ix[m].ended)}

\* A record from the future is re-dated; its file is renamed if it can be.
Future(ix) == {m \in DOMAIN ix : ix[m].ended > now + Slack}
Renamed(ix, files) ==
  {m \in Future(ix) : File(ix, m) \in files \ held /\ <<m, now>> \notin held}
Clamped(ix, files) ==
  [m \in DOMAIN ix |->
     IF m \notin Future(ix) THEN ix[m]
     ELSE [ended |-> now,
           name |-> IF m \in Renamed(ix, files) \/ backend # "file"
                      THEN now ELSE ix[m].name]]
ClampedFiles(ix, files) ==
  (files \ Files(ix, Renamed(ix, files))) \union {<<m, now>> : m \in Renamed(ix, files)}

\* The records `ids` of ix are dropped: a file held open becomes an orphan, like
\* those that wait already.
Drop(ix, files, waiting, ids) ==
  /\ index' = Keep(ix, DOMAIN ix \ ids)
  /\ disk' = files \ (Files(ix, ids) \ held)
  /\ orphans' = waiting \union (Files(ix, ids) \cap held)

\* What the index and the files are after the clamp that opens every operation.
Index1 == Clamped(index, disk)
Disk1 == ClampedFiles(index, disk)

LockFree == put = NoPut

----------------------------------------------------------------------------
(* The clock and the faults. *)

Mishap == mishaps < MaxMishaps /\ mishaps' = mishaps + 1

\* A name is a millisecond: the name of a file being given up, being read or being
\* replaced does not come again, were the clock to step back.
BeingRead == {reader[r].file : r \in {r \in Readers : reader[r].at \in {"open", "missing"}}}
Taken == orphans \union BeingRead \union Files(index, DOMAIN index \cap {put.id})

Tick(t) ==
  /\ t # now
  /\ IF t > now THEN UNCHANGED mishaps ELSE Mishap
  /\ \A f \in Taken : f[2] # t
  /\ now' = t
  /\ UNCHANGED <<backend, size, store, held, server, reader, shed, denied>>

\* Another process opens a file, and closes it.
Hold(f) ==
  /\ held = {} /\ held' = {f}
  /\ Mishap
  /\ UNCHANGED <<backend, size, now, store, server, reader, shed, denied>>
LetGo(f) ==
  /\ held' = held \ {f}
  /\ put.id # f[1]
  /\ UNCHANGED <<backend, size, now, store, server, reader, mishaps, shed, denied>>

\* A file is deleted behind the store's back.
Lost(f) ==
  /\ f \notin held
  /\ Mishap
  /\ disk' = disk \ {f} /\ orphans' = orphans \ {f}
  /\ shed' = shed \union {f[1]}
  /\ UNCHANGED <<backend, size, now, index, tmps, put, held, server, reader, denied>>

\* Mutant: the earlier of two files of a match is not deleted.
FoundBoth == disk

\* The process ends and a new one opens the store again.  Of two files of a match
\* the later one is kept.  The registry starts empty.
Found == {f \in disk : \A g \in disk : g[1] = f[1] => g[2] <= f[2]}

Loaded ==
  CASE backend = "memory" -> <<>>
    [] backend = "sqlite" -> index
    [] backend = "file" -> [m \in {f[1] : f \in Found} |->
                              LET f == CHOOSE f \in Found : f[1] = m
                              IN [ended |-> f[2], name |-> f[2]]]
Restart ==
  LET files == Found \union (disk \cap held)
      ix == Clamped(Loaded, files)
      fresh == Keep(ix, DOMAIN ix \ Expired(ix))
  IN \E over \in OverCaps(fresh) :
       LET gone == Expired(ix) \union over
           kept == ClampedFiles(Loaded, files)
       IN /\ index' = Keep(ix, DOMAIN ix \ gone)
          /\ disk' = kept \ (Files(ix, gone) \ held)
          /\ orphans' = (kept \cap held) \ Files(ix, DOMAIN ix \ gone)
          /\ shed' = shed \union gone \union (IF backend = "memory" THEN Matches ELSE {})
  /\ Mishap
  /\ tmps' = {} /\ put' = NoPut
  /\ driver' = [m \in Matches |->
       IF driver[m].at = "absent" THEN driver[m] ELSE [driver[m] EXCEPT !.at = "over"]]
  /\ registered' = {}
  /\ reader' = [r \in Readers |-> NoRead]
  /\ UNCHANGED <<backend, size, now, held, settled, denied>>

----------------------------------------------------------------------------
(* A match's driver: it stores the transcript, then sends the terminal      *)
(* frame.  A failure in between stores it once more.                        *)

At(m, at) == driver' = [driver EXCEPT ![m].at = at]

Create(m) ==
  /\ driver[m].at = "absent"
  /\ At(m, "created")
  /\ registered' = registered \union {m}
  /\ UNCHANGED <<backend, size, now, store, held, settled, reader, mishaps, shed, denied>>

\* The match ends: driver_active is set from its start until it returns.
Ends(m) ==
  /\ driver[m].at = "created" /\ m \in registered
  /\ At(m, "storing")
  /\ UNCHANGED <<backend, size, now, store, held, registered, settled, reader, mishaps, shed, denied>>

\* persist_public_transcript returns: settled is set whatever came of it.
Persisted(m, kept) ==
  /\ driver' = [driver EXCEPT ![m].at = "ended", ![m].puts = @ + 1,
                              ![m].kept = @ \/ kept]
  /\ settled' = settled \union {m}

Tell(m) ==
  /\ driver[m].at = "ended"
  /\ At(m, "told")
  /\ UNCHANGED <<backend, size, now, store, held, registered, settled, reader, mishaps, shed, denied>>

\* The terminal frame could not be sent: the crash handler persists again.
StoreAgain(m) ==
  /\ driver[m].at = "ended" /\ driver[m].puts = 1
  /\ At(m, "storing")
  /\ Mishap
  /\ UNCHANGED <<backend, size, now, store, held, registered, settled, reader, shed, denied>>

Return(m) ==
  /\ driver[m].at \in {"told", "ended"}
  /\ At(m, "over")
  /\ settled' = settled \union {m}
  /\ UNCHANGED <<backend, size, now, store, held, registered, reader, mishaps, shed, denied>>

\* Mutant: a match is shed while its driver is still storing its transcript.
EvictActive(m) ==
  /\ m \in registered
  /\ registered' = registered \ {m}
  /\ UNCHANGED <<backend, size, now, store, held, driver, settled, reader, mishaps, shed, denied>>

\* The registry sheds a match whose driver is not active.
Evict(m) ==
  /\ m \in registered
  /\ driver[m].at \in {"created", "over"}
  /\ registered' = registered \ {m}
  /\ UNCHANGED <<backend, size, now, store, held, driver, settled, reader, mishaps, shed, denied>>

----------------------------------------------------------------------------
(* put *)

Rejected(m) ==
  /\ driver[m].at = "storing"
  /\ size[m] > RecordLimit
  /\ Persisted(m, FALSE)
  /\ UNCHANGED <<backend, size, now, store, held, registered, reader, mishaps, shed, denied>>

Puts(m) ==
  /\ driver[m].at = "storing" /\ LockFree
  /\ size[m] <= RecordLimit

\* Memory: expired records and those in the way go, and the record is there.
\* SQLite: the same in one transaction, with more room if the disk is full; when
\* that fails too, all of it is rolled back.
Added(ix, m, ended) ==
  [k \in DOMAIN ix \union {m} |->
     IF k = m THEN [ended |-> ended, name |-> ended] ELSE ix[k]]

\* Under the lock, `extra` being more to drop once there is room.
PutAtOnce(m, extra) ==
  /\ Puts(m)
  /\ LET fresh == Keep(Index1, DOMAIN Index1 \ Expired(Index1))
     IN \E room \in RoomFor(fresh, m) :
        LET roomy == Keep(fresh, DOMAIN fresh \ room)
        IN \E more \in IF extra = 0 THEN {{}} ELSE OldestHolding(roomy, m, extra) :
             /\ index' = Added(Keep(roomy, DOMAIN roomy \ more), m, now)
             /\ shed' = (shed \union Expired(Index1) \union room \union more) \ {m}
  /\ Persisted(m, TRUE)
  /\ UNCHANGED <<backend, size, now, disk, tmps, orphans, put, held, registered, reader, denied>>

PutMemory(m) ==
  backend = "memory" /\ PutAtOnce(m, 0) /\ UNCHANGED mishaps
PutSqlite(m) ==
  backend = "sqlite" /\ PutAtOnce(m, 0) /\ UNCHANGED mishaps
PutSqliteFull(m) ==
  backend = "sqlite" /\ PutAtOnce(m, 2 * size[m]) /\ Mishap
PutRolledBack(m) ==
  /\ backend = "sqlite" /\ Puts(m)
  /\ Mishap
  /\ Persisted(m, FALSE)
  /\ UNCHANGED <<backend, size, now, store, held, registered, reader, shed, denied>>

\* The file store, holding the lock until PutDone or PutFails.
PutBegin(m) ==
  /\ backend = "file" /\ Puts(m) /\ <<m, now>> \notin BeingRead
  /\ LET files == disk \ (orphans \ held)
         ix == Clamped(index, files)
         fresh == Keep(ix, DOMAIN ix \ Expired(ix))
     IN \E room \in RoomFor(fresh, m) :
          /\ Drop(ix, ClampedFiles(index, files), orphans \cap held, Expired(ix) \union room)
          /\ shed' = shed \union Expired(ix) \union room
  /\ put' = [at |-> "write", id |-> m, ended |-> now, again |-> FALSE]
  /\ UNCHANGED <<backend, size, now, tmps, held, server, reader, mishaps, denied>>

PutWrite ==
  /\ put.at = "write"
  /\ put' = [put EXCEPT !.at = "replace"]
  /\ tmps' = tmps \union {put.id}
  /\ UNCHANGED <<backend, size, now, index, disk, orphans, held, server, reader, mishaps, shed, denied>>

\* The disk is full: the oldest records go and the write is tried once more.
PutNoSpace ==
  /\ put.at = "write" /\ ~put.again
  /\ Mishap
  /\ \E more \in OldestHolding(index, put.id, 2 * size[put.id]) :
       /\ Drop(index, disk, orphans, more)
       /\ shed' = shed \union more
  /\ put' = [put EXCEPT !.again = TRUE]
  /\ UNCHANGED <<backend, size, now, tmps, held, server, reader, denied>>

PutFails ==
  /\ put.at \in {"write", "replace"}
  /\ IF <<put.id, put.ended>> \in held THEN UNCHANGED mishaps ELSE Mishap
  /\ tmps' = tmps \ {put.id} /\ put' = NoPut
  /\ Persisted(put.id, FALSE)
  /\ UNCHANGED <<backend, size, now, index, disk, orphans, held, registered, reader, shed, denied>>

PutReplace ==
  /\ put.at = "replace"
  /\ <<put.id, put.ended>> \notin held
  /\ disk' = disk \union {<<put.id, put.ended>>}
  /\ tmps' = tmps \ {put.id}
  /\ put' = [put EXCEPT !.at = "index"]
  /\ UNCHANGED <<backend, size, now, index, orphans, held, server, reader, mishaps, shed, denied>>

\* Mutant: the file of the record it replaces stays.
PutLeavesOld ==
  /\ put.at = "index"
  /\ index' = Added(index, put.id, put.ended)
  /\ put' = NoPut
  /\ shed' = IF <<put.id, put.ended>> \in disk THEN shed \ {put.id} ELSE shed
  /\ Persisted(put.id, TRUE)
  /\ UNCHANGED <<backend, size, now, disk, orphans, tmps, held, registered, reader, mishaps, denied>>

\* The index follows the file, and the file it replaced is deleted.
PutDone ==
  LET m == put.id
      old == Files(index, DOMAIN index \cap {m}) \ {<<m, put.ended>>}
  IN /\ put.at = "index"
     /\ index' = Added(index, m, put.ended)
     /\ disk' = disk \ (old \ held)
     /\ orphans' = orphans \union (old \cap held)
     /\ put' = NoPut
     /\ shed' = IF <<m, put.ended>> \in disk THEN shed \ {m} ELSE shed
     /\ Persisted(m, TRUE)
     /\ UNCHANGED <<backend, size, now, tmps, held, registered, reader, mishaps, denied>>

----------------------------------------------------------------------------
(* get_public_transcript *)

\* Mutant: a match is pending until it is evicted.
AskRegistered(r, m) ==
  /\ reader[r].at = "idle" /\ driver[m].at # "absent"
  /\ reader' = [reader EXCEPT ![r] =
       [NoRead EXCEPT !.at = "asked", !.id = m, !.pending = m \in registered,
          !.told = driver[m].at \in {"told", "over"} /\ driver[m].kept,
          !.late = m \in denied]]
  /\ UNCHANGED <<backend, size, now, store, held, server, mishaps, shed, denied>>

\* Whether the save is pending is read first, before the store.  An id is not
\* known before its match is created.
Ask(r, m) ==
  /\ reader[r].at = "idle" /\ driver[m].at # "absent"
  /\ reader' = [reader EXCEPT ![r] =
       [NoRead EXCEPT !.at = "asked", !.id = m,
          !.pending = m \in registered \ settled,
          !.told = driver[m].at \in {"told", "over"} /\ driver[m].kept,
          !.late = m \in denied]]
  /\ UNCHANGED <<backend, size, now, store, held, server, mishaps, shed, denied>>

Reading == {r \in Readers : reader[r].at \in {"lookup", "open", "missing"}}

\* One of the read slots is taken.
Slot(r) ==
  /\ reader[r].at = "asked"
  /\ Cardinality(Reading) < ReadSlots
  /\ reader' = [reader EXCEPT ![r].at = "lookup"]
  /\ UNCHANGED <<backend, size, now, store, held, server, mishaps, shed, denied>>

\* A 404 says nothing of what comes later while the driver may store the match
\* again, while a file the store gave up is still there for a restart to find, or
\* when both files the read opened had been replaced.
Undecided(r) ==
  LET m == reader[r].id
  IN \/ m \in settled /\ driver[m].at \in {"storing", "ended"}
     \/ \E f \in orphans \union held : f[1] = m
     \/ reader'[r].tries = 2

\* The answer: 200 with the record, else 409 while the save was pending, else 404.
Finds(r, found, tries) ==
  LET pending == reader[r].pending
  IN /\ reader' = [reader EXCEPT ![r].tries = tries, ![r].at =
                     IF found THEN "200" ELSE IF pending THEN "409" ELSE "404"]
     /\ denied' = IF found \/ pending \/ Undecided(r) THEN denied
                  ELSE denied \union {reader[r].id}

\* Under the lock: the record, unless it is absent or expired.
Here(r) == reader[r].id \in DOMAIN Index1 \ Expired(Index1)
Looks(r) ==
  LET dead == {reader[r].id} \cap Expired(Index1)
  IN /\ reader[r].at = "lookup" /\ LockFree
     /\ Drop(Index1, Disk1, orphans, dead) /\ shed' = shed \union dead
     /\ UNCHANGED <<backend, size, now, tmps, put, held, server, mishaps>>

GetMemory(r) ==
  backend = "memory" /\ Looks(r) /\ Finds(r, Here(r), 0)
GetSqlite(r) ==
  backend = "sqlite" /\ Looks(r) /\ Finds(r, Here(r), 0)
GetFile(r) ==
  /\ backend = "file" /\ Looks(r)
  /\ IF Here(r)
       THEN /\ reader' = [reader EXCEPT ![r].at = "open",
                                        ![r].file = File(Index1, reader[r].id)]
            /\ UNCHANGED denied
       ELSE Finds(r, FALSE, reader[r].tries)

\* Outside the lock: the file, unless a put, a clamp or a drop has removed it.
Open(r) ==
  /\ reader[r].at = "open"
  /\ IF reader[r].file \in disk
       THEN Finds(r, TRUE, reader[r].tries)
       ELSE /\ reader' = [reader EXCEPT ![r].at = "missing"]
            /\ UNCHANGED denied
  /\ UNCHANGED <<backend, size, now, store, held, server, mishaps, shed>>

\* Mutant: a file that is gone is an absent record, replaced or not.
RecheckNever(r) ==
  /\ reader[r].at = "missing" /\ LockFree
  /\ Finds(r, FALSE, 0)
  /\ UNCHANGED <<backend, size, now, store, held, server, mishaps, shed>>

\* Under the lock again: look up the file that took its place, but only once.
Recheck(r) ==
  LET m == reader[r].id
      replaced == reader[r].file \notin Files(index, DOMAIN index \cap {m})
  IN /\ reader[r].at = "missing" /\ LockFree
     /\ IF replaced /\ reader[r].tries = 0
          THEN /\ reader' = [reader EXCEPT ![r].at = "lookup", ![r].tries = 1]
               /\ UNCHANGED denied
          ELSE Finds(r, FALSE, IF replaced THEN 2 ELSE reader[r].tries)
     /\ index' = IF replaced THEN index ELSE Keep(index, DOMAIN index \ {m})
     /\ shed' = IF replaced THEN shed ELSE shed \union {m}
     /\ UNCHANGED <<backend, size, now, disk, tmps, orphans, put, held, server, mishaps>>

Leave(r) ==
  /\ reader[r].at \in {"200", "409", "404"}
  /\ reader' = [reader EXCEPT ![r] = NoRead]
  /\ UNCHANGED <<backend, size, now, store, held, server, mishaps, shed, denied>>

----------------------------------------------------------------------------
\* History: what each read could have seen since it took its slot.
Watch ==
  saw' = [r \in Readers |->
    IF reader'[r].at \in {"idle", "asked"} THEN {}
    ELSE IF reader[r].at \in {"200", "409", "404"} THEN saw[r]
    ELSE saw[r] \union {reader'[r].id \in DOMAIN index'}]

Next ==
  \/ \E t \in 0..MaxClock : Tick(t) /\ Watch
  \/ \E f \in disk : Hold(f) /\ Watch
  \/ \E f \in held : LetGo(f) /\ Watch
  \/ \E f \in disk : Lost(f) /\ Watch
  \/ Restart /\ Watch
  \/ \E m \in Matches : Create(m) /\ Watch
  \/ \E m \in Matches : Ends(m) /\ Watch
  \/ \E m \in Matches : Tell(m) /\ Watch
  \/ \E m \in Matches : StoreAgain(m) /\ Watch
  \/ \E m \in Matches : Return(m) /\ Watch
  \/ \E m \in Matches : Evict(m) /\ Watch
  \/ \E m \in Matches : Rejected(m) /\ Watch
  \/ \E m \in Matches : PutMemory(m) /\ Watch
  \/ \E m \in Matches : PutSqlite(m) /\ Watch
  \/ \E m \in Matches : PutSqliteFull(m) /\ Watch
  \/ \E m \in Matches : PutRolledBack(m) /\ Watch
  \/ \E m \in Matches : PutBegin(m) /\ Watch
  \/ PutWrite /\ Watch
  \/ PutNoSpace /\ Watch
  \/ PutFails /\ Watch
  \/ PutReplace /\ Watch
  \/ PutDone /\ Watch
  \/ \E r \in Readers, m \in Matches : Ask(r, m) /\ Watch
  \/ \E r \in Readers : Slot(r) /\ Watch
  \/ \E r \in Readers : GetMemory(r) /\ Watch
  \/ \E r \in Readers : GetSqlite(r) /\ Watch
  \/ \E r \in Readers : GetFile(r) /\ Watch
  \/ \E r \in Readers : Open(r) /\ Watch
  \/ \E r \in Readers : Recheck(r) /\ Watch
  \/ \E r \in Readers : Leave(r) /\ Watch

Spec == Init /\ [][Next]_vars

----------------------------------------------------------------------------
(* Types *)

Paths == Matches \X (0..MaxClock)

TypeOK ==
  /\ backend \in Backends /\ size \in Weights /\ now \in 0..MaxClock
  /\ DOMAIN index \subseteq Matches
  /\ \A m \in DOMAIN index : index[m] \in [ended : 0..MaxClock, name : 0..MaxClock]
  /\ disk \subseteq Paths /\ orphans \subseteq disk /\ held \subseteq disk
  /\ tmps \subseteq Matches
  /\ put \in [at : {"none", "write", "replace", "index"}, id : Matches \union {NoMatch},
              ended : 0..MaxClock, again : BOOLEAN]
  /\ driver \in [Matches -> [at : {"absent", "created", "storing", "ended", "told", "over"},
                             puts : 0..2, kept : BOOLEAN]]
  /\ registered \subseteq Matches /\ settled \subseteq Matches
  /\ \A r \in Readers :
       /\ reader[r].at \in {"idle", "asked", "lookup", "open", "missing", "200", "409", "404"}
       /\ reader[r].id \in Matches \union {NoMatch}
       /\ reader[r].file \in Paths \union {<<>>} /\ reader[r].tries \in 0..2
       /\ {reader[r].pending, reader[r].told, reader[r].late} \subseteq BOOLEAN
       /\ saw[r] \subseteq BOOLEAN
  /\ mishaps \in 0..MaxMishaps /\ shed \subseteq Matches /\ denied \subseteq Matches

----------------------------------------------------------------------------
(* Safety *)

\* Whenever the lock is free, through full disks, failed writes, retries, records
\* replaced and stores reopened, the caps hold (room is made before a record is
\* written, the one it replaces not counted twice), and the file store's index is
\* its directory: every record has its file, and every file its record or waits
\* to be deleted.  No file piles up uncounted.
StoreInOrder ==
  LockFree =>
    /\ Fits(DOMAIN index)
    /\ backend = "file" =>
         /\ \A m \in DOMAIN index : File(index, m) \in disk \ orphans \/ m \in shed
         /\ disk \subseteq Files(index, DOMAIN index) \union orphans
         /\ tmps = {}

\* A read made outside the lock is still a read: the record it found was there,
\* and one it did not find was missing, at some moment since it took its slot.
\* A file renamed or replaced twice during one read is the exception.
ReadsLinearize ==
  \A r \in Readers :
    /\ reader[r].at = "200" => TRUE \in saw[r]
    /\ reader[r].at \in {"409", "404"} => FALSE \in saw[r] \/ reader[r].tries = 2

\* What the endpoint answers holds.  A client that has seen the terminal frame can
\* fetch the transcript at once, and later, after an eviction or (in a durable
\* store) a restart, unless the policy or a fault has taken it: never 409, and 404
\* only then.  And 404 is final: until a transcript is stored the answer is 409,
\* whatever else runs, so no client told 404 would have got 200 by trying again.
AnswersHold ==
  \A r \in Readers :
    /\ reader[r].told => /\ reader[r].at # "409"
                         /\ reader[r].at = "404" => reader[r].id \in shed \/ reader[r].tries = 2
    /\ reader[r].late => reader[r].at # "200"
=============================================================================
