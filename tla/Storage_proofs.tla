----------------------------- MODULE Storage_proofs -----------------------------
(***************************************************************************)
(* Safety of the artifact store and of the rewind, proved for any users,   *)
(* artifacts, writers and readers, with failures and crashes anywhere.     *)
(*                                                                         *)
(* The store needs callers that write one artifact one at a time (Serial). *)
(* Then its invariant follows a version: the directory a Save makes is its *)
(* own; the content is in it before the metadata; and after that only a    *)
(* Delete touches it, which a Load that is under way gets to know.  The    *)
(* rewind's says at each of its steps which session holds the events to    *)
(* keep.                                                                   *)
(***************************************************************************)
EXTENDS Storage, SequenceTheorems, WellFoundedInduction, TLAPS

-----------------------------------------------------------------------------
(* The artifact store.                                                     *)

Saving == {"mkdir", "content", "meta"}
Contents == [kind : Kinds, save : Nat]
Save == [pc : Saving, dir : Dirs, kind : Kinds, save : Nat, version : Nat]
VersionEntry == [files : SUBSET Contents, meta : SUBSET Contents]
Delete == [pc : {"delete"}, dir : Dirs]
Resolved == [pc : {"meta"}, dir : Dirs, version : Nat]
Described == [pc : {"content"}, dir : Dirs, version : Nat, meta : Contents]
Loaded == [pc : {"loaded"}, dir : Dirs, version : Nat, meta : Contents, content : Contents]
NotLoaded == [pc : {"missing"}, dir : Dirs, version : Nat]

StoreTypeOK ==
  /\ saves \in Nat
  /\ DOMAIN disk = Dirs
  /\ \A d \in Dirs : \A v \in DOMAIN disk[d] :
       v \in Nat /\ disk[d][v] \in VersionEntry
  /\ writer \in [Writers -> {Idle} \cup Save \cup Delete]
  /\ reader \in [Readers -> {Idle} \cup Resolved \cup Described \cup Loaded \cup NotLoaded]
  /\ returned \subseteq Dirs \X Nat \X Nat
  /\ deleting \in [Readers -> SUBSET Dirs]
  /\ torn \subseteq Dirs \X Nat

\* Every version was some Save's.
VersionsCounted == \A d \in Dirs : \A v \in DOMAIN disk[d] : v < saves

OneWriter ==
  \A w, x \in Writers :
    ~At(w, "idle") /\ ~At(x, "idle") /\ writer[w].dir = writer[x].dir => w = x

\* What is kept of the content: nothing of a blob called metadata.json.
Payload(d, c) == IF d \in Clashing /\ c.kind = "blob" THEN {} ELSE {c}

\* A version is of one Save, and whole if it has metadata and no Delete has torn it.
WholeVersions ==
  \A d \in Dirs : \A v \in DOMAIN disk[d] :
    /\ \A f, g \in disk[d][v].files \cup disk[d][v].meta : f = g
    /\ disk[d][v].meta # {} /\ <<d, v>> \notin torn => d \in Clashing \/ disk[d][v].files = disk[d][v].meta

TornAreThere == \A x \in torn : x[2] \in DOMAIN disk[x[1]]

\* The directory of a Save is its own.
OwnDirectory(w) ==
  /\ At(w, "mkdir") => ~There(w) /\ writer[w].version < saves
  /\ At(w, "content") => There(w) /\ Held(w) = Empty
  /\ At(w, "meta") => There(w) /\ Held(w) = [files |-> Payload(writer[w].dir, Written(w)),
                                            meta |-> {Written(w)} \ Payload(writer[w].dir, Written(w))]
  /\ At(w, "content") \/ At(w, "meta") =>
       /\ <<writer[w].dir, writer[w].version>> \notin torn
       /\ \A x \in returned : x[1] # writer[w].dir \/ x[2] # writer[w].version

SaversDirectory == \A w \in Writers : OwnDirectory(w)

ReturnedAreStored ==
  \A x \in returned :
    /\ x[2] \in DOMAIN disk[x[1]]
    /\ \E k \in Kinds : LET c == [kind |-> k, save |-> x[3]]
                      IN disk[x[1]][x[2]] = [files |-> Payload(x[1], c), meta |-> {c}]

\* A Delete has told the history, and takes nothing of what has to stay.
DeletesAreKnown ==
  \A w \in Writers : At(w, "delete") =>
    /\ \A x \in returned : x[1] # writer[w].dir
    /\ \A r \in Readers : writer[w].dir \in deleting[r]

\* What a Load has read of a version is still so.
MetaIsThere ==
  \A r \in Readers : reader[r].pc = "content" /\ reader[r].dir \notin deleting[r] =>
    /\ reader[r].version \in DOMAIN disk[reader[r].dir]
    /\ disk[reader[r].dir][reader[r].version].meta = {reader[r].meta}

StoreIInv ==
  /\ StoreTypeOK
  /\ VersionsCounted
  /\ OneWriter
  /\ WholeVersions
  /\ TornAreThere
  /\ SaversDirectory
  /\ ReturnedAreStored
  /\ DeletesAreKnown
  /\ MetaIsThere
  /\ LoadsAreWhole

\* A bounded set of numbers has a largest.
LEMMA MaxOf ==
  ASSUME NEW S, S \subseteq Nat, S # {}, NEW b \in Nat, \A n \in S : n < b
  PROVE  Max(S) \in S /\ \A n \in S : n <= Max(S)
<1>1. PICK below : below = {b - n : n \in S}
  OBVIOUS
<1>2. \A n \in S : b - n \in Nat /\ n \in Nat
  OBVIOUS
<1>3. below \subseteq Nat /\ below # {}
  BY <1>1, <1>2
<1>4. PICK x \in below : \A y \in below : ~(<<y, x>> \in OpToRel(<, Nat))
  BY <1>3, NatLessThanWellFounded, WFMin
<1>5. \A y \in below : ~(y < x)
  <2> TAKE y \in below
  <2>1. x \in Nat /\ y \in Nat
    BY <1>3
  <2>2. <<y, x>> \in OpToRel(<, Nat) <=> y < x
    BY <2>1, Zenon DEF OpToRel
  <2> QED
    BY <1>4, <2>2
<1>6. PICK m \in S : x = b - m
  BY <1>1
<1>7. \A n \in S : m >= n
  <2> TAKE n \in S
  <2>1. ~(b - n < b - m)
    BY <1>1, <1>5, <1>6
  <2> QED
    BY <1>2, <2>1
<1>8. Max(S) \in S /\ \A n \in S : Max(S) >= n
  BY <1>7 DEF Max
<1> QED
  BY <1>2, <1>8

\* The version a Save chooses is new.
LEMMA NextIsNew ==
  ASSUME StoreIInv, NEW d \in Dirs
  PROVE  SaveVersion(d) \in Nat /\ SaveVersion(d) <= saves /\ SaveVersion(d) \notin DOMAIN disk[d]
<1>1. saves \in Nat /\ DOMAIN disk[d] \subseteq Nat /\ \A v \in DOMAIN disk[d] : v < saves
  BY DEF StoreIInv, StoreTypeOK, VersionsCounted
<1>2. CASE DOMAIN disk[d] = {}
  BY <1>1, <1>2 DEF SaveVersion, NextVersion, ListVersions
<1>3. CASE DOMAIN disk[d] # {}
  <2>1. Max(DOMAIN disk[d]) \in DOMAIN disk[d] /\ \A v \in DOMAIN disk[d] : v <= Max(DOMAIN disk[d])
    BY <1>1, <1>3, MaxOf
  <2>2. SaveVersion(d) = Max(DOMAIN disk[d]) + 1
    BY <1>3 DEF SaveVersion, NextVersion, LatestVersion, ListVersions
  <2> QED
    BY <1>1, <2>1, <2>2
<1> QED
  BY <1>2, <1>3

LEMMA WriterKinds ==
  ASSUME StoreTypeOK, NEW w \in Writers
  PROVE  /\ writer[w] \in {Idle} \cup Save \cup Delete
         /\ writer[w].pc \in Saving \cup {"idle", "delete"}
         /\ writer[w].pc \in Saving => writer[w] \in Save
         /\ writer[w].pc = "delete" => writer[w] \in Delete
         /\ writer[w].pc # "idle" => writer[w].dir \in Dirs
<1>1. writer[w] \in {Idle} \cup Save \cup Delete
  BY DEF StoreTypeOK
<1>2. CASE writer[w] = Idle
  BY <1>2 DEF Idle, Saving
<1>3. CASE writer[w] \in Save
  BY <1>3 DEF Save, Saving
<1>4. CASE writer[w] \in Delete
  BY <1>4 DEF Delete, Saving
<1> QED
  BY <1>1, <1>2, <1>3, <1>4

LEMMA ReaderKinds ==
  ASSUME StoreTypeOK, NEW r \in Readers
  PROVE  /\ reader[r] \in {Idle} \cup Resolved \cup Described \cup Loaded \cup NotLoaded
         /\ reader[r].pc = "meta" => reader[r] \in Resolved
         /\ reader[r].pc = "content" => reader[r] \in Described
         /\ reader[r].pc = "loaded" => reader[r] \in Loaded
         /\ reader[r].pc = "missing" => reader[r] \in NotLoaded
         /\ reader[r].pc # "idle" => reader[r].dir \in Dirs /\ reader[r].version \in Nat
<1>1. reader[r] \in {Idle} \cup Resolved \cup Described \cup Loaded \cup NotLoaded
  BY DEF StoreTypeOK
<1>2. CASE reader[r] = Idle
  BY <1>2 DEF Idle
<1>3. CASE reader[r] \in Resolved
  BY <1>3 DEF Resolved
<1>4. CASE reader[r] \in Described
  BY <1>4 DEF Described
<1>5. CASE reader[r] \in Loaded
  BY <1>5 DEF Loaded
<1>6. CASE reader[r] \in NotLoaded
  BY <1>6 DEF NotLoaded
<1> QED
  BY <1>1, <1>2, <1>3, <1>4, <1>5, <1>6

LEMMA InitStoreIInv == InitStore => StoreIInv
<1> SUFFICES ASSUME InitStore PROVE StoreIInv
  OBVIOUS
<1>1. \A d \in Dirs : disk[d] = NoVersions /\ DOMAIN disk[d] = {}
  BY DEF InitStore, NoVersions
<1>2. /\ \A w \in Writers : writer[w].pc = "idle"
      /\ \A r \in Readers : reader[r].pc = "idle"
  BY DEF InitStore, Idle
<1>3. StoreTypeOK
  BY <1>1 DEF InitStore, StoreTypeOK
<1>4. VersionsCounted /\ OneWriter /\ WholeVersions /\ TornAreThere /\ ReturnedAreStored
  BY <1>1, <1>2 DEF InitStore, VersionsCounted, OneWriter, WholeVersions, TornAreThere, ReturnedAreStored, At
<1>5. SaversDirectory /\ DeletesAreKnown /\ MetaIsThere /\ LoadsAreWhole
  BY <1>2 DEF SaversDirectory, OwnDirectory, DeletesAreKnown, MetaIsThere, LoadsAreWhole, At
<1> QED
  BY <1>3, <1>4, <1>5 DEF StoreIInv

\* What one writer does to the directory it holds leaves the other Saves alone.
LEMMA OthersDirectory ==
  ASSUME StoreIInv, NEW w \in Writers, NEW x \in Writers, x # w,
         writer'[x] = writer[x], saves' \in Nat, saves' >= saves,
         \A d \in Dirs : At(w, "idle") \/ d # writer[w].dir =>
           disk'[d] = disk[d] /\ \A v : <<d, v>> \in torn' => <<d, v>> \in torn,
         \A y \in returned' : y \in returned \/ (~At(w, "idle") /\ y[1] = writer[w].dir)
  PROVE  OwnDirectory(x)'
<1> USE DEF StoreIInv
<1>1. OwnDirectory(x)
  BY DEF SaversDirectory
<1>2. CASE writer[x].pc \notin Saving
  BY <1>2 DEF OwnDirectory, At, Saving
<1>3. CASE writer[x].pc \in Saving
  <2>1. writer[x] \in Save
    BY <1>3, WriterKinds
  <2>2. writer[x].dir \in Dirs /\ writer[x].version \in Nat
    BY <2>1 DEF Save
  <2>3. At(w, "idle") \/ writer[x].dir # writer[w].dir
    BY <1>3 DEF OneWriter, At, Saving
  <2>4. disk'[writer[x].dir] = disk[writer[x].dir]
    BY <2>2, <2>3
  <2>5. There(x)' = There(x) /\ Written(x)' = Written(x)
    BY <2>4 DEF There, Written, ListVersions
  <2>6. Held(x)' = Held(x)
    BY <2>4, <2>5 DEF Held
  <2>7. writer[x].version < saves => writer'[x].version < saves'
    BY <2>2 DEF StoreTypeOK
  <2>8. <<writer[x].dir, writer[x].version>> \in torn' => <<writer[x].dir, writer[x].version>> \in torn
    BY <2>2, <2>3
  <2>9. \A y \in returned' : y \in returned \/ y[1] # writer[x].dir
    BY <2>3
  <2> QED
    BY <1>1, <2>5, <2>6, <2>7, <2>8, <2>9 DEF OwnDirectory, At
<1> QED
  BY <1>2, <1>3

\* A Save and a Delete begin alone.
LEMMA WriterBegins ==
  ASSUME StoreIInv, NEW w \in Writers, At(w, "idle"), NEW d \in Dirs, ~Busy(d),
         NEW new \in Save \cup Delete, new.dir = d,
         writer' = [writer EXCEPT ![w] = new]
  PROVE  /\ writer' \in [Writers -> {Idle} \cup Save \cup Delete]
         /\ OneWriter'
         /\ writer'[w] = new /\ \A x \in Writers : x # w => writer'[x] = writer[x]
<1> USE DEF StoreIInv
<1>1. writer'[w] = new /\ \A x \in Writers : x # w => writer'[x] = writer[x]
  BY DEF StoreTypeOK
<1>2. writer' \in [Writers -> {Idle} \cup Save \cup Delete]
  BY DEF StoreTypeOK
<1>3. \A x \in Writers : x # w /\ ~At(x, "idle") => writer[x].dir # d
  BY DEF Busy, At
<1>4. OneWriter'
  <2> SUFFICES ASSUME NEW x \in Writers, NEW y \in Writers, ~At(x, "idle")', ~At(y, "idle")',
                      writer'[x].dir = writer'[y].dir
               PROVE  x = y
    BY DEF OneWriter
  <2>1. CASE x = w \/ y = w
    BY <1>1, <1>3, <2>1 DEF At
  <2>2. CASE x # w /\ y # w
    BY <1>1, <2>2 DEF OneWriter, At
  <2> QED
    BY <2>1, <2>2
<1> QED
  BY <1>1, <1>2, <1>4

\* A writer that moves on, keeping its directory, or ends.
LEMMA WriterMoves ==
  ASSUME StoreIInv, NEW w \in Writers, ~At(w, "idle"),
         NEW new \in {Idle} \cup Save \cup Delete, new = Idle \/ new.dir = writer[w].dir,
         writer' = [writer EXCEPT ![w] = new]
  PROVE  /\ writer' \in [Writers -> {Idle} \cup Save \cup Delete]
         /\ OneWriter'
         /\ writer'[w] = new /\ \A x \in Writers : x # w => writer'[x] = writer[x]
<1> USE DEF StoreIInv
<1>1. writer'[w] = new /\ \A x \in Writers : x # w => writer'[x] = writer[x]
  BY DEF StoreTypeOK
<1>2. writer' \in [Writers -> {Idle} \cup Save \cup Delete]
  BY DEF StoreTypeOK
<1>3. \A x \in Writers : ~At(x, "idle")' => ~At(x, "idle") /\ writer'[x].dir = writer[x].dir
  BY <1>1 DEF At, Idle
<1>4. OneWriter'
  BY <1>3 DEF OneWriter
<1> QED
  BY <1>1, <1>2, <1>4

\* What is said of the disk stays true while it is left alone.
LEMMA QuietDisk ==
  ASSUME StoreIInv, UNCHANGED <<disk, reader, returned, deleting, torn>>
  PROVE  WholeVersions' /\ TornAreThere' /\ ReturnedAreStored' /\ MetaIsThere' /\ LoadsAreWhole'
<1> USE DEF StoreIInv
<1>1. WholeVersions' /\ TornAreThere'
  BY DEF WholeVersions, TornAreThere
<1>2. ReturnedAreStored'
  BY DEF ReturnedAreStored
<1>3. MetaIsThere'
  BY DEF MetaIsThere
<1>4. LoadsAreWhole'
  BY DEF LoadsAreWhole
<1> QED
  BY <1>1, <1>2, <1>3, <1>4

LEMMA SaveListStep ==
  ASSUME Serial, StoreIInv, NEW w \in Writers, SaveList(w)
  PROVE  StoreIInv'
<1> USE DEF StoreIInv
<1>1. /\ At(w, "idle") /\ saves' = saves + 1
      /\ UNCHANGED <<disk, reader, returned, deleting, torn>>
  BY DEF SaveList, historyVars
<1>2. PICK d \in Dirs, kind \in Kinds :
        /\ ~Busy(d)
        /\ writer' = [writer EXCEPT ![w] =
             [pc |-> "mkdir", dir |-> d, kind |-> kind, save |-> saves', version |-> SaveVersion(d)]]
  <2>1. \A s \in Sessions, f \in Files : ArtifactDir(s, f) \in Dirs
    BY DEF Dirs
  <2> QED
    BY <2>1, Zenon DEF SaveList
<1> DEFINE new == [pc |-> "mkdir", dir |-> d, kind |-> kind, save |-> saves', version |-> SaveVersion(d)]
<1>3. saves \in Nat /\ saves' \in Nat
  BY <1>1 DEF StoreTypeOK
<1>4. SaveVersion(d) \in Nat /\ SaveVersion(d) < saves' /\ SaveVersion(d) \notin DOMAIN disk[d]
  BY <1>1, <1>3, NextIsNew
<1>5. new \in Save /\ new.dir = d
  BY <1>3, <1>4 DEF Save, Saving
<1>6. /\ writer' \in [Writers -> {Idle} \cup Save \cup Delete]
      /\ OneWriter'
      /\ writer'[w] = new /\ \A x \in Writers : x # w => writer'[x] = writer[x]
  BY <1>1, <1>2, <1>5, WriterBegins
<1>7. StoreTypeOK'
  BY <1>1, <1>3, <1>6 DEF StoreTypeOK
<1>8. VersionsCounted'
  BY <1>1, <1>3 DEF VersionsCounted, StoreTypeOK
<1>9. WholeVersions' /\ TornAreThere' /\ ReturnedAreStored' /\ MetaIsThere' /\ LoadsAreWhole'
  BY <1>1, QuietDisk
<1>10. SaversDirectory'
  <2>1. OwnDirectory(w)'
    BY <1>1, <1>4, <1>6 DEF OwnDirectory, At, There, ListVersions
  <2>2. \A x \in Writers : x # w => OwnDirectory(x)'
    BY <1>1, <1>3, <1>6, OthersDirectory
  <2> QED
    BY <2>1, <2>2 DEF SaversDirectory
<1>11. DeletesAreKnown'
  BY <1>1, <1>6 DEF DeletesAreKnown, At
<1> QED
  BY <1>6, <1>7, <1>8, <1>9, <1>10, <1>11

LEMMA WriterStops ==
  ASSUME StoreIInv, NEW w \in Writers, ~At(w, "idle"),
         writer' = [writer EXCEPT ![w] = Idle], UNCHANGED <<disk, reader, saves, historyVars>>
  PROVE  StoreIInv'
<1> USE DEF StoreIInv
<1>1. UNCHANGED <<returned, deleting, torn>>
  BY DEF historyVars
<1>2. /\ writer' \in [Writers -> {Idle} \cup Save \cup Delete]
      /\ OneWriter'
      /\ writer'[w] = Idle /\ \A x \in Writers : x # w => writer'[x] = writer[x]
  BY WriterMoves
<1>3. StoreTypeOK'
  BY <1>1, <1>2 DEF StoreTypeOK
<1>4. VersionsCounted' /\ WholeVersions' /\ TornAreThere' /\ ReturnedAreStored' /\ MetaIsThere' /\ LoadsAreWhole'
  BY <1>1, QuietDisk DEF VersionsCounted
<1>5. SaversDirectory'
  <2>1. OwnDirectory(w)'
    BY <1>2 DEF OwnDirectory, At, Idle
  <2>2. \A x \in Writers : x # w => OwnDirectory(x)'
    BY <1>1, <1>2, OthersDirectory DEF StoreTypeOK
  <2> QED
    BY <2>1, <2>2 DEF SaversDirectory
<1>6. DeletesAreKnown'
  BY <1>1, <1>2 DEF DeletesAreKnown, At, Idle
<1> QED
  BY <1>2, <1>3, <1>4, <1>5, <1>6

\* A Save writes in a directory of its own, and leaves what a Load may have found there.
LEMMA SaverStores ==
  ASSUME StoreIInv, NEW w \in Writers, writer[w].pc \in Saving,
         NEW e \in VersionEntry, Store(w, e),
         \A f, g \in e.files \cup e.meta : f = g,
         e.meta # {} => writer[w].dir \in Clashing \/ e.files = e.meta,
         Held(w).meta # {} => e.meta = Held(w).meta,
         UNCHANGED <<reader, saves, deleting, torn>>
  PROVE  /\ DOMAIN disk' = Dirs
         /\ \A d \in Dirs : \A v \in DOMAIN disk'[d] : v \in Nat /\ disk'[d][v] \in VersionEntry
         /\ writer[w].version \in DOMAIN disk'[writer[w].dir]
         /\ disk'[writer[w].dir][writer[w].version] = e
         /\ \A d \in Dirs : d # writer[w].dir => disk'[d] = disk[d]
         /\ VersionsCounted' /\ WholeVersions' /\ TornAreThere' /\ MetaIsThere' /\ LoadsAreWhole'
         /\ \A x \in returned :
              /\ x[1] # writer[w].dir \/ x[2] # writer[w].version
              /\ x[2] \in DOMAIN disk'[x[1]] /\ disk'[x[1]][x[2]] = disk[x[1]][x[2]]
<1> USE DEF StoreIInv
<1> DEFINE d == writer[w].dir
           v == writer[w].version
<1>1. d \in Dirs /\ v \in Nat
  <2>1. writer[w] \in Save
    BY WriterKinds
  <2> QED
    BY <2>1 DEF Save
<1>2. v < saves
  <2>1. OwnDirectory(w)
    BY DEF SaversDirectory
  <2>2. v \in DOMAIN disk[d] => v < saves
    BY <1>1 DEF VersionsCounted
  <2> QED
    BY <2>1, <2>2 DEF OwnDirectory, Saving, At, There, ListVersions
<1>3. v \in DOMAIN disk[d] /\ disk[d][v].meta # {} => disk[d][v].meta = e.meta
  <2>1. v \in DOMAIN disk[d] => Held(w) = disk[d][v]
    BY DEF Held, There, ListVersions
  <2> QED
    BY <2>1
<1>15. \A x \in returned : x[1] # d \/ x[2] # v
  <2>1. OwnDirectory(w)
    BY DEF SaversDirectory
  <2>2. \A x \in returned : x[2] \in DOMAIN disk[x[1]]
    BY DEF ReturnedAreStored
  <2> QED
    BY <2>1, <2>2 DEF OwnDirectory, Saving, At, There, ListVersions
<1>4. /\ DOMAIN disk' = Dirs
      /\ \A c \in Dirs : c # d => disk'[c] = disk[c]
      /\ disk'[d] = [u \in DOMAIN disk[d] \cup {v} |-> IF u = v THEN e ELSE disk[d][u]]
  BY <1>1 DEF Store, StoreAt, StoreTypeOK
<1> HIDE DEF d, v
<1>5. /\ DOMAIN disk'[d] = DOMAIN disk[d] \cup {v}
      /\ disk'[d][v] = e
      /\ \A u \in DOMAIN disk[d] : u # v => disk'[d][u] = disk[d][u]
  BY <1>4
<1>6. \A c \in Dirs : \A u \in DOMAIN disk'[c] :
        \/ c = d /\ u = v /\ disk'[c][u] = e
        \/ (c # d \/ u # v) /\ u \in DOMAIN disk[c] /\ disk'[c][u] = disk[c][u]
  BY <1>4, <1>5
<1>7. \A c \in Dirs : \A u \in DOMAIN disk[c] :
        /\ u \in DOMAIN disk'[c]
        /\ disk[c][u].meta # {} => disk'[c][u].meta = disk[c][u].meta
        /\ c # d \/ u # v => disk'[c][u] = disk[c][u]
  BY <1>3, <1>4, <1>5
<1>8. \A c \in Dirs : \A u \in DOMAIN disk'[c] : u \in Nat /\ disk'[c][u] \in VersionEntry
  BY <1>1, <1>6 DEF StoreTypeOK
<1>9. VersionsCounted'
  BY <1>2, <1>4, <1>6 DEF VersionsCounted
<1>10. WholeVersions'
  <2> SUFFICES ASSUME NEW c \in Dirs, NEW u \in DOMAIN disk'[c]
               PROVE  /\ \A f, g \in disk'[c][u].files \cup disk'[c][u].meta : f = g
                      /\ disk'[c][u].meta # {} /\ <<c, u>> \notin torn =>
                           c \in Clashing \/ disk'[c][u].files = disk'[c][u].meta
    BY <1>4 DEF WholeVersions
  <2>1. CASE c = d /\ disk'[c][u] = e
    BY <2>1 DEF d
  <2>2. CASE u \in DOMAIN disk[c] /\ disk'[c][u] = disk[c][u]
    BY <2>2 DEF WholeVersions
  <2> QED
    BY <1>6, <2>1, <2>2
<1>11. TornAreThere'
  BY <1>7 DEF TornAreThere, StoreTypeOK
<1>12. MetaIsThere'
  <2> SUFFICES ASSUME NEW r \in Readers, reader[r].pc = "content", reader[r].dir \notin deleting[r]
               PROVE  /\ reader[r].version \in DOMAIN disk'[reader[r].dir]
                      /\ disk'[reader[r].dir][reader[r].version].meta = {reader[r].meta}
    BY DEF MetaIsThere
  <2>1. reader[r].dir \in Dirs
    BY ReaderKinds
  <2>2. /\ reader[r].version \in DOMAIN disk[reader[r].dir]
        /\ disk[reader[r].dir][reader[r].version].meta = {reader[r].meta}
    BY DEF MetaIsThere
  <2> QED
    BY <1>7, <2>1, <2>2
<1>13. LoadsAreWhole'
  BY DEF LoadsAreWhole
<1>14. \A x \in returned :
         /\ x[1] # d \/ x[2] # v
         /\ x[2] \in DOMAIN disk'[x[1]] /\ disk'[x[1]][x[2]] = disk[x[1]][x[2]]
  <2> SUFFICES ASSUME NEW x \in returned
               PROVE  /\ x[1] # d \/ x[2] # v
                      /\ x[2] \in DOMAIN disk'[x[1]] /\ disk'[x[1]][x[2]] = disk[x[1]][x[2]]
    OBVIOUS
  <2>1. x[1] \in Dirs
    BY DEF StoreTypeOK
  <2>2. x[2] \in DOMAIN disk[x[1]]
    BY DEF ReturnedAreStored
  <2> QED
    BY <1>7, <1>15, <2>1, <2>2
<1> QED
  BY <1>4, <1>5, <1>8, <1>9, <1>10, <1>11, <1>12, <1>13, <1>14 DEF d, v

LEMMA SaveMkdirStep ==
  ASSUME StoreIInv, NEW w \in Writers, SaveMkdir(w)
  PROVE  StoreIInv'
<1> USE DEF StoreIInv
<1>1. /\ At(w, "mkdir") /\ writer' = [writer EXCEPT ![w].pc = "content"] /\ Store(w, Held(w))
      /\ UNCHANGED <<reader, saves, returned, deleting, torn>>
  BY DEF SaveMkdir, Step, historyVars
<1>2. writer[w].pc \in Saving /\ ~At(w, "idle") /\ writer[w] \in Save
  BY <1>1, WriterKinds DEF At, Saving
<1>3. ~There(w) /\ Held(w) = Empty
  BY <1>1 DEF SaversDirectory, OwnDirectory, Held
<1>4. Empty \in VersionEntry /\ Empty.files = {} /\ Empty.meta = {}
  BY DEF Empty, VersionEntry
<1>5. /\ DOMAIN disk' = Dirs
      /\ \A d \in Dirs : \A v \in DOMAIN disk'[d] : v \in Nat /\ disk'[d][v] \in VersionEntry
      /\ writer[w].version \in DOMAIN disk'[writer[w].dir]
      /\ disk'[writer[w].dir][writer[w].version] = Empty
      /\ \A d \in Dirs : d # writer[w].dir => disk'[d] = disk[d]
      /\ VersionsCounted' /\ WholeVersions' /\ TornAreThere' /\ MetaIsThere' /\ LoadsAreWhole'
      /\ \A x \in returned :
           /\ x[1] # writer[w].dir \/ x[2] # writer[w].version
           /\ x[2] \in DOMAIN disk'[x[1]] /\ disk'[x[1]][x[2]] = disk[x[1]][x[2]]
  BY <1>1, <1>2, <1>3, <1>4, SaverStores
<1> DEFINE new == [writer[w] EXCEPT !.pc = "content"]
<1>6. /\ new \in Save /\ new.pc = "content" /\ new.dir = writer[w].dir /\ new.version = writer[w].version
      /\ writer' = [writer EXCEPT ![w] = new]
  BY <1>1, <1>2 DEF Save, Saving
<1> HIDE DEF new
<1>7. /\ writer' \in [Writers -> {Idle} \cup Save \cup Delete]
      /\ OneWriter'
      /\ writer'[w] = new /\ \A x \in Writers : x # w => writer'[x] = writer[x]
  BY <1>2, <1>6, WriterMoves
<1>8. StoreTypeOK'
  BY <1>1, <1>5, <1>7 DEF StoreTypeOK
<1>9. SaversDirectory'
  <2>1. OwnDirectory(w)'
    <3>1. <<writer[w].dir, writer[w].version>> \notin torn
      BY <1>3 DEF TornAreThere, There, ListVersions
    <3>2. There(w)' /\ Held(w)' = Empty
      BY <1>5, <1>6, <1>7 DEF There, Held, ListVersions
    <3> QED
      BY <1>1, <1>5, <1>6, <1>7, <3>1, <3>2 DEF OwnDirectory, At
  <2>2. \A x \in Writers : x # w => OwnDirectory(x)'
    BY <1>1, <1>2, <1>5, <1>7, OthersDirectory DEF StoreTypeOK
  <2> QED
    BY <2>1, <2>2 DEF SaversDirectory
<1>10. ReturnedAreStored'
  BY <1>1, <1>5 DEF ReturnedAreStored
<1>11. DeletesAreKnown'
  BY <1>1, <1>6, <1>7 DEF DeletesAreKnown, At
<1> QED
  BY <1>5, <1>7, <1>8, <1>9, <1>10, <1>11

\* The content, into the empty directory.
LEMMA SaveContentStep ==
  ASSUME StoreIInv, NEW w \in Writers, SaveFile(w), At(w, "content")
  PROVE  StoreIInv'
<1> USE DEF StoreIInv
<1>1. /\ writer' = [writer EXCEPT ![w].pc = "meta"] /\ WriteContent(w)
      /\ UNCHANGED <<reader, saves, returned, deleting, torn>>
  BY DEF SaveFile, Step, Write
<1>2. writer[w].pc \in Saving /\ ~At(w, "idle") /\ writer[w] \in Save
  BY WriterKinds DEF At, Saving
<1>3. /\ There(w) /\ Held(w) = Empty
      /\ <<writer[w].dir, writer[w].version>> \notin torn
  BY DEF SaversDirectory, OwnDirectory
<1> DEFINE p == Payload(writer[w].dir, Written(w))
           e == [files |-> p, meta |-> {Written(w)} \ p]
<1>14. p = IF Hidden(w) THEN {} ELSE {Written(w)}
  BY DEF Payload, Hidden, Written
<1>4. Store(w, e)
  <2>1. CASE Hidden(w)
    <3>1. [Held(w) EXCEPT !.meta = {Written(w)}] = e
      BY <1>3, <1>14, <2>1 DEF Empty
    <3> QED
      BY <1>1, <2>1, <3>1 DEF WriteContent
  <2>2. CASE ~Hidden(w)
    <3>1. [Held(w) EXCEPT !.files = {f \in @ : f.kind # writer[w].kind} \cup {Written(w)}] = e
      BY <1>3, <1>14, <2>2 DEF Empty
    <3> QED
      BY <1>1, <2>2, <3>1 DEF WriteContent
  <2> QED
    BY <2>1, <2>2
<1>5. Written(w) \in Contents
  BY <1>2 DEF Written, Contents, Save
<1>6. /\ e \in VersionEntry /\ \A f, g \in e.files \cup e.meta : f = g
      /\ e.meta # {} => writer[w].dir \in Clashing
      /\ Held(w).meta = {}
  BY <1>3, <1>5, <1>14 DEF VersionEntry, Hidden, Empty
<1> HIDE DEF e, p
<1>7. /\ DOMAIN disk' = Dirs
      /\ \A d \in Dirs : \A v \in DOMAIN disk'[d] : v \in Nat /\ disk'[d][v] \in VersionEntry
      /\ writer[w].version \in DOMAIN disk'[writer[w].dir]
      /\ disk'[writer[w].dir][writer[w].version] = e
      /\ \A d \in Dirs : d # writer[w].dir => disk'[d] = disk[d]
      /\ VersionsCounted' /\ WholeVersions' /\ TornAreThere' /\ MetaIsThere' /\ LoadsAreWhole'
      /\ \A x \in returned :
           /\ x[1] # writer[w].dir \/ x[2] # writer[w].version
           /\ x[2] \in DOMAIN disk'[x[1]] /\ disk'[x[1]][x[2]] = disk[x[1]][x[2]]
  BY <1>1, <1>2, <1>4, <1>6, SaverStores
<1> DEFINE new == [writer[w] EXCEPT !.pc = "meta"]
<1>8. /\ new \in Save /\ new.pc = "meta" /\ new.dir = writer[w].dir /\ new.version = writer[w].version
      /\ new.kind = writer[w].kind /\ new.save = writer[w].save
      /\ writer' = [writer EXCEPT ![w] = new]
  BY <1>1, <1>2 DEF Save, Saving
<1> HIDE DEF new
<1>9. /\ writer' \in [Writers -> {Idle} \cup Save \cup Delete]
      /\ OneWriter'
      /\ writer'[w] = new /\ \A x \in Writers : x # w => writer'[x] = writer[x]
  BY <1>2, <1>8, WriterMoves
<1>10. StoreTypeOK'
  BY <1>1, <1>7, <1>9 DEF StoreTypeOK
<1>11. SaversDirectory'
  <2>1. OwnDirectory(w)'
    <3>1. There(w)' /\ Held(w)' = e
      BY <1>7, <1>8, <1>9 DEF There, Held, ListVersions
    <3>2. Written(w)' = Written(w)
      BY <1>8, <1>9 DEF Written
    <3>3. Held(w)' = [files |-> Payload(writer'[w].dir, Written(w)'),
                      meta |-> {Written(w)'} \ Payload(writer'[w].dir, Written(w)')]
      BY <1>8, <1>9, <3>1, <3>2 DEF e, p
    <3> QED
      BY <1>1, <1>3, <1>7, <1>8, <1>9, <3>1, <3>3 DEF OwnDirectory, At
  <2>2. \A x \in Writers : x # w => OwnDirectory(x)'
    BY <1>1, <1>2, <1>7, <1>9, OthersDirectory DEF StoreTypeOK
  <2> QED
    BY <2>1, <2>2 DEF SaversDirectory
<1>12. ReturnedAreStored'
  <2>1. ReturnedAreStored /\ returned' = returned
    BY <1>1
  <2>2. \A x \in returned : x[2] \in DOMAIN disk'[x[1]] /\ disk'[x[1]][x[2]] = disk[x[1]][x[2]]
    BY <1>7
  <2> HIDE DEF StoreIInv
  <2> QED
    BY <2>1, <2>2 DEF ReturnedAreStored
<1>13. DeletesAreKnown'
  BY <1>1, <1>8, <1>9 DEF DeletesAreKnown, At
<1> QED
  BY <1>7, <1>9, <1>10, <1>11, <1>12, <1>13

\* The metadata, beside the content: the version is whole, and the Save returns.
LEMMA SaveMetaStep ==
  ASSUME StoreIInv, NEW w \in Writers, SaveFile(w), At(w, "meta")
  PROVE  StoreIInv'
<1> USE DEF StoreIInv
<1>1. /\ writer' = [writer EXCEPT ![w] = Idle] /\ WriteMeta(w)
      /\ returned' = returned \cup {<<writer[w].dir, writer[w].version, writer[w].save>>}
      /\ UNCHANGED <<reader, saves, deleting, torn>>
  BY DEF SaveFile, Step, Write, At
<1>2. writer[w].pc \in Saving /\ ~At(w, "idle") /\ writer[w] \in Save
  BY WriterKinds DEF At, Saving
<1> DEFINE p == Payload(writer[w].dir, Written(w))
           e == [files |-> p, meta |-> {Written(w)}]
<1>3. Held(w) = [files |-> p, meta |-> {Written(w)} \ p]
  BY DEF SaversDirectory, OwnDirectory
<1>4. Store(w, e)
  <2>1. [Held(w) EXCEPT !.meta = {Written(w)}] = e
    BY <1>3
  <2> QED
    BY <1>1, <2>1 DEF WriteMeta
<1>5. Written(w) \in Contents
  BY <1>2 DEF Written, Contents, Save
<1>6. /\ e \in VersionEntry /\ \A f, g \in e.files \cup e.meta : f = g
      /\ writer[w].dir \in Clashing \/ e.files = e.meta
      /\ Held(w).meta # {} => e.meta = Held(w).meta
  BY <1>3, <1>5 DEF VersionEntry, Payload
<1> HIDE DEF e, p
<1>7. /\ DOMAIN disk' = Dirs
      /\ \A d \in Dirs : \A v \in DOMAIN disk'[d] : v \in Nat /\ disk'[d][v] \in VersionEntry
      /\ writer[w].version \in DOMAIN disk'[writer[w].dir]
      /\ disk'[writer[w].dir][writer[w].version] = e
      /\ \A d \in Dirs : d # writer[w].dir => disk'[d] = disk[d]
      /\ VersionsCounted' /\ WholeVersions' /\ TornAreThere' /\ MetaIsThere' /\ LoadsAreWhole'
      /\ \A x \in returned :
           /\ x[1] # writer[w].dir \/ x[2] # writer[w].version
           /\ x[2] \in DOMAIN disk'[x[1]] /\ disk'[x[1]][x[2]] = disk[x[1]][x[2]]
  BY <1>1, <1>2, <1>4, <1>6, SaverStores
<1>8. /\ writer' \in [Writers -> {Idle} \cup Save \cup Delete]
      /\ OneWriter'
      /\ writer'[w] = Idle /\ \A x \in Writers : x # w => writer'[x] = writer[x]
  BY <1>1, <1>2, WriterMoves
<1> DEFINE new == <<writer[w].dir, writer[w].version, writer[w].save>>
<1>9. new \in Dirs \X Nat \X Nat
  BY <1>2 DEF Save
<1>10. StoreTypeOK'
  BY <1>1, <1>7, <1>8, <1>9 DEF StoreTypeOK
<1>11. SaversDirectory'
  <2>1. OwnDirectory(w)'
    BY <1>8 DEF OwnDirectory, At, Idle
  <2>2. \A x \in Writers : x # w => OwnDirectory(x)'
    BY <1>1, <1>2, <1>7, <1>8, OthersDirectory DEF StoreTypeOK
  <2> QED
    BY <2>1, <2>2 DEF SaversDirectory
<1>12. ReturnedAreStored'
  <2>1. \A x \in returned :
          /\ x[2] \in DOMAIN disk'[x[1]]
          /\ \E k \in Kinds : LET c == [kind |-> k, save |-> x[3]]
                              IN disk'[x[1]][x[2]] = [files |-> Payload(x[1], c), meta |-> {c}]
    BY <1>7 DEF ReturnedAreStored
  <2>2. /\ new[2] \in DOMAIN disk'[new[1]]
        /\ \E k \in Kinds : LET c == [kind |-> k, save |-> new[3]]
                            IN disk'[new[1]][new[2]] = [files |-> Payload(new[1], c), meta |-> {c}]
    <3>1. writer[w].kind \in Kinds
      BY <1>2 DEF Save
    <3>2. disk'[new[1]][new[2]] =
            [files |-> Payload(new[1], [kind |-> writer[w].kind, save |-> new[3]]),
             meta |-> {[kind |-> writer[w].kind, save |-> new[3]]}]
      BY <1>7 DEF e, p, Written
    <3> QED
      BY <1>7, <3>1, <3>2
  <2> HIDE DEF new
  <2>3. \A x \in returned' : x \in returned \/ x = new
    BY <1>1 DEF new
  <2> QED
    BY <2>1, <2>2, <2>3 DEF ReturnedAreStored
<1>13. DeletesAreKnown'
  <2>1. \A x \in Writers : At(x, "delete")' => x # w /\ At(x, "delete") /\ writer'[x] = writer[x]
    BY <1>8 DEF At, Idle
  <2>2. \A x \in Writers : At(x, "delete") => writer[x].dir # writer[w].dir
    BY <1>2 DEF OneWriter, At, Saving
  <2>3. \A x \in returned' : x \in returned \/ x[1] = writer[w].dir
    BY <1>1
  <2> QED
    BY <1>1, <2>1, <2>2, <2>3 DEF DeletesAreKnown
<1> QED
  BY <1>7, <1>8, <1>10, <1>11, <1>12, <1>13

LEMMA SaveFileStep ==
  ASSUME StoreIInv, NEW w \in Writers, SaveFile(w)
  PROVE  StoreIInv'
BY SaveContentStep, SaveMetaStep DEF SaveFile, At

LEMMA DeleteBeginStep ==
  ASSUME Serial, StoreIInv, NEW w \in Writers, DeleteBegin(w)
  PROVE  StoreIInv'
<1> USE DEF StoreIInv
<1>1. At(w, "idle") /\ UNCHANGED <<disk, reader, saves, torn>>
  BY DEF DeleteBegin
<1>2. PICK d \in Dirs :
        /\ ~Busy(d)
        /\ writer' = [writer EXCEPT ![w] = [pc |-> "delete", dir |-> d]]
        /\ returned' = {x \in returned : x[1] # d}
        /\ deleting' = [r \in Readers |-> deleting[r] \cup {d}]
  <2>1. \A s \in Sessions, f \in Files : ArtifactDir(s, f) \in Dirs
    BY DEF Dirs
  <2> QED
    BY <2>1, Zenon DEF DeleteBegin
<1> DEFINE new == [pc |-> "delete", dir |-> d]
<1>3. new \in Delete /\ new.dir = d
  BY DEF Delete
<1>4. /\ writer' \in [Writers -> {Idle} \cup Save \cup Delete]
      /\ OneWriter'
      /\ writer'[w] = new /\ \A x \in Writers : x # w => writer'[x] = writer[x]
  BY <1>1, <1>2, <1>3, WriterBegins
<1>5. \A r \in Readers : deleting'[r] = deleting[r] \cup {d}
  BY <1>2
<1>6. StoreTypeOK'
  <2>1. returned' \subseteq Dirs \X Nat \X Nat
    BY <1>2 DEF StoreTypeOK
  <2>2. deleting' \in [Readers -> SUBSET Dirs]
    BY <1>2 DEF StoreTypeOK
  <2> QED
    BY <1>1, <1>4, <2>1, <2>2 DEF StoreTypeOK
<1>7. VersionsCounted'
  BY <1>1 DEF VersionsCounted
<1>8. WholeVersions' /\ TornAreThere'
  BY <1>1 DEF WholeVersions, TornAreThere
<1>9. ReturnedAreStored'
  BY <1>1, <1>2 DEF ReturnedAreStored
<1>10. MetaIsThere' /\ LoadsAreWhole'
  BY <1>1, <1>5 DEF MetaIsThere, LoadsAreWhole
<1>11. SaversDirectory'
  <2>1. OwnDirectory(w)'
    BY <1>4 DEF OwnDirectory, At
  <2>2. \A x \in Writers : x # w => OwnDirectory(x)'
    <3>1. \A y \in returned' : y \in returned
      BY <1>2
    <3> QED
      BY <1>1, <1>4, <3>1, OthersDirectory DEF StoreTypeOK
  <2> QED
    BY <2>1, <2>2 DEF SaversDirectory
<1>12. DeletesAreKnown'
  <2> SUFFICES ASSUME NEW x \in Writers, At(x, "delete")'
               PROVE  /\ \A y \in returned' : y[1] # writer'[x].dir
                      /\ \A r \in Readers : writer'[x].dir \in deleting'[r]
    BY DEF DeletesAreKnown
  <2>1. CASE x = w
    BY <1>2, <1>4, <1>5, <2>1
  <2>2. CASE x # w
    BY <1>2, <1>4, <1>5, <2>2 DEF DeletesAreKnown, At
  <2> QED
    BY <2>1, <2>2
<1> QED
  BY <1>4, <1>6, <1>7, <1>8, <1>9, <1>10, <1>11, <1>12

\* A Delete touches its own directory, which the others have to do without.
LEMMA DeleterRemoves ==
  ASSUME StoreIInv, NEW w \in Writers, At(w, "delete"),
         UNCHANGED <<writer, reader, saves, returned, deleting>>,
         \A d \in Dirs : d # writer[w].dir =>
           disk'[d] = disk[d] /\ \A v : <<d, v>> \in torn' <=> <<d, v>> \in torn
  PROVE  OneWriter' /\ SaversDirectory' /\ ReturnedAreStored' /\ DeletesAreKnown' /\ MetaIsThere' /\ LoadsAreWhole'
<1> USE DEF StoreIInv
<1>1. OneWriter' /\ DeletesAreKnown'
  BY DEF OneWriter, DeletesAreKnown, At
<1>2. \A r \in Readers : writer[w].dir \in deleting[r]
  BY DEF DeletesAreKnown
<1>3. SaversDirectory'
  <2>1. OwnDirectory(w)'
    BY DEF OwnDirectory, At
  <2>2. saves' \in Nat /\ saves' >= saves
    BY DEF StoreTypeOK
  <2>3. \A d \in Dirs : At(w, "idle") \/ d # writer[w].dir =>
          disk'[d] = disk[d] /\ \A v : <<d, v>> \in torn' => <<d, v>> \in torn
    BY DEF At
  <2>4. \A x \in Writers : x # w => OwnDirectory(x)'
    BY <2>2, <2>3, OthersDirectory
  <2> QED
    BY <2>1, <2>4 DEF SaversDirectory
<1>4. ReturnedAreStored'
  <2>1. \A x \in returned : x[1] \in Dirs /\ x[1] # writer[w].dir
    BY DEF DeletesAreKnown, StoreTypeOK
  <2>2. \A x \in returned : disk'[x[1]] = disk[x[1]]
    BY <2>1
  <2> QED
    BY <2>2 DEF ReturnedAreStored
<1>5. \A r \in Readers : reader[r].pc # "idle" /\ reader[r].dir \notin deleting[r] =>
        /\ disk'[reader[r].dir] = disk[reader[r].dir]
        /\ \A v : <<reader[r].dir, v>> \in torn' <=> <<reader[r].dir, v>> \in torn
  BY <1>2, ReaderKinds
<1>6. MetaIsThere'
  BY <1>5 DEF MetaIsThere
<1>7. LoadsAreWhole'
  BY <1>5 DEF LoadsAreWhole
<1> QED
  BY <1>1, <1>3, <1>4, <1>6, <1>7

LEMMA RemoveFileStep ==
  ASSUME StoreIInv, NEW w \in Writers, RemoveFile(w)
  PROVE  StoreIInv'
<1> USE DEF StoreIInv
<1> DEFINE d == writer[w].dir
<1>1. At(w, "delete") /\ UNCHANGED <<writer, reader, saves, returned, deleting>>
  BY DEF RemoveFile
<1>2. d \in Dirs
  BY <1>1, WriterKinds DEF At
<1>3. PICK v \in DOMAIN disk[d] :
        \/ \E f \in disk[d][v].files : /\ StoreAt(d, v, [disk[d][v] EXCEPT !.files = @ \ {f}])
                                       /\ torn' = torn \cup {<<d, v>>}
        \/ StoreAt(d, v, [disk[d][v] EXCEPT !.meta = {}]) /\ torn' = torn
  BY DEF RemoveFile, ListVersions
<1>4. disk[d][v] \in VersionEntry /\ v \in Nat
  BY <1>2 DEF StoreTypeOK
<1>5. PICK e : /\ StoreAt(d, v, e) /\ e \in VersionEntry
               /\ e.files \subseteq disk[d][v].files /\ e.meta \subseteq disk[d][v].meta
               /\ \/ torn' = torn \cup {<<d, v>>}
                  \/ torn' = torn /\ e.meta = {}
  <2>1. ASSUME NEW f \in disk[d][v].files,
               StoreAt(d, v, [disk[d][v] EXCEPT !.files = @ \ {f}]), torn' = torn \cup {<<d, v>>}
        PROVE  \E e : /\ StoreAt(d, v, e) /\ e \in VersionEntry
                      /\ e.files \subseteq disk[d][v].files /\ e.meta \subseteq disk[d][v].meta
                      /\ torn' = torn \cup {<<d, v>>}
    <3> DEFINE e == [disk[d][v] EXCEPT !.files = @ \ {f}]
    <3>1. e \in VersionEntry /\ e.files \subseteq disk[d][v].files /\ e.meta \subseteq disk[d][v].meta
      BY <1>4 DEF VersionEntry
    <3> HIDE DEF e
    <3>2. StoreAt(d, v, e)
      BY <2>1 DEF e
    <3> QED
      BY <2>1, <3>1, <3>2
  <2>2. ASSUME StoreAt(d, v, [disk[d][v] EXCEPT !.meta = {}]), torn' = torn
        PROVE  \E e : /\ StoreAt(d, v, e) /\ e \in VersionEntry
                      /\ e.files \subseteq disk[d][v].files /\ e.meta \subseteq disk[d][v].meta
                      /\ torn' = torn /\ e.meta = {}
    <3> DEFINE e == [disk[d][v] EXCEPT !.meta = {}]
    <3>1. e \in VersionEntry /\ e.files \subseteq disk[d][v].files /\ e.meta = {}
      BY <1>4 DEF VersionEntry
    <3> HIDE DEF e
    <3>2. StoreAt(d, v, e)
      BY <2>2 DEF e
    <3> QED
      BY <2>2, <3>1, <3>2
  <2> QED
    BY <1>3, <2>1, <2>2
<1> HIDE DEF d
<1>6. /\ DOMAIN disk' = Dirs
      /\ \A c \in Dirs : c # d => disk'[c] = disk[c]
      /\ disk'[d] = [u \in DOMAIN disk[d] \cup {v} |-> IF u = v THEN e ELSE disk[d][u]]
  BY <1>2, <1>5 DEF StoreAt, StoreTypeOK
<1>7. /\ DOMAIN disk'[d] = DOMAIN disk[d] /\ disk'[d][v] = e
      /\ \A u \in DOMAIN disk[d] : u # v => disk'[d][u] = disk[d][u]
  BY <1>6
<1>8. \A c \in Dirs : \A u \in DOMAIN disk'[c] :
        /\ u \in DOMAIN disk[c]
        /\ \/ c = d /\ u = v /\ disk'[c][u] = e
           \/ disk'[c][u] = disk[c][u]
  BY <1>6, <1>7
<1>9. StoreTypeOK'
  <2>1. \A c \in Dirs : \A u \in DOMAIN disk'[c] : u \in Nat /\ disk'[c][u] \in VersionEntry
    BY <1>5, <1>8 DEF StoreTypeOK
  <2>2. torn' \subseteq Dirs \X Nat
    BY <1>2, <1>4, <1>5 DEF StoreTypeOK
  <2> QED
    BY <1>1, <1>6, <2>1, <2>2 DEF StoreTypeOK
<1>10. VersionsCounted'
  BY <1>1, <1>8 DEF VersionsCounted
<1>11. WholeVersions'
  <2> SUFFICES ASSUME NEW c \in Dirs, NEW u \in DOMAIN disk'[c]
               PROVE  /\ \A f, g \in disk'[c][u].files \cup disk'[c][u].meta : f = g
                      /\ disk'[c][u].meta # {} /\ <<c, u>> \notin torn' =>
                           c \in Clashing \/ disk'[c][u].files = disk'[c][u].meta
    BY DEF WholeVersions
  <2>1. /\ \A f, g \in disk[c][u].files \cup disk[c][u].meta : f = g
        /\ disk[c][u].meta # {} /\ <<c, u>> \notin torn => c \in Clashing \/ disk[c][u].files = disk[c][u].meta
    BY <1>8 DEF WholeVersions
  <2>2. CASE c = d /\ u = v /\ disk'[c][u] = e
    BY <1>5, <2>1, <2>2
  <2>3. CASE disk'[c][u] = disk[c][u]
    BY <1>5, <2>1, <2>3
  <2> QED
    BY <1>8, <2>2, <2>3
<1>12. TornAreThere'
  <2>1. \A x \in torn' : x \in torn \/ x = <<d, v>>
    BY <1>5
  <2>2. \A x \in torn : x[1] \in Dirs /\ x[2] \in DOMAIN disk[x[1]]
    BY DEF TornAreThere, StoreTypeOK
  <2> QED
    BY <1>6, <1>7, <2>1, <2>2 DEF TornAreThere
<1>13. OneWriter' /\ SaversDirectory' /\ ReturnedAreStored' /\ DeletesAreKnown' /\ MetaIsThere' /\ LoadsAreWhole'
  <2>1. \A c \in Dirs : c # d => \A u : <<c, u>> \in torn' <=> <<c, u>> \in torn
    BY <1>5
  <2> QED
    BY <1>1, <1>6, <2>1, DeleterRemoves DEF d
<1> QED
  BY <1>9, <1>10, <1>11, <1>12, <1>13

LEMMA RemoveVersionStep ==
  ASSUME StoreIInv, NEW w \in Writers, RemoveVersion(w)
  PROVE  StoreIInv'
<1> USE DEF StoreIInv
<1> DEFINE d == writer[w].dir
<1>1. At(w, "delete") /\ UNCHANGED <<writer, reader, saves, returned, deleting>>
  BY DEF RemoveVersion
<1>2. d \in Dirs
  BY <1>1, WriterKinds DEF At
<1>3. PICK v \in DOMAIN disk[d] :
        /\ disk' = [disk EXCEPT ![d] = [u \in DOMAIN disk[d] \ {v} |-> disk[d][u]]]
        /\ torn' = torn \ {<<d, v>>}
  BY DEF RemoveVersion, ListVersions
<1> HIDE DEF d
<1>4. /\ DOMAIN disk' = Dirs
      /\ \A c \in Dirs : c # d => disk'[c] = disk[c]
      /\ disk'[d] = [u \in DOMAIN disk[d] \ {v} |-> disk[d][u]]
  BY <1>2, <1>3 DEF StoreTypeOK
<1>5. \A c \in Dirs : \A u \in DOMAIN disk'[c] :
        /\ u \in DOMAIN disk[c] /\ disk'[c][u] = disk[c][u]
        /\ <<c, u>> # <<d, v>>
  BY <1>4
<1>6. StoreTypeOK'
  <2>1. \A c \in Dirs : \A u \in DOMAIN disk'[c] : u \in Nat /\ disk'[c][u] \in VersionEntry
    BY <1>5 DEF StoreTypeOK
  <2>2. torn' \subseteq Dirs \X Nat
    BY <1>3 DEF StoreTypeOK
  <2> QED
    BY <1>1, <1>4, <2>1, <2>2 DEF StoreTypeOK
<1>7. VersionsCounted'
  BY <1>1, <1>5 DEF VersionsCounted
<1>8. WholeVersions'
  <2> SUFFICES ASSUME NEW c \in Dirs, NEW u \in DOMAIN disk'[c]
               PROVE  /\ \A f, g \in disk'[c][u].files \cup disk'[c][u].meta : f = g
                      /\ disk'[c][u].meta # {} /\ <<c, u>> \notin torn' =>
                           c \in Clashing \/ disk'[c][u].files = disk'[c][u].meta
    BY DEF WholeVersions
  <2>1. u \in DOMAIN disk[c] /\ disk'[c][u] = disk[c][u] /\ (<<c, u>> \in torn => <<c, u>> \in torn')
    BY <1>3, <1>5
  <2> QED
    BY <2>1 DEF WholeVersions
<1>9. TornAreThere'
  <2>1. \A x \in torn' : x \in torn /\ x # <<d, v>> /\ x[1] \in Dirs /\ x = <<x[1], x[2]>>
    BY <1>3 DEF StoreTypeOK
  <2>2. \A x \in torn : x[2] \in DOMAIN disk[x[1]]
    BY DEF TornAreThere
  <2>3. \A c \in Dirs : \A u \in DOMAIN disk[c] : <<c, u>> # <<d, v>> => u \in DOMAIN disk'[c]
    BY <1>4
  <2> QED
    BY <2>1, <2>2, <2>3 DEF TornAreThere
<1>10. OneWriter' /\ SaversDirectory' /\ ReturnedAreStored' /\ DeletesAreKnown' /\ MetaIsThere' /\ LoadsAreWhole'
  <2>1. \A c \in Dirs : c # d => \A u : <<c, u>> \in torn' <=> <<c, u>> \in torn
    BY <1>3
  <2> QED
    BY <1>1, <1>4, <2>1, DeleterRemoves DEF d
<1> QED
  BY <1>6, <1>7, <1>8, <1>9, <1>10

\* A Load moves on; what it takes with it was on the disk.
LEMMA ReaderMoves ==
  ASSUME StoreIInv, NEW r \in Readers,
         UNCHANGED <<disk, writer, saves, returned, torn>>,
         NEW new \in {Idle} \cup Resolved \cup Described \cup Loaded \cup NotLoaded,
         reader' = [reader EXCEPT ![r] = new],
         deleting' \in [Readers -> SUBSET Dirs],
         \A x \in Readers : x # r => deleting'[x] = deleting[x],
         \A w \in Writers : At(w, "delete") => writer[w].dir \in deleting'[r],
         new.pc = "content" /\ new.dir \notin deleting'[r] =>
           /\ new.version \in DOMAIN disk[new.dir]
           /\ disk[new.dir][new.version].meta = {new.meta},
         new.pc \in {"loaded", "missing"} /\ new.dir \notin deleting'[r] =>
           \/ new.pc = "loaded" /\ new.content = new.meta
           \/ new.pc = "missing" /\ (<<new.dir, new.version>> \in torn \/ new.dir \in Clashing)
  PROVE  StoreIInv'
<1> USE DEF StoreIInv
<1>1. reader'[r] = new /\ \A x \in Readers : x # r => reader'[x] = reader[x] /\ deleting'[x] = deleting[x]
  BY DEF StoreTypeOK
<1>2. StoreTypeOK'
  <2>1. reader' \in [Readers -> {Idle} \cup Resolved \cup Described \cup Loaded \cup NotLoaded]
    BY DEF StoreTypeOK
  <2> QED
    BY <2>1 DEF StoreTypeOK
<1>3. VersionsCounted' /\ WholeVersions' /\ TornAreThere'
  BY DEF VersionsCounted, WholeVersions, TornAreThere
<1>4. OneWriter'
  BY DEF OneWriter, At
<1>5. SaversDirectory'
  BY DEF SaversDirectory, OwnDirectory, At, There, Held, Written, ListVersions
<1>6. ReturnedAreStored'
  BY DEF ReturnedAreStored
<1>7. DeletesAreKnown'
  BY <1>1 DEF DeletesAreKnown, At
<1>8. MetaIsThere'
  <2>1. MetaIsThere
    OBVIOUS
  <2> HIDE DEF StoreIInv
  <2> SUFFICES ASSUME NEW x \in Readers, reader'[x].pc = "content", reader'[x].dir \notin deleting'[x]
               PROVE  /\ reader'[x].version \in DOMAIN disk[reader'[x].dir]
                      /\ disk[reader'[x].dir][reader'[x].version].meta = {reader'[x].meta}
    BY DEF MetaIsThere
  <2>2. CASE x = r
    BY <1>1, <2>2
  <2>3. CASE x # r
    BY <1>1, <2>1, <2>3 DEF MetaIsThere
  <2> QED
    BY <2>2, <2>3
<1>9. LoadsAreWhole'
  BY <1>1 DEF LoadsAreWhole
<1> QED
  BY <1>2, <1>3, <1>4, <1>5, <1>6, <1>7, <1>8, <1>9

LEMMA LoadResolveStep ==
  ASSUME StoreIInv, NEW r \in Readers, LoadResolve(r)
  PROVE  StoreIInv'
<1> USE DEF StoreIInv
<1>1. /\ UNCHANGED <<disk, writer, saves, returned, torn>>
      /\ deleting' = [deleting EXCEPT ![r] = {writer[w].dir : w \in {x \in Writers : At(x, "delete")}}]
  BY DEF LoadResolve
<1>2. PICK d \in Dirs, v \in 0..(MaxSaves - 1) :
        /\ v # 0 \/ ListVersions(d) # {}
        /\ reader' = [reader EXCEPT ![r] = [pc |-> "meta", dir |-> d,
                        version |-> IF v = 0 THEN LatestVersion(d) ELSE v]]
  <2>1. \A s \in Sessions, f \in Files : ArtifactDir(s, f) \in Dirs
    BY DEF Dirs
  <2> QED
    BY <2>1, Zenon DEF LoadResolve
<1> DEFINE new == [pc |-> "meta", dir |-> d, version |-> IF v = 0 THEN LatestVersion(d) ELSE v]
<1>3. v \in Nat
  BY StoreAssumption
<1>4. v = 0 => LatestVersion(d) \in Nat
  <2>1. saves \in Nat /\ DOMAIN disk[d] \subseteq Nat /\ \A u \in DOMAIN disk[d] : u < saves
    BY DEF StoreTypeOK, VersionsCounted
  <2>2. v = 0 => DOMAIN disk[d] # {}
    BY <1>2 DEF ListVersions
  <2> QED
    BY <2>1, <2>2, MaxOf DEF LatestVersion, ListVersions
<1>5. new \in Resolved /\ new.pc = "meta"
  BY <1>3, <1>4 DEF Resolved
<1>6. \A w \in Writers : At(w, "delete") => writer[w].dir \in Dirs
  BY WriterKinds DEF At
<1>7. deleting' \in [Readers -> SUBSET Dirs] /\ \A x \in Readers : x # r => deleting'[x] = deleting[x]
  BY <1>1, <1>6 DEF StoreTypeOK
<1>8. \A w \in Writers : At(w, "delete") => writer[w].dir \in deleting'[r]
  BY <1>1 DEF StoreTypeOK
<1> QED
  BY <1>1, <1>2, <1>5, <1>7, <1>8, ReaderMoves

\* A Load ends with an error.
LEMMA ReaderGivesUp ==
  ASSUME StoreIInv, NEW r \in Readers, reader' = [reader EXCEPT ![r] = Idle],
         UNCHANGED <<disk, writer, saves, returned, torn, deleting>>
  PROVE  StoreIInv'
<1> USE DEF StoreIInv
<1>1. Idle.pc = "idle"
  BY DEF Idle
<1>2. /\ deleting' \in [Readers -> SUBSET Dirs]
      /\ \A x \in Readers : x # r => deleting'[x] = deleting[x]
      /\ \A w \in Writers : At(w, "delete") => writer[w].dir \in deleting'[r]
  BY DEF StoreTypeOK, DeletesAreKnown
<1> QED
  BY <1>1, <1>2, ReaderMoves

\* A Load that goes on knows of the Deletes it knew of.
LEMMA LoadMetaStep ==
  ASSUME StoreIInv, NEW r \in Readers, LoadMeta(r)
  PROVE  StoreIInv'
<1> USE DEF StoreIInv
<1> DEFINE d == reader[r].dir
           v == reader[r].version
<1>1. UNCHANGED <<disk, writer, saves, returned, torn, deleting>> /\ reader[r].pc = "meta"
  BY DEF LoadMeta, historyVars
<1>2. d \in Dirs /\ v \in Nat
  BY <1>1, ReaderKinds
<1>3. /\ deleting' \in [Readers -> SUBSET Dirs]
      /\ \A x \in Readers : x # r => deleting'[x] = deleting[x]
      /\ \A w \in Writers : At(w, "delete") => writer[w].dir \in deleting'[r]
  BY <1>1 DEF StoreTypeOK, DeletesAreKnown
<1>4. CASE Entry(r).meta = {}
  <2>1. reader' = [reader EXCEPT ![r] = Idle]
    BY <1>4 DEF LoadMeta
  <2> HIDE DEF d, v
  <2> QED
    BY <1>1, <2>1, ReaderGivesUp
<1>5. CASE Entry(r).meta # {}
  <2>1. v \in DOMAIN disk[d] /\ Entry(r) = disk[d][v]
    BY <1>5 DEF Entry, ListVersions, Empty
  <2> DEFINE m == CHOOSE m \in Entry(r).meta : TRUE
             new == [pc |-> "content", dir |-> d, version |-> v, meta |-> m]
  <2>2. m \in disk[d][v].meta
    BY <1>5, <2>1
  <2>3. reader' = [reader EXCEPT ![r] = new]
    BY <1>5 DEF LoadMeta
  <2> HIDE DEF m
  <2>4. m \in Contents
    <3>1. disk[d][v] \in VersionEntry
      BY <1>2, <2>1 DEF StoreTypeOK
    <3> QED
      BY <2>2, <3>1 DEF VersionEntry
  <2>5. disk[d][v].meta = {m}
    <3>1. \A f, g \in disk[d][v].files \cup disk[d][v].meta : f = g
      BY <1>2, <2>1 DEF WholeVersions
    <3>2. \A f \in disk[d][v].meta : f = m
      BY <2>2, <3>1
    <3> QED
      BY <2>2, <3>2
  <2>6. new \in Described /\ new.pc = "content" /\ new.dir = d /\ new.version = v /\ new.meta = m
    BY <1>2, <2>4 DEF Described
  <2> HIDE DEF new, d, v
  <2> QED
    BY <1>1, <1>3, <2>1, <2>3, <2>5, <2>6, ReaderMoves
<1> QED
  BY <1>4, <1>5

LEMMA LoadContentStep ==
  ASSUME StoreIInv, NEW r \in Readers, LoadContent(r)
  PROVE  StoreIInv'
<1> USE DEF StoreIInv
<1> DEFINE d == reader[r].dir
           v == reader[r].version
           m == reader[r].meta
<1>1. UNCHANGED <<disk, writer, saves, returned, torn, deleting>> /\ reader[r].pc = "content"
  BY DEF LoadContent, historyVars
<1>2. d \in Dirs /\ v \in Nat /\ m \in Contents
  BY <1>1, ReaderKinds DEF Described
<1>3. /\ deleting' \in [Readers -> SUBSET Dirs]
      /\ \A x \in Readers : x # r => deleting'[x] = deleting[x]
      /\ \A w \in Writers : At(w, "delete") => writer[w].dir \in deleting'[r]
  BY <1>1 DEF StoreTypeOK, DeletesAreKnown
<1>4. Entry(r) \in VersionEntry
  BY <1>2 DEF Entry, ListVersions, Empty, VersionEntry, StoreTypeOK
<1>5. d \notin deleting[r] =>
        /\ v \in DOMAIN disk[d] /\ Entry(r) = disk[d][v]
        /\ disk[d][v].meta = {m}
        /\ \A f \in disk[d][v].files : f = m
        /\ <<d, v>> \in torn \/ d \in Clashing \/ disk[d][v].files = {m}
  <2>1. ASSUME d \notin deleting[r]
        PROVE  v \in DOMAIN disk[d] /\ Entry(r) = disk[d][v] /\ disk[d][v].meta = {m}
    BY <1>1, <2>1 DEF MetaIsThere, Entry, ListVersions
  <2>2. ASSUME d \notin deleting[r]
        PROVE  /\ \A f \in disk[d][v].files : f = m
               /\ <<d, v>> \in torn \/ d \in Clashing \/ disk[d][v].files = {m}
    <3>1. v \in DOMAIN disk[d] /\ disk[d][v].meta = {m}
      BY <2>1, <2>2
    <3>2. /\ \A f, g \in disk[d][v].files \cup disk[d][v].meta : f = g
          /\ disk[d][v].meta # {} /\ <<d, v>> \notin torn => d \in Clashing \/ disk[d][v].files = disk[d][v].meta
      BY <1>2, <3>1 DEF WholeVersions
    <3> HIDE DEF StoreIInv, d, v, m
    <3> QED
      BY <3>1, <3>2
  <2> QED
    BY <2>1, <2>2
<1>6. CASE Entry(r).files = {}
  <2> DEFINE new == [pc |-> "missing", dir |-> d, version |-> v]
  <2>1. new \in NotLoaded /\ new.pc = "missing" /\ new.dir = d /\ new.version = v
    BY <1>2 DEF NotLoaded
  <2>2. reader' = [reader EXCEPT ![r] = new]
    BY <1>6 DEF LoadContent
  <2>3. d \notin deleting[r] => <<d, v>> \in torn \/ d \in Clashing
    BY <1>5, <1>6
  <2> HIDE DEF new, d, v, m
  <2> QED
    BY <1>1, <1>3, <2>1, <2>2, <2>3, ReaderMoves
<1>7. CASE Entry(r).files # {}
  <2> DEFINE f == First(Entry(r).files)
             new == [pc |-> "loaded", dir |-> d, version |-> v, meta |-> m, content |-> f]
  <2>1. f \in Entry(r).files
    <3>1. \A g \in Entry(r).files : g.kind \in Kinds
      BY <1>4 DEF VersionEntry, Contents
    <3>2. \E h \in Entry(r).files : h.kind = "blob" \/ \A g \in Entry(r).files : g.kind = "text"
      BY <1>7, <3>1 DEF Kinds
    <3> QED
      BY <3>2 DEF First
  <2>2. reader' = [reader EXCEPT ![r] = new]
    BY <1>7 DEF LoadContent
  <2> HIDE DEF f
  <2>3. f \in Contents
    BY <1>4, <2>1 DEF VersionEntry
  <2>4. d \notin deleting[r] => f = m
    BY <1>5, <2>1
  <2>5. /\ new \in Loaded /\ new.pc = "loaded" /\ new.dir = d /\ new.version = v
        /\ new.meta = m /\ new.content = f
    BY <1>2, <2>3 DEF Loaded
  <2> HIDE DEF new, d, v, m
  <2> QED
    BY <1>1, <1>3, <2>2, <2>4, <2>5, ReaderMoves
<1> QED
  BY <1>6, <1>7

\* A crash ends everything; what is said of the disk does not depend on what was going on.
LEMMA StoreCrashStep ==
  ASSUME StoreIInv, StoreCrash
  PROVE  StoreIInv'
<1> USE DEF StoreIInv
<1>1. /\ UNCHANGED <<disk, saves, returned, deleting, torn>>
      /\ writer' = [w \in Writers |-> Idle] /\ reader' = [r \in Readers |-> Idle]
  BY DEF StoreCrash, historyVars
<1>2. \A w \in Writers : writer'[w].pc = "idle"
  BY <1>1 DEF Idle
<1>3. \A r \in Readers : reader'[r].pc = "idle"
  BY <1>1 DEF Idle
<1>4. StoreTypeOK'
  BY <1>1 DEF StoreTypeOK
<1>5. VersionsCounted' /\ WholeVersions' /\ TornAreThere'
  BY <1>1 DEF VersionsCounted, WholeVersions, TornAreThere
<1>6. ReturnedAreStored'
  BY <1>1 DEF ReturnedAreStored
<1>7. OneWriter' /\ SaversDirectory' /\ DeletesAreKnown'
  BY <1>2 DEF OneWriter, SaversDirectory, OwnDirectory, DeletesAreKnown, At
<1>8. MetaIsThere' /\ LoadsAreWhole'
  BY <1>3 DEF MetaIsThere, LoadsAreWhole
<1> QED
  BY <1>4, <1>5, <1>6, <1>7, <1>8

LEMMA StoreSteps ==
  ASSUME Serial, StoreIInv, StoreNext \/ StoreCrash \/ UNCHANGED storeVars
  PROVE  StoreIInv'
<1>1. ASSUME NEW w \in Writers, SaveList(w) \/ SaveMkdir(w) \/ SaveFile(w) PROVE StoreIInv'
  BY <1>1, SaveListStep, SaveMkdirStep, SaveFileStep
<1>2. ASSUME NEW w \in Writers, SaveFails(w) PROVE StoreIInv'
  BY <1>2, WriterStops DEF SaveFails, At
<1>3. ASSUME NEW w \in Writers, DeleteBegin(w) \/ RemoveFile(w) \/ RemoveVersion(w) PROVE StoreIInv'
  BY <1>3, DeleteBeginStep, RemoveFileStep, RemoveVersionStep
<1>4. ASSUME NEW w \in Writers, DeleteEnd(w) PROVE StoreIInv'
  BY <1>4, WriterStops DEF DeleteEnd, At
<1>5. ASSUME NEW r \in Readers, LoadResolve(r) \/ LoadMeta(r) \/ LoadContent(r) PROVE StoreIInv'
  BY <1>5, LoadResolveStep, LoadMetaStep, LoadContentStep
<1>8. ASSUME NEW r \in Readers, LoadFails(r) PROVE StoreIInv'
  BY <1>8, ReaderGivesUp DEF LoadFails, historyVars
<1>6. CASE UNCHANGED storeVars
  <2>1. UNCHANGED <<disk, writer, reader, saves, returned, deleting, torn>>
    BY <1>6 DEF storeVars, historyVars
  <2>2. WholeVersions' /\ TornAreThere' /\ ReturnedAreStored' /\ MetaIsThere' /\ LoadsAreWhole'
    BY <2>1, QuietDisk
  <2>3. StoreTypeOK' /\ VersionsCounted'
    BY <2>1 DEF StoreIInv, StoreTypeOK, VersionsCounted
  <2>4. OneWriter' /\ SaversDirectory' /\ DeletesAreKnown'
    BY <2>1 DEF StoreIInv, OneWriter, SaversDirectory, OwnDirectory, DeletesAreKnown, At, There, Held,
       Written, ListVersions
  <2> QED
    BY <2>2, <2>3, <2>4 DEF StoreIInv
<1>7. CASE StoreCrash
  BY <1>7, StoreCrashStep
<1> QED
  BY <1>1, <1>2, <1>3, <1>4, <1>5, <1>6, <1>7, <1>8 DEF StoreNext

-----------------------------------------------------------------------------
(* The rewind.                                                             *)

Events(id) == sessions[id].events
Distinct(s) == \A i, j \in DOMAIN s : s[i] = s[j] => i = j
Copied == SubSeq(rewind.kept, 1, rewind.copied)

RewindTypeOK ==
  /\ temps \in Nat /\ appended \in Nat
  /\ \A id \in DOMAIN sessions : id \in 0..temps /\ Events(id) \in Seq(Nat)
  /\ rewind \in [pc : {"none", "copy", "delete", "recreate", "refill", "cleanup"},
                 kept : Seq(Nat), temp : Nat, copied : Nat]
  /\ keptLast \in Seq(Nat)

\* Events are numbered once: the agent's next is new to the session and to the kept ones.
EventsAreDistinct ==
  /\ Exists(Original) => Distinct(Events(Original)) /\ \A n \in DOMAIN Events(Original) : Events(Original)[n] <= appended
  /\ Distinct(keptLast) /\ \A i \in DOMAIN keptLast : keptLast[i] <= appended

\* Where the events to keep are while a rewind is under way.
KeptDuringRewind ==
  /\ rewind.pc # "none" =>
       rewind.kept = keptLast /\ rewind.temp \in 1..temps /\ rewind.copied <= Len(keptLast)
  /\ rewind.pc \in {"delete", "recreate"} => rewind.copied = 0
  /\ rewind.pc = "copy" =>
       /\ Exists(Original) /\ Within(keptLast, Events(Original))
       /\ Exists(rewind.temp) /\ Events(rewind.temp) = Copied
  /\ rewind.pc \in {"delete", "recreate", "refill"} =>
       Exists(rewind.temp) /\ Events(rewind.temp) = keptLast
  /\ rewind.pc = "refill" =>
       /\ Exists(Original) /\ Within(Copied, Events(Original))
       /\ \A i \in DOMAIN keptLast : i > rewind.copied =>
            \A n \in DOMAIN Events(Original) : Events(Original)[n] # keptLast[i]
  /\ rewind.pc = "cleanup" => Exists(Original) /\ Within(keptLast, Events(Original))

RewindIInv ==
  /\ RewindTypeOK
  /\ EventsAreDistinct
  /\ KeptDuringRewind
  /\ KeptEventsSurvive

\* The events of a sequence as they are in a longer one.
LEMMA WithinItself ==
  ASSUME NEW s \in Seq(Nat), Distinct(s)
  PROVE  Within(s, s)
<1> DEFINE place == [i \in DOMAIN s |-> i]
<1>1. place \in [DOMAIN s -> DOMAIN s] /\ \A i \in DOMAIN s : place[i] = i
  OBVIOUS
<1> HIDE DEF place
<1> QED
  BY <1>1 DEF Within, Distinct

LEMMA WithinPrefix ==
  ASSUME NEW t \in Seq(Nat), Distinct(t), NEW k \in DOMAIN t
  PROVE  /\ SubSeq(t, 1, k) \in Seq(Nat) /\ Len(SubSeq(t, 1, k)) = k
         /\ \A i \in 1..k : i \in DOMAIN t /\ SubSeq(t, 1, k)[i] = t[i]
         /\ Distinct(SubSeq(t, 1, k))
         /\ Within(SubSeq(t, 1, k), t)
<1> DEFINE s == SubSeq(t, 1, k)
<1>1. /\ s \in Seq(Nat) /\ Len(s) = k /\ DOMAIN s = 1..k /\ DOMAIN t = 1..Len(t) /\ Len(t) \in Nat
      /\ k \in Nat
      /\ \A i \in 1..k : i \in DOMAIN t /\ s[i] = t[i]
  OBVIOUS
<1> HIDE DEF s
<1>2. Distinct(s)
  BY <1>1 DEF Distinct
<1>3. Within(s, t)
  <2> DEFINE place == [i \in DOMAIN s |-> i]
  <2>1. place \in [DOMAIN s -> DOMAIN t] /\ \A i \in DOMAIN s : place[i] = i
    BY <1>1
  <2> HIDE DEF place
  <2>2. \A i \in DOMAIN s : t[place[i]] = s[i]
    BY <1>1, <2>1
  <2>3. \A i, j \in DOMAIN s : i < j => place[i] < place[j]
    BY <2>1
  <2>4. \A n \in DOMAIN t : (\E i \in DOMAIN s : t[n] = s[i]) => \E i \in DOMAIN s : place[i] = n
    BY <1>1, <2>1 DEF Distinct
  <2> QED
    BY <2>1, <2>2, <2>3, <2>4 DEF Within
<1> QED
  BY <1>1, <1>2, <1>3 DEF s

LEMMA WithinMore ==
  ASSUME NEW s \in Seq(Nat), NEW t \in Seq(Nat), Within(s, t),
         NEW e \in Nat, \A i \in DOMAIN s : s[i] # e
  PROVE  Within(s, Append(t, e))
<1> DEFINE u == Append(t, e)
<1>1. /\ DOMAIN t = 1..Len(t) /\ Len(t) \in Nat /\ DOMAIN u = 1..(Len(t) + 1)
      /\ u[Len(t) + 1] = e /\ \A n \in DOMAIN t : u[n] = t[n]
  OBVIOUS
<1> HIDE DEF u
<1>2. PICK place \in [DOMAIN s -> DOMAIN t] :
        /\ \A i \in DOMAIN s : t[place[i]] = s[i]
        /\ \A i, j \in DOMAIN s : i < j => place[i] < place[j]
        /\ \A n \in DOMAIN t : (\E i \in DOMAIN s : t[n] = s[i]) => \E i \in DOMAIN s : place[i] = n
  BY DEF Within
<1>3. place \in [DOMAIN s -> DOMAIN u]
  BY <1>1
<1>4. \A i \in DOMAIN s : u[place[i]] = s[i]
  BY <1>1, <1>2
<1>5. \A n \in DOMAIN u : (\E i \in DOMAIN s : u[n] = s[i]) => \E i \in DOMAIN s : place[i] = n
  <2> SUFFICES ASSUME NEW n \in DOMAIN u, NEW i \in DOMAIN s, u[n] = s[i]
               PROVE  \E k \in DOMAIN s : place[k] = n
    OBVIOUS
  <2>1. n # Len(t) + 1
    BY <1>1
  <2>2. n \in DOMAIN t /\ u[n] = t[n]
    BY <1>1, <2>1
  <2> QED
    BY <1>2, <2>2
<1>6. Within(s, u)
  BY <1>2, <1>3, <1>4, <1>5 DEF Within
<1> QED
  BY <1>6 DEF u

LEMMA WithinBoth ==
  ASSUME NEW s \in Seq(Nat), NEW t \in Seq(Nat), Within(s, t),
         NEW e \in Nat, \A n \in DOMAIN t : t[n] # e
  PROVE  Within(Append(s, e), Append(t, e))
<1> DEFINE v == Append(s, e)
           u == Append(t, e)
<1>1. /\ DOMAIN t = 1..Len(t) /\ Len(t) \in Nat /\ DOMAIN u = 1..(Len(t) + 1)
      /\ u[Len(t) + 1] = e /\ \A n \in DOMAIN t : u[n] = t[n]
  OBVIOUS
<1>2. /\ DOMAIN s = 1..Len(s) /\ Len(s) \in Nat /\ DOMAIN v = 1..(Len(s) + 1)
      /\ v[Len(s) + 1] = e /\ \A n \in DOMAIN s : v[n] = s[n]
  OBVIOUS
<1> HIDE DEF u, v
<1>3. PICK place \in [DOMAIN s -> DOMAIN t] :
        /\ \A i \in DOMAIN s : t[place[i]] = s[i]
        /\ \A i, j \in DOMAIN s : i < j => place[i] < place[j]
        /\ \A n \in DOMAIN t : (\E i \in DOMAIN s : t[n] = s[i]) => \E i \in DOMAIN s : place[i] = n
  BY DEF Within
<1> DEFINE more == [i \in DOMAIN v |-> IF i \in DOMAIN s THEN place[i] ELSE Len(t) + 1]
<1>4. /\ more \in [DOMAIN v -> DOMAIN u]
      /\ \A i \in DOMAIN s : i \in DOMAIN v /\ more[i] = place[i] /\ place[i] \in DOMAIN t
      /\ more[Len(s) + 1] = Len(t) + 1
      /\ \A i \in DOMAIN v : i \in DOMAIN s \/ i = Len(s) + 1
  BY <1>1, <1>2
<1> HIDE DEF more
<1>5. \A i \in DOMAIN v : u[more[i]] = v[i]
  <2> SUFFICES ASSUME NEW i \in DOMAIN v PROVE u[more[i]] = v[i]
    OBVIOUS
  <2>1. CASE i \in DOMAIN s
    <3>1. more[i] = place[i] /\ place[i] \in DOMAIN t /\ t[place[i]] = s[i]
      BY <1>3, <1>4, <2>1
    <3> QED
      BY <1>1, <1>2, <2>1, <3>1
  <2>2. CASE i = Len(s) + 1
    BY <1>1, <1>2, <1>4, <2>2
  <2> QED
    BY <1>4, <2>1, <2>2
<1>6. \A i, j \in DOMAIN v : i < j => more[i] < more[j]
  <2> SUFFICES ASSUME NEW i \in DOMAIN v, NEW j \in DOMAIN v, i < j PROVE more[i] < more[j]
    OBVIOUS
  <2>1. i \in DOMAIN s
    BY <1>2, <1>4
  <2>2. CASE j \in DOMAIN s
    BY <1>3, <1>4, <2>1, <2>2
  <2>3. CASE j = Len(s) + 1
    BY <1>1, <1>4, <2>1, <2>3
  <2> QED
    BY <1>4, <2>2, <2>3
<1>7. ASSUME NEW n \in DOMAIN u, NEW i \in DOMAIN v, u[n] = v[i]
      PROVE  \E k \in DOMAIN v : more[k] = n
  <2>1. CASE n = Len(t) + 1
    <3>1. Len(s) + 1 \in DOMAIN v /\ more[Len(s) + 1] = n
      BY <1>2, <1>4, <2>1
    <3> QED
      BY <3>1
  <2>2. CASE n \in DOMAIN t
    <3>1. u[n] = t[n] /\ t[n] # e
      BY <1>1, <2>2
    <3>2. i \in DOMAIN s /\ t[n] = s[i]
      BY <1>2, <1>4, <1>7, <3>1
    <3>3. PICK k \in DOMAIN s : place[k] = n
      BY <1>3, <2>2, <3>2
    <3> QED
      BY <1>4, <3>3
  <2> QED
    BY <1>1, <2>1, <2>2
<1>8. Within(v, u)
  BY <1>4, <1>5, <1>6, <1>7 DEF Within
<1> QED
  BY <1>8 DEF u, v

\* A session is written or removed; the others stay.
LEMMA PutFacts ==
  ASSUME NEW id, NEW s, Put(id, s)
  PROVE  /\ DOMAIN sessions' = DOMAIN sessions \cup {id}
         /\ sessions'[id] = s
         /\ \A x \in DOMAIN sessions : x # id => sessions'[x] = sessions[x] /\ Events(x)' = Events(x)
BY DEF Put, Events

LEMMA DropFacts ==
  ASSUME NEW id, Drop(id)
  PROVE  /\ DOMAIN sessions' = DOMAIN sessions \ {id}
         /\ \A x \in DOMAIN sessions : x # id => sessions'[x] = sessions[x] /\ Events(x)' = Events(x)
BY DEF Drop, Events

LEMMA RewindTypes ==
  ASSUME RewindTypeOK
  PROVE  /\ rewind.pc \in {"none", "copy", "delete", "recreate", "refill", "cleanup"}
         /\ rewind.kept \in Seq(Nat) /\ rewind.temp \in Nat /\ rewind.copied \in Nat
         /\ keptLast \in Seq(Nat) /\ DOMAIN keptLast = 1..Len(keptLast) /\ Len(keptLast) \in Nat
         /\ \A id \in DOMAIN sessions : Events(id) \in Seq(Nat)
         /\ temps \in Nat /\ appended \in Nat
BY DEF RewindTypeOK

\* What has been copied is a prefix of what is to be kept.
LEMMA CopiedFacts ==
  ASSUME RewindTypeOK, KeptDuringRewind, rewind.pc # "none"
  PROVE  /\ rewind.kept = keptLast /\ rewind.copied \in Nat /\ rewind.copied <= Len(keptLast)
         /\ Copied \in Seq(Nat) /\ DOMAIN Copied = 1..rewind.copied
         /\ \A i \in 1..rewind.copied : i \in DOMAIN keptLast /\ Copied[i] = keptLast[i]
         /\ rewind.copied = Len(keptLast) => Copied = keptLast
         /\ rewind.copied = 0 => Copied = <<>>
         /\ rewind.copied < Len(keptLast) =>
              /\ rewind.copied + 1 \in DOMAIN keptLast
              /\ SubSeq(rewind.kept, 1, rewind.copied + 1) = Append(Copied, keptLast[rewind.copied + 1])
<1> DEFINE k == keptLast
           c == rewind.copied
<1>1. rewind.kept = k /\ c \in Nat /\ c <= Len(k) /\ k \in Seq(Nat) /\ DOMAIN k = 1..Len(k) /\ Len(k) \in Nat
  BY RewindTypes DEF KeptDuringRewind
<1>2. Copied = SubSeq(k, 1, c)
  BY <1>1 DEF Copied
<1> HIDE DEF k, c
<1>3. /\ SubSeq(k, 1, c) \in Seq(Nat) /\ Len(SubSeq(k, 1, c)) = c
      /\ \A i \in 1..c : i \in DOMAIN k /\ SubSeq(k, 1, c)[i] = k[i]
  BY <1>1
<1>4. DOMAIN SubSeq(k, 1, c) = 1..c
  BY <1>3
<1>5. c = Len(k) => SubSeq(k, 1, c) = k
  BY <1>1, SubSeqFull
<1>6. c = 0 => SubSeq(k, 1, c) = <<>>
  BY <1>1, SubSeqEmpty
<1>7. c < Len(k) => c + 1 \in DOMAIN k /\ SubSeq(k, 1, c + 1) = Append(SubSeq(k, 1, c), k[c + 1])
  BY <1>1
<1> QED
  BY <1>1, <1>2, <1>3, <1>4, <1>5, <1>6, <1>7 DEF k, c

LEMMA InitRewindIInv == InitRewind => RewindIInv
<1> SUFFICES ASSUME InitRewind PROVE RewindIInv
  OBVIOUS
<1>1. /\ sessions = [x \in {0} |-> [events |-> <<>>, state |-> 0]]
      /\ rewind = [pc |-> "none", kept |-> <<>>, temp |-> 0, copied |-> 0]
      /\ temps = 0 /\ appended = 0 /\ keptLast = <<>>
  BY DEF InitRewind, Original, Fresh, NoRewind
<1>2. DOMAIN sessions = {0} /\ Events(0) = <<>> /\ DOMAIN <<>> = {} /\ <<>> \in Seq(Nat)
  BY <1>1 DEF Events
<1>3. RewindTypeOK
  BY <1>1, <1>2 DEF RewindTypeOK
<1>4. Distinct(<<>>)
  BY <1>2 DEF Distinct
<1>5. EventsAreDistinct
  BY <1>1, <1>2, <1>4 DEF EventsAreDistinct, Exists, Original
<1>6. KeptDuringRewind
  BY <1>1 DEF KeptDuringRewind
<1>7. KeptEventsSurvive
  <2>1. Within(keptLast, Events(0))
    BY <1>1, <1>2, <1>4, WithinItself
  <2> QED
    BY <1>2, <2>1 DEF KeptEventsSurvive, Events
<1> QED
  BY <1>3, <1>5, <1>6, <1>7 DEF RewindIInv

\* The agent's event is new, so it is in nobody's way.
LEMMA AgentAppendsStep ==
  ASSUME RewindIInv, AgentAppends
  PROVE  RewindIInv'
<1> USE DEF RewindIInv
<1> DEFINE e == appended + 1
           t == Events(Original)
<1>1. /\ Exists(Original) /\ appended' = e /\ UNCHANGED <<rewind, temps, keptLast>>
      /\ Put(Original, [events |-> Append(t, e), state |-> Delta(e)])
  BY DEF AgentAppends, AppendTo, Events
<1>2. /\ DOMAIN sessions' = DOMAIN sessions /\ Events(Original)' = Append(t, e)
      /\ \A id \in DOMAIN sessions : id # Original => Events(id)' = Events(id)
  <2> DEFINE s == [events |-> Append(t, e), state |-> Delta(e)]
  <2>1. s.events = Append(t, e)
    OBVIOUS
  <2> HIDE DEF s, t
  <2>2. Put(Original, s)
    BY <1>1 DEF s
  <2>3. /\ DOMAIN sessions' = DOMAIN sessions \cup {Original} /\ sessions'[Original] = s
        /\ \A id \in DOMAIN sessions : id # Original => Events(id)' = Events(id)
    BY <2>2, PutFacts
  <2> QED
    BY <1>1, <2>1, <2>3 DEF Exists, Events
<1>3. t \in Seq(Nat) /\ e \in Nat /\ appended \in Nat
  BY <1>1, RewindTypes DEF Exists
<1> HIDE DEF t
<1>4. /\ DOMAIN t = 1..Len(t) /\ Len(t) \in Nat /\ DOMAIN Append(t, e) = 1..(Len(t) + 1)
      /\ Append(t, e) \in Seq(Nat)
      /\ Append(t, e)[Len(t) + 1] = e /\ \A n \in DOMAIN t : Append(t, e)[n] = t[n] /\ t[n] \in Nat
  BY <1>3
<1>5. /\ Distinct(t) /\ \A n \in DOMAIN t : t[n] <= appended
      /\ Distinct(keptLast) /\ \A i \in DOMAIN keptLast : keptLast[i] <= appended /\ keptLast[i] \in Nat
  BY <1>1, RewindTypes DEF EventsAreDistinct, t
<1>6. \A n \in DOMAIN Append(t, e) : n \in DOMAIN t \/ n = Len(t) + 1
  BY <1>4
<1>7. RewindTypeOK'
  <2>1. RewindTypeOK
    OBVIOUS
  <2> HIDE DEF RewindIInv
  <2>2. \A id \in DOMAIN sessions' : id \in 0..temps' /\ Events(id)' \in Seq(Nat)
    <3> SUFFICES ASSUME NEW id \in DOMAIN sessions'
                 PROVE  id \in 0..temps' /\ Events(id)' \in Seq(Nat)
      OBVIOUS
    <3>1. id \in DOMAIN sessions /\ id \in 0..temps'
      BY <1>1, <1>2, <2>1 DEF RewindTypeOK
    <3>2. CASE id = Original
      BY <1>2, <1>4, <3>1, <3>2, Zenon
    <3>3. CASE id # Original
      BY <1>2, <2>1, <3>1, <3>3 DEF RewindTypeOK
    <3> QED
      BY <3>1, <3>2, <3>3
  <2>3. appended' \in Nat
    BY <1>1, <1>3
  <2> QED
    BY <1>1, <2>1, <2>2, <2>3 DEF RewindTypeOK
<1>8. EventsAreDistinct'
  <2>1. \A n \in DOMAIN t : t[n] # e
    BY <1>3, <1>4, <1>5
  <2>2. Distinct(Append(t, e))
    BY <1>4, <1>5, <1>6, <2>1 DEF Distinct
  <2>3. \A n \in DOMAIN Append(t, e) : Append(t, e)[n] <= appended'
    BY <1>1, <1>3, <1>4, <1>5, <1>6
  <2>4. \A i \in DOMAIN keptLast : keptLast[i] <= appended'
    BY <1>1, <1>3, <1>5
  <2> QED
    BY <1>1, <1>2, <1>5, <2>2, <2>3, <2>4 DEF EventsAreDistinct, Exists
<1>9. \A i \in DOMAIN keptLast : keptLast[i] # e
  BY <1>3, <1>5
<1>10. Within(keptLast, t) => Within(keptLast, Append(t, e))
  BY <1>3, <1>9, RewindTypes, WithinMore
<1>11. rewind.pc = "refill" => Within(Copied, Append(t, e))
  <2> SUFFICES ASSUME rewind.pc = "refill" PROVE Within(Copied, Append(t, e))
    OBVIOUS
  <2>1. Copied \in Seq(Nat) /\ \A i \in DOMAIN Copied : Copied[i] # e
    BY <1>9, CopiedFacts
  <2>2. Within(Copied, t)
    BY DEF KeptDuringRewind, t
  <2> QED
    BY <1>3, <2>1, <2>2, WithinMore
<1>12. rewind.pc = "refill" => \A i \in DOMAIN keptLast : i > rewind.copied =>
         \A n \in DOMAIN Append(t, e) : Append(t, e)[n] # keptLast[i]
  BY <1>4, <1>6, <1>9 DEF KeptDuringRewind, t
<1>13. rewind.pc # "none" => rewind.temp # Original
  BY DEF KeptDuringRewind, RewindTypeOK, Original
<1>14. KeptDuringRewind'
  <2>1. Copied' = Copied
    BY <1>1 DEF Copied
  <2>2. Within(keptLast, Append(t, e)) <=> Within(keptLast, Events(Original))'
    BY <1>1, <1>2
  <2>3. Exists(Original)' /\ (rewind.pc # "none" => (Exists(rewind.temp) => Exists(rewind.temp)' /\ Events(rewind.temp)' = Events(rewind.temp)))
    BY <1>1, <1>2, <1>13 DEF Exists
  <2> QED
    BY <1>1, <1>2, <1>10, <1>11, <1>12, <2>1, <2>3 DEF KeptDuringRewind, t
<1>15. KeptEventsSurvive'
  <2>1. PICK id \in DOMAIN sessions : Within(keptLast, Events(id))
    BY DEF KeptEventsSurvive, Events
  <2>2. Within(keptLast, Events(id)')
    BY <1>2, <1>10, <2>1 DEF t
  <2> QED
    BY <1>1, <1>2, <2>2 DEF KeptEventsSurvive, Events
<1> QED
  BY <1>7, <1>8, <1>14, <1>15

\* The events to keep are a prefix of the session's, which is still as it was.
LEMMA BeginStep ==
  ASSUME RewindIInv, Begin
  PROVE  RewindIInv'
<1> USE DEF RewindIInv
<1> DEFINE t == Events(Original)
<1>1. /\ rewind.pc = "none" /\ temps' = temps + 1 /\ Exists(Original) /\ UNCHANGED appended
      /\ Put(temps', Fresh(0))
  BY DEF Begin
<1>2. PICK target \in DOMAIN t :
        /\ rewind' = [pc |-> "copy", kept |-> SubSeq(t, 1, target), temp |-> temps', copied |-> 0]
        /\ keptLast' = SubSeq(t, 1, target)
  BY DEF Begin, Events
<1>3. t \in Seq(Nat) /\ Distinct(t) /\ (\A n \in DOMAIN t : t[n] <= appended) /\ temps \in Nat /\ appended \in Nat
  BY <1>1, RewindTypes DEF Exists, EventsAreDistinct
<1>4. /\ DOMAIN sessions' = DOMAIN sessions \cup {temps'} /\ sessions'[temps'] = Fresh(0)
      /\ \A id \in DOMAIN sessions : id # temps' => Events(id)' = Events(id)
  BY <1>1, PutFacts
<1>5. \A id \in DOMAIN sessions : id \in 0..temps /\ id # temps'
  BY <1>1, <1>3 DEF RewindTypeOK
<1>6. Original \in DOMAIN sessions' /\ Events(Original)' = t
  BY <1>1, <1>4, <1>5 DEF Exists
<1>7. sessions'[temps'].events = <<>> /\ <<>> \in Seq(Nat)
  BY <1>4 DEF Fresh
<1> HIDE DEF t
<1> DEFINE s == SubSeq(t, 1, target)
<1>8. /\ s \in Seq(Nat) /\ Len(s) = target /\ Distinct(s) /\ Within(s, t)
      /\ \A i \in 1..target : i \in DOMAIN t /\ s[i] = t[i]
  BY <1>3, WithinPrefix
<1>9. keptLast' = s /\ rewind' = [pc |-> "copy", kept |-> s, temp |-> temps', copied |-> 0]
  BY <1>2
<1>10. SubSeq(s, 1, 0) = <<>>
  BY <1>8, SubSeqEmpty
<1> HIDE DEF s
<1>11. /\ rewind'.pc = "copy" /\ rewind'.kept = s /\ rewind'.temp = temps' /\ rewind'.copied = 0
  BY <1>9
<1>12. RewindTypeOK'
  <2>1. \A id \in DOMAIN sessions' : id \in 0..temps' /\ Events(id)' \in Seq(Nat)
    <3> SUFFICES ASSUME NEW id \in DOMAIN sessions' PROVE id \in 0..temps' /\ Events(id)' \in Seq(Nat)
      OBVIOUS
    <3>1. CASE id = temps'
      <4>1. sessions'[id].events = <<>>
        BY <1>7, <3>1
      <4>2. Events(id)' = <<>>
        BY <4>1 DEF Events
      <4>3. id \in 0..temps'
        BY <1>1, <1>3, <3>1
      <4>4. Events(id)' \in Seq(Nat)
        BY <1>7, <4>2, Zenon
      <4> QED
        BY <4>3, <4>4
    <3>2. CASE id \in DOMAIN sessions
      BY <1>1, <1>3, <1>4, <1>5, <3>2, RewindTypes
    <3> QED
      BY <1>4, <3>1, <3>2
  <2>2. rewind' \in [pc : {"none", "copy", "delete", "recreate", "refill", "cleanup"},
                     kept : Seq(Nat), temp : Nat, copied : Nat]
    BY <1>1, <1>3, <1>8, <1>9
  <2> QED
    BY <1>1, <1>3, <1>8, <1>9, <2>1, <2>2 DEF RewindTypeOK
<1>13. EventsAreDistinct'
  <2>1. \A i \in DOMAIN s : s[i] <= appended
    BY <1>3, <1>8
  <2> QED
    BY <1>1, <1>3, <1>6, <1>8, <1>9, <2>1 DEF EventsAreDistinct
<1>14. KeptDuringRewind'
  <2>1. Copied' = <<>>
    BY <1>10, <1>11 DEF Copied
  <2>3. Exists(rewind.temp)' /\ Events(rewind.temp)' = Copied'
    BY <1>4, <1>7, <1>11, <2>1 DEF Exists, Events
  <2>4. temps' \in 1..temps'
    BY <1>1, <1>3
  <2> QED
    BY <1>6, <1>8, <1>9, <1>11, <2>3, <2>4 DEF KeptDuringRewind, Exists
<1>15. KeptEventsSurvive'
  BY <1>6, <1>8, <1>9 DEF KeptEventsSurvive, Events
<1> QED
  BY <1>12, <1>13, <1>14, <1>15

\* The rewind goes on to its next phase; no session changes.
LEMMA PhaseStep ==
  ASSUME RewindIInv, UNCHANGED <<sessions, temps, appended, keptLast>>,
         NEW next \in {"delete", "cleanup"},
         rewind' = [rewind EXCEPT !.pc = next, !.copied = 0],
         rewind.pc = IF next = "delete" THEN "copy" ELSE "refill",
         ~(rewind.copied < Len(rewind.kept))
  PROVE  RewindIInv'
<1> USE DEF RewindIInv
<1>1. /\ rewind'.pc = next /\ rewind'.copied = 0 /\ rewind'.kept = rewind.kept /\ rewind'.temp = rewind.temp
      /\ rewind' \in [pc : {"none", "copy", "delete", "recreate", "refill", "cleanup"},
                      kept : Seq(Nat), temp : Nat, copied : Nat]
  BY DEF RewindTypeOK
<1>2. \A id : Exists(id)' = Exists(id) /\ Events(id)' = Events(id)
  BY DEF Exists, Events
<1>3. RewindTypeOK'
  BY <1>1 DEF RewindTypeOK, Events
<1>4. EventsAreDistinct'
  BY DEF EventsAreDistinct, Exists, Events
<1>5. Copied = keptLast /\ rewind.pc # "none"
  <2>1. rewind.pc # "none"
    OBVIOUS
  <2>2. rewind.copied = Len(keptLast)
    BY <2>1, CopiedFacts, RewindTypes
  <2> QED
    BY <2>1, <2>2, CopiedFacts
<1>6. KeptDuringRewind'
  <2>1. /\ rewind.kept = keptLast /\ rewind.temp \in 1..temps /\ 0 <= Len(keptLast)
    BY <1>5, RewindTypes DEF KeptDuringRewind
  <2>2. CASE next = "delete"
    <3>1. Exists(rewind.temp) /\ Events(rewind.temp) = keptLast
      BY <1>5, <2>2 DEF KeptDuringRewind
    <3> QED
      BY <1>1, <2>1, <2>2, <3>1 DEF KeptDuringRewind, Exists, Events
  <2>3. CASE next = "cleanup"
    <3>1. Exists(Original) /\ Within(keptLast, Events(Original))
      BY <1>5, <2>3 DEF KeptDuringRewind
    <3> QED
      BY <1>1, <2>1, <2>3, <3>1 DEF KeptDuringRewind, Exists, Events
  <2> QED
    BY <2>2, <2>3
<1>7. KeptEventsSurvive'
  BY DEF KeptEventsSurvive
<1> QED
  BY <1>3, <1>4, <1>6, <1>7

LEMMA AppendFacts ==
  ASSUME RewindTypeOK, NEW id \in DOMAIN sessions, NEW e \in Nat, AppendTo(id, e)
  PROVE  /\ DOMAIN sessions' = DOMAIN sessions
         /\ Events(id)' = Append(Events(id), e)
         /\ \A x \in DOMAIN sessions : x # id => Events(x)' = Events(x)
         /\ \A x \in DOMAIN sessions : Events(x)' \in Seq(Nat)
<1> DEFINE s == [events |-> Append(Events(id), e), state |-> Delta(e)]
<1>1. s.events = Append(Events(id), e)
  OBVIOUS
<1>2. Put(id, s)
  BY DEF AppendTo, Events
<1> HIDE DEF s
<1>3. /\ DOMAIN sessions' = DOMAIN sessions \cup {id} /\ sessions'[id] = s
      /\ \A x \in DOMAIN sessions : x # id => Events(x)' = Events(x)
  BY <1>2, PutFacts
<1>4. Events(id)' = Append(Events(id), e)
  BY <1>1, <1>3 DEF Events
<1>5. \A x \in DOMAIN sessions : Events(x) \in Seq(Nat)
  BY RewindTypes
<1>6. Append(Events(id), e) \in Seq(Nat)
  BY <1>5
<1>7. DOMAIN sessions' = DOMAIN sessions
  BY <1>3
<1>8. ASSUME NEW x \in DOMAIN sessions PROVE Events(x)' \in Seq(Nat)
  <2>1. CASE x = id
    BY <1>4, <1>6, <2>1, Zenon
  <2>2. CASE x # id
    BY <1>3, <1>5, <2>2, Zenon
  <2> QED
    BY <2>1, <2>2
<1> QED
  BY <1>3, <1>4, <1>7, <1>8, Zenon

LEMMA CopyToTempStep ==
  ASSUME RewindIInv, CopyToTemp
  PROVE  RewindIInv'
<1> USE DEF RewindIInv
<1>1. rewind.pc = "copy" /\ UNCHANGED <<temps, appended, keptLast>>
  BY DEF CopyToTemp, Copy
<1>2. CASE ~(rewind.copied < Len(rewind.kept))
  <2>1. rewind' = [rewind EXCEPT !.pc = "delete", !.copied = 0] /\ UNCHANGED sessions
    BY <1>2 DEF CopyToTemp, Copy
  <2> QED
    BY <1>1, <1>2, <2>1, PhaseStep
<1>3. CASE rewind.copied < Len(rewind.kept)
  <2> DEFINE e == rewind.kept[rewind.copied + 1]
  <2>1. /\ AppendTo(rewind.temp, e)
        /\ rewind' = [rewind EXCEPT !.copied = rewind.copied + 1]
    BY <1>3 DEF CopyToTemp, Copy
  <2>2. /\ rewind.kept = keptLast /\ rewind.copied \in Nat
        /\ rewind.copied + 1 \in DOMAIN keptLast /\ rewind.copied + 1 <= Len(keptLast)
        /\ SubSeq(rewind.kept, 1, rewind.copied + 1) = Append(Copied, keptLast[rewind.copied + 1])
    <3>1. RewindTypeOK /\ KeptDuringRewind /\ rewind.pc # "none"
      BY <1>1
    <3> HIDE DEF RewindIInv
    <3>2. rewind.kept = keptLast
      BY <3>1, CopiedFacts
    <3>3. rewind.copied < Len(keptLast)
      BY <1>3, <3>2
    <3>4. Len(keptLast) \in Nat /\ rewind.copied \in Nat
      BY <3>1, CopiedFacts DEF RewindTypeOK
    <3> QED
      BY <3>1, <3>2, <3>3, <3>4, CopiedFacts
  <2>3. e \in Nat /\ e = keptLast[rewind.copied + 1]
    BY <2>2, RewindTypes
  <2> HIDE DEF e
  <2>4. /\ Exists(Original) /\ Within(keptLast, Events(Original))
        /\ rewind.temp \in DOMAIN sessions /\ Events(rewind.temp) = Copied
        /\ rewind.temp \in 1..temps /\ rewind.temp # Original
    BY <1>1 DEF KeptDuringRewind, Exists, Original
  <2>5. /\ DOMAIN sessions' = DOMAIN sessions
        /\ sessions'[rewind.temp].events = Append(Copied, e)
        /\ \A x \in DOMAIN sessions : x # rewind.temp => Events(x)' = Events(x)
        /\ \A x \in DOMAIN sessions : Events(x)' \in Seq(Nat)
    BY <2>1, <2>3, <2>4, AppendFacts DEF Events
  <2>6. /\ rewind'.pc = "copy" /\ rewind'.kept = keptLast /\ rewind'.temp = rewind.temp
        /\ rewind'.copied = rewind.copied + 1
        /\ rewind' \in [pc : {"none", "copy", "delete", "recreate", "refill", "cleanup"},
                        kept : Seq(Nat), temp : Nat, copied : Nat]
    <3>1. /\ rewind.pc = "copy" /\ rewind.kept = keptLast /\ rewind.copied \in Nat
          /\ rewind \in [pc : {"none", "copy", "delete", "recreate", "refill", "cleanup"},
                         kept : Seq(Nat), temp : Nat, copied : Nat]
      BY <1>1, <2>2 DEF RewindTypeOK
    <3> HIDE DEF RewindIInv
    <3> QED
      BY <2>1, <3>1
  <2>7. Events(Original)' = Events(Original)
    BY <2>4, <2>5 DEF Exists
  <2>8. RewindTypeOK'
    BY <1>1, <2>5, <2>6 DEF RewindTypeOK
  <2>9. EventsAreDistinct'
    BY <1>1, <2>5, <2>7 DEF EventsAreDistinct, Exists
  <2>10. KeptDuringRewind'
    <3>1. Copied' = Append(Copied, e)
      BY <2>2, <2>3, <2>6 DEF Copied
    <3>2. Exists(rewind.temp)' /\ Events(rewind.temp)' = Copied'
      BY <2>4, <2>5, <2>6, <3>1 DEF Exists, Events
    <3>3. Exists(Original)' /\ Within(keptLast, Events(Original))'
      BY <1>1, <2>4, <2>5, <2>7 DEF Exists
    <3> QED
      BY <1>1, <2>2, <2>4, <2>6, <3>2, <3>3 DEF KeptDuringRewind
  <2>11. KeptEventsSurvive'
    BY <1>1, <2>4, <2>5, <2>7 DEF KeptEventsSurvive, Exists, Events
  <2> QED
    BY <2>8, <2>9, <2>10, <2>11
<1> QED
  BY <1>2, <1>3

LEMMA DeleteOriginalStep ==
  ASSUME RewindIInv, DeleteOriginal
  PROVE  RewindIInv'
<1> USE DEF RewindIInv
<1>1. /\ rewind.pc = "delete" /\ UNCHANGED <<temps, appended, keptLast>>
      /\ Drop(Original) /\ rewind' = [rewind EXCEPT !.pc = "recreate"]
  BY DEF DeleteOriginal
<1>2. /\ DOMAIN sessions' = DOMAIN sessions \ {Original}
      /\ \A x \in DOMAIN sessions : x # Original => Events(x)' = Events(x)
  BY <1>1, DropFacts
<1>3. /\ rewind'.pc = "recreate" /\ rewind'.kept = rewind.kept /\ rewind'.temp = rewind.temp
      /\ rewind'.copied = rewind.copied
      /\ rewind' \in [pc : {"none", "copy", "delete", "recreate", "refill", "cleanup"},
                      kept : Seq(Nat), temp : Nat, copied : Nat]
  BY <1>1 DEF RewindTypeOK
<1>4. /\ rewind.kept = keptLast /\ rewind.copied = 0 /\ rewind.copied <= Len(keptLast)
      /\ rewind.temp \in 1..temps /\ rewind.temp # Original
      /\ rewind.temp \in DOMAIN sessions /\ Events(rewind.temp) = keptLast
  BY <1>1 DEF KeptDuringRewind, Original, Exists
<1>5. rewind.temp \in DOMAIN sessions' /\ sessions'[rewind.temp].events = keptLast
  BY <1>2, <1>4 DEF Events
<1>6. RewindTypeOK'
  BY <1>1, <1>2, <1>3 DEF RewindTypeOK
<1>7. EventsAreDistinct'
  BY <1>1, <1>2 DEF EventsAreDistinct, Exists
<1>8. KeptDuringRewind'
  BY <1>1, <1>3, <1>4, <1>5 DEF KeptDuringRewind, Exists, Events
<1>9. KeptEventsSurvive'
  <2>1. Within(keptLast, keptLast)
    BY RewindTypes, WithinItself DEF EventsAreDistinct
  <2> QED
    BY <1>1, <1>5, <2>1 DEF KeptEventsSurvive
<1> QED
  BY <1>6, <1>7, <1>8, <1>9

\* The new session is empty: nothing of what is to be kept is in it twice.
LEMMA RecreateStep ==
  ASSUME RewindIInv, Recreate
  PROVE  RewindIInv'
<1> USE DEF RewindIInv
<1>1. /\ rewind.pc = "recreate" /\ UNCHANGED <<temps, appended, keptLast>>
      /\ Put(Original, Fresh(ReplayState(rewind.kept))) /\ rewind' = [rewind EXCEPT !.pc = "refill"]
  BY DEF Recreate
<1>2. /\ DOMAIN sessions' = DOMAIN sessions \cup {Original}
      /\ sessions'[Original] = Fresh(ReplayState(rewind.kept))
      /\ \A x \in DOMAIN sessions : x # Original => Events(x)' = Events(x)
  BY <1>1, PutFacts
<1>3. Events(Original)' = <<>>
  BY <1>2 DEF Events, Fresh
<1>4. /\ rewind'.pc = "refill" /\ rewind'.kept = rewind.kept /\ rewind'.temp = rewind.temp
      /\ rewind'.copied = rewind.copied
      /\ rewind' \in [pc : {"none", "copy", "delete", "recreate", "refill", "cleanup"},
                      kept : Seq(Nat), temp : Nat, copied : Nat]
  BY <1>1 DEF RewindTypeOK
<1>5. /\ rewind.kept = keptLast /\ rewind.copied = 0 /\ rewind.copied <= Len(keptLast)
      /\ rewind.temp \in 1..temps /\ rewind.temp # Original
      /\ rewind.temp \in DOMAIN sessions /\ Events(rewind.temp) = keptLast
  BY <1>1 DEF KeptDuringRewind, Original, Exists
<1>6. rewind.temp \in DOMAIN sessions' /\ sessions'[rewind.temp].events = keptLast
  BY <1>2, <1>5 DEF Events
<1>7. /\ <<>> \in Seq(Nat) /\ DOMAIN <<>> = {} /\ Distinct(<<>>)
  BY DEF Distinct
<1>8. Within(<<>>, <<>>)
  BY <1>7, WithinItself
<1>9. Copied' = <<>>
  <2>1. Copied = <<>>
    BY <1>1, <1>5, CopiedFacts
  <2> QED
    BY <1>4, <2>1 DEF Copied
<1>10. RewindTypeOK'
  <2>1. \A x \in DOMAIN sessions' : x \in 0..temps /\ Events(x)' \in Seq(Nat)
    <3> SUFFICES ASSUME NEW x \in DOMAIN sessions' PROVE x \in 0..temps /\ Events(x)' \in Seq(Nat)
      OBVIOUS
    <3>1. CASE x = Original
      <4>1. x \in 0..temps
        BY <3>1, RewindTypes DEF Original
      <4>2. Events(x)' = <<>>
        BY <1>3, <3>1, Zenon
      <4> QED
        BY <1>7, <4>1, <4>2
    <3>2. CASE x # Original /\ x \in DOMAIN sessions
      BY <1>2, <3>2 DEF RewindTypeOK
    <3> QED
      BY <1>2, <3>1, <3>2
  <2> QED
    BY <1>1, <1>4, <2>1 DEF RewindTypeOK
<1>11. EventsAreDistinct'
  BY <1>1, <1>3, <1>7 DEF EventsAreDistinct, Exists
<1>12. KeptDuringRewind'
  <2>1. Exists(Original)' /\ Within(Copied, Events(Original))'
    BY <1>2, <1>3, <1>8, <1>9 DEF Exists
  <2>2. Exists(rewind.temp)' /\ Events(rewind.temp)' = keptLast
    BY <1>4, <1>6 DEF Exists, Events
  <2> QED
    BY <1>1, <1>3, <1>4, <1>5, <1>7, <2>1, <2>2 DEF KeptDuringRewind
<1>13. KeptEventsSurvive'
  <2>1. Within(keptLast, keptLast)
    BY RewindTypes, WithinItself DEF EventsAreDistinct
  <2> QED
    BY <1>1, <1>6, <2>1 DEF KeptEventsSurvive
<1> QED
  BY <1>10, <1>11, <1>12, <1>13

LEMMA RefillStep ==
  ASSUME RewindIInv, Refill
  PROVE  RewindIInv'
<1> USE DEF RewindIInv
<1>1. rewind.pc = "refill" /\ UNCHANGED <<temps, appended, keptLast>>
  BY DEF Refill, Copy
<1>2. CASE ~(rewind.copied < Len(rewind.kept))
  <2>1. rewind' = [rewind EXCEPT !.pc = "cleanup", !.copied = 0] /\ UNCHANGED sessions
    BY <1>2 DEF Refill, Copy
  <2> QED
    BY <1>1, <1>2, <2>1, PhaseStep
<1>3. CASE rewind.copied < Len(rewind.kept)
  <2> DEFINE e == rewind.kept[rewind.copied + 1]
             t == Events(Original)
  <2>1. AppendTo(Original, e) /\ rewind' = [rewind EXCEPT !.copied = rewind.copied + 1]
    BY <1>3 DEF Refill, Copy
  <2>2. /\ rewind.kept = keptLast /\ rewind.copied \in Nat
        /\ rewind.copied + 1 \in DOMAIN keptLast /\ rewind.copied + 1 <= Len(keptLast)
        /\ SubSeq(rewind.kept, 1, rewind.copied + 1) = Append(Copied, keptLast[rewind.copied + 1])
        /\ Copied \in Seq(Nat)
    <3>1. RewindTypeOK /\ KeptDuringRewind /\ rewind.pc # "none"
      BY <1>1
    <3> HIDE DEF RewindIInv
    <3>2. rewind.kept = keptLast
      BY <3>1, CopiedFacts
    <3>3. rewind.copied < Len(keptLast)
      BY <1>3, <3>2
    <3>4. Len(keptLast) \in Nat /\ rewind.copied \in Nat
      BY <3>1, CopiedFacts DEF RewindTypeOK
    <3> QED
      BY <3>1, <3>2, <3>3, <3>4, CopiedFacts
  <2>3. e \in Nat /\ e = keptLast[rewind.copied + 1]
    BY <2>2, RewindTypes
  <2> HIDE DEF e
  <2>4. /\ Original \in DOMAIN sessions /\ Within(Copied, t)
        /\ rewind.temp \in DOMAIN sessions /\ Events(rewind.temp) = keptLast
        /\ rewind.temp \in 1..temps /\ rewind.temp # Original
        /\ \A i \in DOMAIN keptLast : i > rewind.copied => \A n \in DOMAIN t : t[n] # keptLast[i]
    BY <1>1 DEF KeptDuringRewind, Exists, Original
  <2>5. /\ DOMAIN sessions' = DOMAIN sessions
        /\ Events(Original)' = Append(t, e)
        /\ \A x \in DOMAIN sessions : x # Original => Events(x)' = Events(x)
        /\ \A x \in DOMAIN sessions : Events(x)' \in Seq(Nat)
    BY <2>1, <2>3, <2>4, AppendFacts
  <2>6. /\ rewind'.pc = "refill" /\ rewind'.kept = keptLast /\ rewind'.temp = rewind.temp
        /\ rewind'.copied = rewind.copied + 1
        /\ rewind' \in [pc : {"none", "copy", "delete", "recreate", "refill", "cleanup"},
                        kept : Seq(Nat), temp : Nat, copied : Nat]
    <3>1. /\ rewind.pc = "refill" /\ rewind.kept = keptLast /\ rewind.copied \in Nat
          /\ rewind \in [pc : {"none", "copy", "delete", "recreate", "refill", "cleanup"},
                         kept : Seq(Nat), temp : Nat, copied : Nat]
      BY <1>1, <2>2 DEF RewindTypeOK
    <3> QED
      BY <2>1, <3>1
  <2>7. sessions'[rewind.temp].events = keptLast
    BY <2>4, <2>5 DEF Events
  <2>8. /\ t \in Seq(Nat) /\ Distinct(t) /\ \A n \in DOMAIN t : t[n] <= appended
        /\ Distinct(keptLast) /\ \A i \in DOMAIN keptLast : keptLast[i] <= appended
    BY <2>4, RewindTypes DEF EventsAreDistinct, Exists
  <2>9. \A n \in DOMAIN t : t[n] # e
    <3>1. rewind.copied + 1 > rewind.copied /\ rewind.copied + 1 \in DOMAIN keptLast
      BY <2>2
    <3> HIDE DEF RewindIInv, t
    <3>2. \A n \in DOMAIN t : t[n] # keptLast[rewind.copied + 1]
      BY <2>4, <3>1
    <3> QED
      BY <2>3, <3>2
  <2> HIDE DEF t
  <2>10. /\ DOMAIN t = 1..Len(t) /\ Len(t) \in Nat /\ DOMAIN Append(t, e) = 1..(Len(t) + 1)
         /\ Append(t, e)[Len(t) + 1] = e /\ \A n \in DOMAIN t : Append(t, e)[n] = t[n]
         /\ \A n \in DOMAIN Append(t, e) : n \in DOMAIN t \/ n = Len(t) + 1
    BY <2>3, <2>8
  <2>11. RewindTypeOK'
    BY <1>1, <2>5, <2>6 DEF RewindTypeOK
  <2>12. EventsAreDistinct'
    <3>1. Distinct(Append(t, e))
      BY <2>8, <2>9, <2>10 DEF Distinct
    <3>2. \A n \in DOMAIN Append(t, e) : Append(t, e)[n] <= appended
      BY <2>2, <2>3, <2>8, <2>10
    <3> QED
      BY <1>1, <2>5, <2>8, <3>1, <3>2 DEF EventsAreDistinct, Exists
  <2>13. KeptDuringRewind'
    <3>1. Copied' = Append(Copied, e)
      BY <2>2, <2>3, <2>6 DEF Copied
    <3>2. Within(Copied', Append(t, e))
      BY <2>2, <2>3, <2>4, <2>8, <2>9, <3>1, WithinBoth DEF t
    <3>3. Exists(rewind.temp)' /\ Events(rewind.temp)' = keptLast
      BY <2>4, <2>5, <2>6, <2>7 DEF Exists, Events
    <3>4. \A i \in DOMAIN keptLast : i > rewind'.copied => \A n \in DOMAIN Append(t, e) : Append(t, e)[n] # keptLast[i]
      <4> SUFFICES ASSUME NEW i \in DOMAIN keptLast, i > rewind'.copied, NEW n \in DOMAIN Append(t, e)
                   PROVE  Append(t, e)[n] # keptLast[i]
        OBVIOUS
      <4>0. DOMAIN keptLast = 1..Len(keptLast) /\ Len(keptLast) \in Nat
        BY RewindTypes
      <4>1. i > rewind.copied /\ i # rewind.copied + 1
        <5> HIDE DEF RewindIInv
        <5>1. i \in Nat /\ rewind.copied \in Nat /\ i > rewind.copied + 1
          BY <2>2, <2>6, <4>0
        <5> QED
          BY <5>1
      <4>2. e # keptLast[i]
        BY <2>2, <2>3, <2>8, <4>1 DEF Distinct
      <4> QED
        BY <2>4, <2>10, <4>1, <4>2 DEF t
    <3>5. Exists(Original)' /\ Within(Copied, Events(Original))'
      BY <2>4, <2>5, <3>2 DEF Exists
    <3> QED
      BY <1>1, <2>2, <2>4, <2>5, <2>6, <3>3, <3>4, <3>5 DEF KeptDuringRewind
  <2>14. KeptEventsSurvive'
    <3>1. Within(keptLast, keptLast)
      BY <2>8, RewindTypes, WithinItself
    <3> QED
      BY <1>1, <2>4, <2>5, <2>7, <3>1 DEF KeptEventsSurvive
  <2> QED
    BY <2>11, <2>12, <2>13, <2>14
<1> QED
  BY <1>2, <1>3

\* A rewind that is over, failed or crashed leaves the events where they are.
LEMMA StopStep ==
  ASSUME RewindIInv, rewind' = NoRewind, UNCHANGED <<temps, appended, keptLast>>,
         \/ UNCHANGED sessions
         \/ rewind.pc = "cleanup" /\ Drop(rewind.temp)
  PROVE  RewindIInv'
<1> USE DEF RewindIInv
<1>1. /\ rewind'.pc = "none"
      /\ rewind' \in [pc : {"none", "copy", "delete", "recreate", "refill", "cleanup"},
                      kept : Seq(Nat), temp : Nat, copied : Nat]
  BY DEF NoRewind
<1>2. KeptDuringRewind'
  BY <1>1 DEF KeptDuringRewind
<1>3. CASE UNCHANGED sessions
  <2>1. RewindTypeOK'
    BY <1>1, <1>3 DEF RewindTypeOK, Events
  <2>2. EventsAreDistinct'
    BY <1>3 DEF EventsAreDistinct, Exists, Events
  <2>3. KeptEventsSurvive'
    BY <1>3 DEF KeptEventsSurvive
  <2> QED
    BY <1>2, <2>1, <2>2, <2>3
<1>4. CASE rewind.pc = "cleanup" /\ Drop(rewind.temp)
  <2>1. /\ DOMAIN sessions' = DOMAIN sessions \ {rewind.temp}
        /\ \A x \in DOMAIN sessions : x # rewind.temp => Events(x)' = Events(x)
    BY <1>4, DropFacts
  <2>2. /\ rewind.temp # Original
        /\ Original \in DOMAIN sessions /\ Within(keptLast, Events(Original))
    BY <1>4 DEF KeptDuringRewind, Exists, Original
  <2>3. Original \in DOMAIN sessions' /\ Events(Original)' = Events(Original)
    BY <2>1, <2>2
  <2>4. RewindTypeOK'
    BY <1>1, <2>1 DEF RewindTypeOK
  <2>5. EventsAreDistinct'
    BY <2>2, <2>3 DEF EventsAreDistinct, Exists
  <2>6. KeptEventsSurvive'
    BY <2>2, <2>3 DEF KeptEventsSurvive, Events
  <2> QED
    BY <1>2, <2>4, <2>5, <2>6
<1> QED
  BY <1>3, <1>4

LEMMA RewindSteps ==
  ASSUME RewindIInv, RewindNext \/ RewindCrash \/ UNCHANGED rewindVars
  PROVE  RewindIInv'
<1>1. CASE UNCHANGED rewindVars
  BY <1>1 DEF rewindVars, RewindIInv, RewindTypeOK, EventsAreDistinct, KeptDuringRewind, KeptEventsSurvive,
     Exists, Events, Copied
<1>2. CASE DeleteTemp
  BY <1>2, StopStep DEF DeleteTemp
<1>3. CASE Fail
  BY <1>3, StopStep DEF Fail
<1>4. CASE RewindCrash
  BY <1>4, StopStep DEF RewindCrash
<1> QED
  BY <1>1, <1>2, <1>3, <1>4, AgentAppendsStep, BeginStep, CopyToTempStep, DeleteOriginalStep, RecreateStep,
     RefillStep DEF RewindNext

-----------------------------------------------------------------------------
(* The process.                                                            *)

\* The directory of a version is one Save's, and a Load that has found metadata has found
\* all of it (the inductive invariant of artifact/file for callers that write one by one).
THEOREM StoreInvariant ==
  ASSUME Serial
  PROVE  Spec => []StoreIInv
<1>1. Init => StoreIInv
  BY InitStoreIInv DEF Init
<1>2. StoreIInv /\ [Next]_<<storeVars, rewindVars>> => StoreIInv'
  BY StoreSteps DEF Next, Crash
<1> QED
  BY <1>1, <1>2, PTL DEF Spec

\* Where the events to keep are at each step of a rewind (session/rewind).
THEOREM RewindInvariant == Spec => []RewindIInv
<1>1. Init => RewindIInv
  BY InitRewindIInv DEF Init
<1>2. RewindIInv /\ [Next]_<<storeVars, rewindVars>> => RewindIInv'
  BY RewindSteps DEF Next, Crash
<1> QED
  BY <1>1, <1>2, PTL DEF Spec

\* The type invariant of a rewind (session/rewind), whoever calls the store.
THEOREM RewindTypeCorrect == Spec => []RewindTypeOK
<1>1. RewindIInv => RewindTypeOK
  BY DEF RewindIInv
<1> QED
  BY <1>1, RewindInvariant, PTL

\* What Save has returned as stored stays under its version until the artifact is deleted,
\* for callers that write an artifact one at a time (file.go's Save takes no lock).
THEOREM SavedStays ==
  ASSUME Serial
  PROVE  Spec => []SavedStaysReadable
<1>1. StoreIInv => SavedStaysReadable
  <2> SUFFICES ASSUME StoreIInv, NEW x \in returned
               PROVE  /\ x[2] \in ListVersions(x[1])
                      /\ \E k \in Kinds :
                           /\ disk[x[1]][x[2]].meta = {[kind |-> k, save |-> x[3]]}
                           /\ disk[x[1]][x[2]].files =
                                IF x[1] \in Clashing /\ k = "blob" THEN {} ELSE disk[x[1]][x[2]].meta
    BY DEF SavedStaysReadable
  <2>1. x[2] \in DOMAIN disk[x[1]]
    BY DEF StoreIInv, ReturnedAreStored
  <2>2. PICK k \in Kinds : disk[x[1]][x[2]] =
          [files |-> Payload(x[1], [kind |-> k, save |-> x[3]]), meta |-> {[kind |-> k, save |-> x[3]]}]
    BY DEF StoreIInv, ReturnedAreStored
  <2>3. Payload(x[1], [kind |-> k, save |-> x[3]]) =
          IF x[1] \in Clashing /\ k = "blob" THEN {} ELSE {[kind |-> k, save |-> x[3]]}
    BY DEF Payload
  <2> QED
    BY <2>1, <2>2, <2>3 DEF ListVersions
<1> QED
  BY <1>1, StoreInvariant, PTL

\* A Load gives back what one Save was given, or an error, unless the artifact is being
\* deleted (file.go's Load, between its read of the metadata and of the content).
THEOREM LoadsGiveWholeContents ==
  ASSUME Serial
  PROVE  Spec => []LoadsAreWhole
<1>1. StoreIInv => LoadsAreWhole
  BY DEF StoreIInv
<1> QED
  BY <1>1, StoreInvariant, PTL

\* Whatever fails or crashes, some session has all the events the last rewind was to keep
\* (rewind.go's temporary session).
THEOREM RewindKeepsEvents == Spec => []KeptEventsSurvive
<1>1. RewindIInv => KeptEventsSurvive
  BY DEF RewindIInv
<1> QED
  BY <1>1, RewindInvariant, PTL
=================================================================================
