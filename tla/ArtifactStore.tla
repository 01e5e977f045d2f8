----------------------------- MODULE ArtifactStore -----------------------------
(***************************************************************************)
(* The artifact service on a file system (artifact/file): one directory    *)
(* per artifact, in it one per version, in it the content and, written     *)
(* last, metadata.json.  Nothing is locked and nothing is written          *)
(* atomically: a Save picks the next version from a listing, makes the     *)
(* directory, writes the content and then the metadata; a Delete removes   *)
(* files and directories one by one; a Load finds the latest, reads the    *)
(* metadata, then the content.  Any file operation may fail, and the       *)
(* process may crash between any two.  Contents are known by the number of *)
(* their Save.                                                             *)
(***************************************************************************)
EXTENDS Integers, FiniteSets, FiniteSetsExt

CONSTANTS Sessions, Files,
          UserFiles,   \* those whose name begins with "user:"
          MetaNamed,   \* those called "metadata.json"
          Writers, Readers,
          Serial,      \* whether the callers let no two writes of an artifact overlap
          MaxSaves     \* bound: Saves begun

ASSUME StoreAssumption == UserFiles \subseteq Files /\ MetaNamed \subseteq Files \ UserFiles /\ Serial \in BOOLEAN /\ MaxSaves \in Nat

VARIABLES disk,     \* directory of an artifact -> (version -> what its directory holds)
          writer,   \* [Writers -> the Save or Delete it is in]
          reader,   \* [Readers -> the Load it is in]
          saves,    \* Saves begun
          returned, \* history: <<directory, version, save>> of the Saves that returned, not deleted since
          deleting, \* history: [Readers -> directories in a Delete since its Load began]
          torn      \* history: <<directory, version>> from which a Delete has removed the content

historyVars == <<returned, deleting, torn>>
storeVars == <<disk, writer, reader, saves, historyVars>>

\* One user's; another user's directories are apart from them.
ArtifactDir(session, file) == IF file \in UserFiles THEN <<"user", file>> ELSE <<session, file>>
Dirs == {ArtifactDir(s, f) : s \in Sessions, f \in Files}
\* where the content of a blob goes where the metadata will
Clashing == {ArtifactDir(s, f) : s \in Sessions, f \in MetaNamed}
Kinds == {"text", "blob"}   \* {name}.txt, or the name itself
Idle == [pc |-> "idle"]
Empty == [files |-> {}, meta |-> {}]   \* files: {[kind, save]}; meta: {} or one [kind, save]
NoVersions == [v \in {} |-> Empty]

InitStore == /\ disk = [d \in Dirs |-> NoVersions] /\ saves = 0 /\ returned = {} /\ torn = {}
             /\ writer = [w \in Writers |-> Idle] /\ reader = [r \in Readers |-> Idle]
             /\ deleting = [r \in Readers |-> {}]

ListVersions(d) == DOMAIN disk[d]
LatestVersion(d) == Max(ListVersions(d))
NextVersion(d) == IF ListVersions(d) = {} THEN 0 ELSE LatestVersion(d) + 1
\* Fault: off by one.
SameVersion(d) == IF ListVersions(d) = {} THEN 0 ELSE LatestVersion(d)
SaveVersion(d) == NextVersion(d)

Busy(d) == \E w \in Writers : writer[w].pc # "idle" /\ writer[w].dir = d
At(w, pc) == writer[w].pc = pc
Step(w, pc) == writer' = [writer EXCEPT ![w].pc = pc]
There(w) == writer[w].version \in ListVersions(writer[w].dir)
\* what the version's directory holds, and the directory holding e instead
Held(w) == IF There(w) THEN disk[writer[w].dir][writer[w].version] ELSE Empty
StoreAt(d, version, e) ==
  disk' = [disk EXCEPT ![d] = [v \in DOMAIN @ \cup {version} |-> IF v = version THEN e ELSE @[v]]]
Store(w, e) == StoreAt(writer[w].dir, writer[w].version, e)

(* Save *)
SaveList(w) ==
  /\ At(w, "idle") /\ saves < MaxSaves /\ saves' = saves + 1
  /\ \E s \in Sessions, f \in Files, kind \in Kinds :
       LET d == ArtifactDir(s, f) IN
       /\ Serial => ~Busy(d)
       /\ writer' = [writer EXCEPT ![w] = [pc |-> "mkdir", dir |-> d, kind |-> kind, save |-> saves', version |-> SaveVersion(d)]]
  /\ UNCHANGED <<disk, reader, historyVars>>
SaveMkdir(w) ==
  /\ At(w, "mkdir") /\ Step(w, "content")
  /\ Store(w, Held(w))
  /\ UNCHANGED <<reader, saves, historyVars>>
Written(w) == [kind |-> writer[w].kind, save |-> writer[w].save]
Hidden(w) == writer[w].dir \in Clashing /\ writer[w].kind = "blob"
WriteContent(w) ==
  Store(w, IF Hidden(w) THEN [Held(w) EXCEPT !.meta = {Written(w)}]
           ELSE [Held(w) EXCEPT !.files = {f \in @ : f.kind # writer[w].kind} \cup {Written(w)}])
WriteMeta(w) == Store(w, [Held(w) EXCEPT !.meta = {Written(w)}])
\* Fault: the metadata is written before the content.
MetaFirst(w) == IF At(w, "content") THEN WriteMeta(w) ELSE WriteContent(w)
Write(w) == IF At(w, "content") THEN WriteContent(w) ELSE WriteMeta(w)
\* WriteFile fails when the directory is gone
SaveFile(w) ==
  /\ writer[w].pc \in {"content", "meta"} /\ There(w) /\ Write(w)
  /\ IF At(w, "content") THEN Step(w, "meta") /\ UNCHANGED returned
     ELSE /\ returned' = returned \cup {<<writer[w].dir, writer[w].version, writer[w].save>>}
          /\ writer' = [writer EXCEPT ![w] = Idle]
  /\ UNCHANGED <<reader, saves, deleting, torn>>
\* an error of any step is returned; what was written stays
SaveFails(w) ==
  /\ writer[w].pc \in {"mkdir", "content", "meta"} /\ writer' = [writer EXCEPT ![w] = Idle]
  /\ UNCHANGED <<disk, reader, saves, historyVars>>

(* Delete *)
DeleteBegin(w) ==
  /\ At(w, "idle")
  /\ \E s \in Sessions, f \in Files :
       LET d == ArtifactDir(s, f) IN
       /\ ListVersions(d) # {}   \* else nothing to do
       /\ Serial => ~Busy(d)
       /\ writer' = [writer EXCEPT ![w] = [pc |-> "delete", dir |-> d]]
       /\ returned' = {x \in returned : x[1] # d}
       /\ deleting' = [r \in Readers |-> deleting[r] \cup {d}]
  /\ UNCHANGED <<disk, reader, saves, torn>>
\* RemoveAll takes a version apart in any order, and ends with its directory
RemoveFile(w) ==
  /\ At(w, "delete")
  /\ \E v \in ListVersions(writer[w].dir) :
       LET d == writer[w].dir IN
       \/ \E f \in disk[d][v].files : /\ StoreAt(d, v, [disk[d][v] EXCEPT !.files = @ \ {f}])
                                       /\ torn' = torn \cup {<<d, v>>}
       \/ disk[d][v].meta # {} /\ StoreAt(d, v, [disk[d][v] EXCEPT !.meta = {}]) /\ UNCHANGED torn
  /\ UNCHANGED <<writer, reader, saves, returned, deleting>>
RemoveVersion(w) ==
  /\ At(w, "delete")
  /\ \E v \in ListVersions(writer[w].dir) :
       /\ disk[writer[w].dir][v] = Empty
       /\ disk' = [disk EXCEPT ![writer[w].dir] = [u \in DOMAIN @ \ {v} |-> @[u]]]
       /\ torn' = torn \ {<<writer[w].dir, v>>}
  /\ UNCHANGED <<writer, reader, saves, returned, deleting>>
\* all removed, or RemoveAll failed
DeleteEnd(w) ==
  /\ At(w, "delete") /\ writer' = [writer EXCEPT ![w] = Idle]
  /\ UNCHANGED <<disk, reader, saves, historyVars>>

(* Load; GetArtifactVersion is its first two steps *)
LoadResolve(r) ==
  /\ reader[r].pc \in {"idle", "loaded", "missing"}
  /\ \E s \in Sessions, f \in Files : \E v \in 0..(MaxSaves - 1) :
       LET d == ArtifactDir(s, f) IN
       /\ v # 0 \/ ListVersions(d) # {}   \* else not found
       /\ reader' = [reader EXCEPT ![r] = [pc |-> "meta", dir |-> d,
                       version |-> IF v = 0 THEN LatestVersion(d) ELSE v]]
       /\ deleting' = [deleting EXCEPT ![r] = {writer[w].dir : w \in {x \in Writers : At(x, "delete")}}]
  /\ UNCHANGED <<disk, writer, saves, returned, torn>>
Entry(r) == IF reader[r].version \in ListVersions(reader[r].dir) THEN disk[reader[r].dir][reader[r].version] ELSE Empty
LoadMeta(r) ==
  /\ reader[r].pc = "meta"
  /\ reader' = [reader EXCEPT ![r] = IF Entry(r).meta = {} THEN Idle
                  ELSE [pc |-> "content", dir |-> @.dir, version |-> @.version, meta |-> CHOOSE m \in Entry(r).meta : TRUE]]
  /\ UNCHANGED <<disk, writer, saves, historyVars>>
\* the first file that is not metadata.json: <name> sorts before <name>.txt
First(files) == CHOOSE f \in files : f.kind = "blob" \/ \A g \in files : g.kind = "text"
LoadContent(r) ==
  /\ reader[r].pc = "content"
  /\ reader' = [reader EXCEPT ![r] = IF Entry(r).files = {} THEN [pc |-> "missing", dir |-> @.dir, version |-> @.version]
                  ELSE [pc |-> "loaded", dir |-> @.dir, version |-> @.version, meta |-> @.meta, content |-> First(Entry(r).files)]]
  /\ UNCHANGED <<disk, writer, saves, historyVars>>
\* a read fails, or what is found as the metadata is none: the content of a blob, say
LoadFails(r) ==
  /\ reader[r].pc \in {"meta", "content"} /\ reader' = [reader EXCEPT ![r] = Idle]
  /\ UNCHANGED <<disk, writer, saves, historyVars>>

StoreNext == \/ \E w \in Writers : SaveList(w) \/ SaveMkdir(w) \/ SaveFile(w) \/ SaveFails(w)
                                   \/ DeleteBegin(w) \/ RemoveFile(w) \/ RemoveVersion(w) \/ DeleteEnd(w)
             \/ \E r \in Readers : LoadResolve(r) \/ LoadMeta(r) \/ LoadContent(r) \/ LoadFails(r)

\* The process dies: every operation is gone, the disk stays.
StoreCrash == /\ writer' = [w \in Writers |-> Idle] /\ reader' = [r \in Readers |-> Idle]
              /\ UNCHANGED <<disk, saves, historyVars>>
--------------------------------------------------------------------------------
(* Properties                                                              *)

\* What a Save has returned as stored stays stored, whole and under its version, until a
\* Delete of the artifact begins: no later Save, crashed Save or Delete cut short replaces it.
\* Of a blob called metadata.json only the metadata is stored.
SavedStaysReadable ==
  \A x \in returned : /\ x[2] \in ListVersions(x[1])
                      /\ LET e == disk[x[1]][x[2]] IN
                         \E k \in Kinds : /\ e.meta = {[kind |-> k, save |-> x[3]]}
                                         /\ e.files = IF x[1] \in Clashing /\ k = "blob" THEN {} ELSE e.meta

\* A version whose metadata a Load has read is complete: its content is there, and it is what
\* the same Save was given.  A Save cut short is never returned.  Excepted are an artifact that
\* is deleted meanwhile and, in the content missing, a version that a Delete has left torn and
\* an artifact called metadata.json.
LoadsAreWhole ==
  \A r \in Readers : reader[r].pc \in {"loaded", "missing"} /\ reader[r].dir \notin deleting[r] =>
     \/ reader[r].pc = "loaded" /\ reader[r].content = reader[r].meta
     \/ reader[r].pc = "missing" /\ (<<reader[r].dir, reader[r].version>> \in torn \/ reader[r].dir \in Clashing)

\* Save writes binary content to a file named after the artifact: file.go:214-215.
\* Violated: the metadata is written over the content of an artifact called metadata.json.
ContentIsStored ==
  \A x \in returned : x[2] \in ListVersions(x[1]) => \E f \in disk[x[1]][x[2]].files : f.save = x[3]

\* Two Saves that returned have stored two versions.
NewVersionEachSave == \A x, y \in returned : x[1] = y[1] /\ x[2] = y[2] => x[3] = y[3]
================================================================================
