----------------------------- MODULE StatCache -----------------------------
(***************************************************************************)
(* The cache of stat() results, mstat_cache.c: a splay tree of entries by  *)
(* the hash of the name and of the setting follow_symlink.  Two names may  *)
(* have one hash; then the later entry takes the place of the earlier one. *)
(*                                                                         *)
(* stat_cache_get_entry is one action for each of its ways out.  What is   *)
(* under HAVE_FAM_H, HAVE_LSTAT or HAVE_XATTR is left out: nothing defines *)
(* these, and the functions called there do not exist.                     *)
(***************************************************************************)
EXTENDS SplayTree

CONSTANTS
  Name,      \* names of files
  Hash,      \* hashme() of a name with follow_symlink appended, 0 or 1
  MimeType,  \* the mimetype of a name, by its end
  EtagFlags, \* con->etag_flags, the same for all connections; 0: no etags
  File, Directory, Special,   \* results of stat(), by the kind of file
  FirstDisk, \* what stat() says at the start
  Mutable,   \* bound of the model: names for which that changes
  MaxChanges \* bound of the model: changes of the file system and the clock

Missing == "missing"
Stat == File \cup Directory \cup Special

ASSUME HashAssumption == Hash \in [Name \X {0, 1} -> Key]
ASSUME KindAssumption ==
  Missing \notin Stat /\ File \cap Directory = {} /\ (File \cup Directory) \cap Special = {}
ASSUME DiskAssumption == FirstDisk \in [Name -> Stat \cup {Missing}]

VARIABLES
  m, files,     \* the nodes, and sc->files: the root
  data,         \* node -> its entry
  engine,       \* srvconf.stat_cache_engine
  ts,           \* srv->cur_ts, the second of the clock
  disk,         \* name -> what stat() says
  pc,           \* "running", "stopping" in stat_cache_free, "stopped" or "fault"
  \* history
  lately,       \* name -> what stat() said at some time in this second
  answer,       \* *ret_sce of the last call, with the name asked for
  changes       \* how often the disk or the clock changed

tree == <<m, files>>
vars == <<m, files, data, engine, ts, disk, pc, lately, answer, changes>>
world == <<ts, disk, lately, changes>>

None == "none"
Entry == [name : Name, st : Stat, stat_ts : Nat,
          etag : {None} \cup Stat,           \* what the etag was made from
          content_type : {None} \cup {MimeType[n] : n \in Name}]
NoAnswer == [name |-> None]

InTree == {k \in Key : data[k] # NoAnswer}

TypeOK ==
  /\ m \in Nodes /\ files \in Key \cup {NULL}
  /\ data \in [Key -> Entry \cup {NoAnswer}]
  /\ engine \in {"none", "simple"}
  /\ ts \in Nat /\ disk \in [Name -> Stat \cup {Missing}]
  /\ lately \in [Name -> SUBSET (Stat \cup {Missing})]
  /\ pc \in {"running", "stopping", "stopped", "fault"}
  /\ answer = NoAnswer \/ (answer.asked \in Name /\ answer.sce \in Entry)
  /\ changes \in 0 .. MaxChanges

Init ==
  /\ m = [n \in Key \cup {Head} |-> EmptyNode] /\ files = NULL
  /\ data = [k \in Key |-> NoAnswer]
  /\ engine \in {"none", "simple"}
  /\ ts = 0 /\ changes = 0
  /\ disk = FirstDisk
  /\ lately = [n \in Name |-> {disk[n]}]
  /\ pc = "running" /\ answer = NoAnswer

-----------------------------------------------------------------------------
(***************************************************************************)
(* The world.                                                              *)
(***************************************************************************)
FileChanges(n, st) ==
  /\ pc = "running" /\ changes < MaxChanges
  /\ disk' = [disk EXCEPT ![n] = st]
  /\ lately' = [lately EXCEPT ![n] = @ \cup {st}]
  /\ changes' = changes + 1 /\ answer' = NoAnswer
  /\ UNCHANGED <<tree, data, engine, ts, pc>>

\* A new second: main() sets cur_ts.
ClockTicks ==
  /\ pc = "running" /\ changes < MaxChanges
  /\ ts' = ts + 1
  /\ lately' = [n \in Name |-> {disk[n]}]
  /\ changes' = changes + 1 /\ answer' = NoAnswer
  /\ UNCHANGED <<tree, data, engine, disk, pc>>

-----------------------------------------------------------------------------
(***************************************************************************)
(* stat_cache_get_entry                                                    *)
(***************************************************************************)

\* Every call begins with a search for the hash; s is what comes of it.
Splayed(key) == Splay(m, files, key)
TreeIs(s) == m' = s.m /\ files' = s.root

\* The entry of the hash is one of this name.
Cached(name, key, s) == s.root = key /\ data[key].name = name

\* Faulty variant: an entry is good forever.
Fresh_Always(key, follow) == engine = "simple" /\ follow = 1

Fresh(key, follow) == engine = "simple" /\ data[key].stat_ts = ts /\ follow = 1

\* The entry is of this second.  Without follow_symlink it is never good enough.
Hit(name, key, follow, s) ==
  /\ Cached(name, key, s) /\ Fresh(key, follow)
  /\ TreeIs(s)
  /\ answer' = [asked |-> name, sce |-> data[key]]
  /\ UNCHANGED <<data, engine, world, pc>>

\* stat() has a result.
Usable(st) == st \in Stat

\* stat() or open() fails, or a file's name ends with a slash: no answer, and
\* an entry that is there stays.
Fails(name, key, follow, s) ==
  /\ ~(Cached(name, key, s) /\ Fresh(key, follow))
  /\ disk[name] \in File \cup {Missing}
  /\ TreeIs(s)
  /\ answer' = NoAnswer
  /\ UNCHANGED <<data, engine, world, pc>>

\* etag_create: with no flags it leaves the etag as it is.
Etag(old, st) == IF EtagFlags # 0 /\ st \in File \cup Directory THEN st ELSE old

\* A file's type comes from the end of its name.
ContentType(old, name, st) == IF st \in File THEN MimeType[name] ELSE old

NewEntry(name) ==
  [name |-> name, st |-> disk[name], stat_ts |-> ts, etag |-> None, content_type |-> None]

\* The node for an entry, new or not.
Place(s, key) == IF s.root = key THEN s ELSE Insert(s.m, s.root, key)

\* The entry of the name is filled again; or one is made, in a new node or in
\* place of the entry of another name, which is freed.
Refresh(name, key, follow, s) ==
  LET sce == IF Cached(name, key, s) THEN data[key] ELSE NewEntry(name)
      st == disk[name]
      filled == [sce EXCEPT !.st = st, !.stat_ts = ts, !.etag = Etag(@, st),
                            !.content_type = ContentType(@, name, st)]
  IN
  /\ ~(Cached(name, key, s) /\ Fresh(key, follow))
  /\ Usable(st)
  /\ TreeIs(Place(s, key))
  /\ data' = [data EXCEPT ![files'] = filled]
  /\ answer' = [asked |-> name, sce |-> filled]
  /\ UNCHANGED <<engine, world, pc>>

Search(name, key, follow, s) ==
  Hit(name, key, follow, s) \/ Fails(name, key, follow, s) \/ Refresh(name, key, follow, s)

GetEntry(name, follow) ==
  /\ pc = "running"
  /\ LET key == Hash[<<name, follow>>] IN Search(name, key, follow, Splayed(key))

-----------------------------------------------------------------------------
(***************************************************************************)
(* stat_cache_free                                                         *)
(***************************************************************************)
FreeBegins ==
  /\ pc = "running"
  /\ pc' = "stopping" /\ answer' = NoAnswer
  /\ UNCHANGED <<tree, data, engine, world>>

\* One turn of the loop.  After the last node the assertion reads the size of a
\* node that is not there.
FreeRoot ==
  /\ pc = "stopping" /\ files # NULL
  /\ TreeIs(Delete(m, files, files))
  /\ data' = [data EXCEPT ![files] = NoAnswer]
  /\ pc' = IF files' = NULL THEN "fault" ELSE pc
  /\ UNCHANGED <<engine, world, answer>>

FreeEnds ==
  /\ pc = "stopping" /\ files = NULL
  /\ pc' = "stopped"
  /\ UNCHANGED <<tree, data, engine, world, answer>>

-----------------------------------------------------------------------------
Next ==
  \/ \E n \in Mutable, st \in Stat \cup {Missing} : FileChanges(n, st)
  \/ ClockTicks
  \/ \E n \in Name, follow \in {0, 1} : GetEntry(n, follow)
  \/ FreeBegins
  \/ FreeRoot
  \/ FreeEnds

Spec == Init /\ [][Next]_vars

-----------------------------------------------------------------------------
(***************************************************************************)
(* Properties                                                              *)
(***************************************************************************)

\* The tree holds a node for each entry, in the order of the keys, and no other:
\* no turn of the tree loses or doubles a subtree.  An entry is found where its
\* name is looked for, so no name has two with one setting of follow_symlink.
TreeHoldsEntries ==
  /\ Below(m, files) = InTree /\ Sorted(m, files)
  /\ \A k \in InTree : \E follow \in {0, 1} : Hash[<<data[k].name, follow>>] = k

\* An answer is about the name asked for, says what stat() would have said at
\* some time in this second, and has the type and the etag of that file.
AnswerTrue ==
  answer # NoAnswer =>
    /\ answer.sce.name = answer.asked
    /\ answer.sce.st \in lately[answer.asked]
    /\ answer.sce.st \in File => answer.sce.content_type = MimeType[answer.asked]
    /\ EtagFlags # 0 /\ answer.sce.st \in File \cup Directory =>
         answer.sce.etag = answer.sce.st

\* mstat_cache.c:173 asserts that the size of the tree is one more after an
\* entry was inserted.
InsertCounted ==
  [][\A k \in Key : k \notin InTree /\ data'[k] # NoAnswer =>
       Size(m', files') = Size(Splayed(k).m, Splayed(k).root) + 1]_vars
=============================================================================
