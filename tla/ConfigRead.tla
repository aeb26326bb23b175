----------------------------- MODULE ConfigRead -----------------------------
(***************************************************************************)
(* config_read and config_set_defaults of mconfigfile.c: the file is       *)
(* opened as a stream, parsed, and closed; the options of the server are   *)
(* taken from all contexts; the list of modules is completed; and what was *)
(* read is looked at before main() goes on.                                *)
(*                                                                         *)
(* config_parse never returns for a file it can read to the end (see       *)
(* ConfigParse!Feed).  It comes back with -1 when the tokenizer gives up,  *)
(* and with 0 when the parser does: only a file with a syntax error gets   *)
(* past it, with the contexts that came before the error.                  *)
(***************************************************************************)
EXTENDS ConfigParse

CONSTANTS
  Directories, OtherFiles   \* the file system: paths

ASSUME FileSystem == Directories \cap OtherFiles = {}

VARIABLES
  rd,          \* where config_read or config_set_defaults is
  stream,      \* what is held of the file: [fd, content]
  next,        \* the context or the directory that comes next
  srvconf,     \* the options of the server
  touched,     \* srv->config_touched: the keys that were used
  storage,     \* how many entries of srv->config_storage were made
  stat_cache_engine,
  retval       \* what the function returned: "none" yet, 0, -1, "fault"

readVars == <<rd, stream, next, srvconf, touched, storage, stat_cache_engine, retval>>
allVars  == <<vars, readVars>>

NoStream == [fd |-> FALSE, content |-> FALSE]

\* The options config_insert knows: the name, the type, the member of srvconf.
Server(name) == <<"server", ".">> \o name
cv == <<
  <<Server(<<"bind">>), "string", "bindhost">>,
  <<Server(<<"errorlog">>), "string", "errorlog_file">>,
  <<Server(<<"chroot">>), "string", "changeroot">>,
  <<Server(<<"modules">>), "array", "modules">>,
  <<Server(<<"event", "-", "handler">>), "string", "event_handler">>,
  <<Server(<<"stat", "_", "cache", "_", "engine">>), "string", "stat_cache">>,
  <<Server(<<"upload", "-", "dirs">>), "array", "upload_tempdirs">> >>

ReadInit ==
  /\ Init
  /\ rd = "open" /\ stream = NoStream /\ next = 1
  /\ srvconf = [m \in {cv[j][3] : j \in DOMAIN cv} |-> <<>>]
  /\ touched = {} /\ storage = 0 /\ stat_cache_engine = "unset" /\ retval = "none"

Returned(r) == rd' = "ended" /\ retval' = r
Goto(l) == rd' = l /\ UNCHANGED retval
OptionsKept == UNCHANGED <<vars, next, srvconf, touched, storage, stat_cache_engine>>

-----------------------------------------------------------------------------
(***************************************************************************)
(* stream_open, config_parse, stream_close.                                *)
(***************************************************************************)
StreamOpen ==
  /\ rd = "open"
  /\ \/ Goto("fstat") /\ stream' = [stream EXCEPT !.fd = TRUE]
     \/ Returned("-1") /\ UNCHANGED stream
  /\ OptionsKept

\* Faulty variant: an empty file stays open.
Emptied_Open(s) == s

Emptied(s) == [s EXCEPT !.fd = FALSE]

\* The size of the file: a file without content is closed at once.
StreamSize ==
  /\ rd = "fstat"
  /\ \/ Goto("map") /\ UNCHANGED <<stream, closed>>
     \/ Goto("parse") /\ stream' = Emptied(stream) /\ closed' = TRUE
     \/ Returned("-1") /\ stream' = [stream EXCEPT !.fd = FALSE] /\ UNCHANGED closed
  /\ UNCHANGED <<rest, in_key, in_brace, in_cond, tid, token, parserVars, budget, ret,
                 next, srvconf, touched, storage, stat_cache_engine>>

\* The content is mapped, or else read into memory; stream_close knows which.
StreamMap ==
  /\ rd = "map"
  /\ \/ Goto("parse") /\ stream' = [fd |-> FALSE, content |-> TRUE]
     \/ Returned("-1") /\ stream' = NoStream
  /\ OptionsKept

\* config_parse.
Parsing ==
  /\ rd = "parse" /\ ret = "none"
  /\ Next
  /\ UNCHANGED readVars

\* config_parse has returned; without -1 config_insert makes config_storage.
StreamClose ==
  /\ rd = "parse" /\ ret # "none"
  /\ stream' = NoStream
  /\ IF ret = "-1" THEN Returned("-1") ELSE Goto("insert")
  /\ OptionsKept

-----------------------------------------------------------------------------
(***************************************************************************)
(* config_insert, with config_insert_values_global for each context.       *)
(***************************************************************************)

\* The elements of b up to the first that is no string.
Strings(b) ==
  SubSeq(b, 1, SelectInSeq(Append(b, NULL), LAMBDA du : du.type # "string") - 1)

\* array_insert_unique: an element whose key is there is joined to the one that
\* has it, as data_string_insert_dup does.
InsertUnique(a, du) ==
  IF Fits(a, du) THEN Append(a, du)
  ELSE [i \in DOMAIN a |->
         IF a[i].key # du.key THEN a[i]
         ELSE [a[i] EXCEPT !.value = IF @ = <<>> THEN du.value
                                     ELSE @ \o <<"\r\n">> \o du.key \o <<": ">> \o du.value]]
InsertAll(a, b) ==
  LET with[i \in 0 .. Len(b)] == IF i = 0 THEN a ELSE InsertUnique(with[i - 1], b[i])
  IN  with[Len(b)]

\* config_insert_values_internal for one option in a context: r is what has
\* been read so far.  What is to be an array is taken for one, because its type
\* is assigned and not compared.
Taken1(values, r, option) ==
  LET key == option[1]
      to  == option[3]
      du  == values[key]
  IN  IF r.ret # "0" \/ key \notin DOMAIN values THEN r
      ELSE IF option[2] = "string"
      THEN IF du.type = "string" THEN [r EXCEPT !.conf[to] = du.value] ELSE [r EXCEPT !.ret = "-1"]
      ELSE IF du.type # "array" THEN [r EXCEPT !.ret = "fault"]
      ELSE [conf |-> [r.conf EXCEPT ![to] = InsertAll(@, Strings(du.value))],
            ret  |-> IF Strings(du.value) = du.value THEN "0" ELSE "-1"]

\* Faulty variant: the options of a context are not looked at any more after the
\* first that it has.
Values_FirstOnly(values, conf) ==
  LET read[j \in 0 .. Len(cv)] ==
        IF j = 0 THEN [conf |-> conf, ret |-> "0"]
        ELSE IF read[j - 1].conf # conf THEN read[j - 1]
        ELSE Taken1(values, read[j - 1], cv[j])
  IN  read[Len(cv)]

\* config_insert_values_internal for a context, one option after the other.
Values(values, conf) ==
  LET read[j \in 0 .. Len(cv)] ==
        IF j = 0 THEN [conf |-> conf, ret |-> "0"] ELSE Taken1(values, read[j - 1], cv[j])
  IN  read[Len(cv)]

MoreContexts == next < Len(ctx.all_configs)

\* Options of the server count in a condition too; that only makes a warning.
InsertContext ==
  /\ rd = "insert" /\ next <= Len(ctx.all_configs)
  /\ LET values == ctx.dcs[ctx.all_configs[next]].value
         r == Values(values, srvconf)
     IN  /\ storage' = storage + 1
         /\ touched' = touched \cup {cv[j][1] : j \in {k \in DOMAIN cv : cv[k][1] \in DOMAIN values}}
         /\ srvconf' = r.conf
         /\ IF r.ret = "fault" THEN Returned("fault") /\ UNCHANGED next
            ELSE /\ retval' = IF r.ret = "0" THEN "none" ELSE "-1"
                 /\ IF r.ret = "0" /\ MoreContexts
                    THEN next' = next + 1 /\ UNCHANGED rd
                    ELSE next' = 1 /\ rd' = "engine"
  /\ UNCHANGED <<vars, stream, stat_cache_engine>>

\* The index of the variables is wrong, and the search for an option ends nowhere.
\* Otherwise InsertContext passes over the options that are not found.
InsertFault ==
  /\ rd = "insert" /\ next <= Len(ctx.all_configs)
  /\ ctx.dcs[ctx.all_configs[next]].lost # {}
  /\ Returned("fault")
  /\ UNCHANGED <<vars, stream, next, srvconf, touched, storage, stat_cache_engine>>

\* After an error of a context the function goes on, and returns it in the end.
Engine ==
  /\ rd = "engine"
  /\ \/ /\ srvconf.stat_cache \in {<<>>, <<"simple">>}
        /\ stat_cache_engine' = "SIMPLE" /\ Goto("modules")
     \/ /\ srvconf.stat_cache = <<"disable">>
        /\ stat_cache_engine' = "NONE" /\ Goto("modules")
     \/ /\ srvconf.stat_cache \notin {<<>>, <<"simple">>, <<"disable">>}
        /\ UNCHANGED stat_cache_engine /\ Returned("-1")
  /\ UNCHANGED <<vars, stream, next, srvconf, touched, storage>>

Mod(name) == <<"mod", "_">> \o name
Loads(a, m) == \E i \in DOMAIN a : a[i].value = m
Missing(a, m) == IF Loads(a, m) THEN <<>> ELSE <<StringData(m)>>

\* Faulty variant: the module is put behind the others.
Completed_Appended(a) ==
  LET b == InsertAll(a, Missing(a, Mod(<<"dirlisting">>)) \o Missing(a, Mod(<<"staticfile">>)))
  IN  InsertAll(b, Missing(a, Mod(<<"indexfile">>)))

\* The list of modules with those that are always loaded.
Completed(a) ==
  LET first == Missing(a, Mod(<<"indexfile">>))
      last  == Missing(a, Mod(<<"dirlisting">>)) \o Missing(a, Mod(<<"staticfile">>))
                 \o (IF Loads(a, Mod(<<"auth">>)) THEN Missing(a, Mod(<<"authn", "_", "file">>)) ELSE <<>>)
  IN  InsertAll(first, a \o last)

Modules ==
  /\ rd = "modules"
  /\ srvconf' = [srvconf EXCEPT !.modules = Completed(@)]
  /\ IF retval = "none" THEN Goto("chroot") ELSE Returned("-1")
  /\ UNCHANGED <<vars, stream, next, touched, storage, stat_cache_engine>>

-----------------------------------------------------------------------------
(***************************************************************************)
(* config_set_defaults.                                                    *)
(***************************************************************************)
TempDir ==
  IF <<"TEMPDIR">> \in DOMAIN Env THEN Env[<<"TEMPDIR">>] ELSE <<"/", "var", "/", "temp">>

Chroot ==
  /\ rd = "chroot"
  /\ IF srvconf.changeroot # <<>> /\ srvconf.changeroot \notin Directories
     THEN Returned("-1") /\ UNCHANGED srvconf
     ELSE /\ Goto("tempdirs")
          /\ srvconf' = IF srvconf.upload_tempdirs # <<>> THEN srvconf
                        ELSE [srvconf EXCEPT !.upload_tempdirs = <<StringData(TempDir)>>]
  /\ UNCHANGED <<vars, stream, next, touched, storage, stat_cache_engine>>

Under(root, dir) ==
  IF root = <<>> THEN dir ELSE IF Last(root) = "/" THEN root \o dir ELSE root \o <<"/">> \o dir

Path(i) == Under(srvconf.changeroot, srvconf.upload_tempdirs[i].value)

\* Each directory for uploads, below the root that is to be.
CheckTempdir ==
  /\ rd = "tempdirs" /\ next <= Len(srvconf.upload_tempdirs)
  /\ IF Path(next) \in Directories
     THEN next' = next + 1 /\ UNCHANGED <<rd, retval>>
     ELSE UNCHANGED next /\ Returned("-1")
  /\ UNCHANGED <<vars, stream, srvconf, touched, storage, stat_cache_engine>>

\* chunkqueue_set_tempdirs_default; then a document root must be set, and no
\* option sets it.
DocumentRoot ==
  /\ rd = "tempdirs" /\ next > Len(srvconf.upload_tempdirs)
  /\ rd' = "document_root" /\ retval' = "-1"
  /\ UNCHANGED <<vars, stream, next, srvconf, touched, storage, stat_cache_engine>>

ReadNext ==
  \/ StreamOpen \/ StreamSize \/ StreamMap \/ Parsing \/ StreamClose
  \/ InsertContext \/ InsertFault \/ Engine \/ Modules
  \/ Chroot \/ CheckTempdir \/ DocumentRoot

ReadSpec == ReadInit /\ [][ReadNext]_allVars

\* Sequential code: the parser, and what comes after it, go on.
FairReadSpec == ReadSpec /\ WF_allVars(Parsing /\ Parse)

-----------------------------------------------------------------------------
(***************************************************************************)
(* Properties.                                                             *)
(***************************************************************************)

\* The configuration has its types, and what is read from it.
ReadTypeOK ==
  /\ TypeOK
  /\ rd \in {"open", "fstat", "map", "parse", "insert", "engine", "modules", "chroot",
            "tempdirs", "document_root", "ended"}
  /\ stream \in [fd : BOOLEAN, content : BOOLEAN]
  /\ next \in Nat \ {0} /\ storage \in 0 .. Len(ctx.all_configs)
  /\ \A j \in DOMAIN cv : cv[j][2] = "array" =>
       \A du \in ToSet(srvconf[cv[j][3]]) : du.type = "string"
  /\ stat_cache_engine \in {"unset", "SIMPLE", "NONE"}
  /\ retval \in {"none", "-1", "fault"}

Over == rd \in {"ended", "document_root"} /\ retval # "fault"

\* However the stream is opened and whatever fails, no descriptor and no memory
\* of it is left behind, and never more than one of them is held while parsing.
StreamReleased ==
  /\ rd \notin {"fstat", "map"} => ~stream.fd
  /\ Over \/ rd \in {"insert", "engine", "modules", "chroot", "tempdirs"} => stream = NoStream

\* Beyond config_insert, what the server goes on with.
Accepted == rd \in {"chroot", "tempdirs", "document_root"}

\* The contexts that set an option, by their place; those in which it is found; and
\* that the index of some context does not lead to it.
Setting(key) ==
  {i \in DOMAIN ctx.all_configs : \E x \in Elements(ctx.dcs[ctx.all_configs[i]]) : x.key = key}
FoundIn(key) == {i \in DOMAIN ctx.all_configs : key \in DOMAIN ctx.dcs[ctx.all_configs[i]].value}
Hidden(key)  == \E i \in DOMAIN ctx.all_configs : \E x \in ctx.dcs[ctx.all_configs[i]].lost : x.key = key
ValueAt(i, key) == ctx.dcs[ctx.all_configs[i]].value[key].value

Within(s, t) == \E i \in 0 .. Len(t) - Len(s) : \A k \in DOMAIN s : t[i + k] = s[k]

\* A server goes on with what the file says: it has an entry of config_storage
\* for every context, and every option that stands in a context was used, unless
\* the index of a context does not lead to it.  Of an option that is a string the
\* context that comes last counts, whatever was read in between; of one that is a
\* list all do.  Uploads go to directories that are there, below the root the
\* server will have.
OptionsTaken ==
  /\ Accepted => storage = Len(ctx.all_configs)
  /\ rd = "document_root" => \A du \in ToSet(srvconf.upload_tempdirs) :
       Under(srvconf.changeroot, du.value) \in Directories
  /\ Accepted => \A j \in DOMAIN cv :
       LET key == cv[j][1]
           to  == srvconf[cv[j][3]]
       IN  ~Hidden(key) =>
           /\ Setting(key) # {} => key \in touched
           /\ IF cv[j][2] = "string"
              THEN \/ Setting(key) = {} /\ to = <<>>
                   \/ \E i \in Setting(key) : to = ValueAt(i, key) /\ \A k \in Setting(key) : k <= i
              ELSE \A i \in Setting(key) : \A e \in ToSet(ValueAt(i, key)) :
                     \E du \in ToSet(to) : Within(e.value, du.value)

Place(m) == SelectInSeq(srvconf.modules, LAMBDA du : du.value = m)

\* The modules every server needs are in the list; what the file does not name
\* stands where it must: the index before the files that are served.
ModulesComplete ==
  Accepted =>
    /\ \A m \in {<<"indexfile">>, <<"dirlisting">>, <<"staticfile">>} : Loads(srvconf.modules, Mod(m))
    /\ Loads(srvconf.modules, Mod(<<"auth">>)) => Loads(srvconf.modules, Mod(<<"authn", "_", "file">>))
    /\ LET named == UNION {ToSet(ValueAt(i, Server(<<"modules">>))) : i \in FoundIn(Server(<<"modules">>))}
       IN  {du.value : du \in named} \cap {Mod(<<"indexfile">>), Mod(<<"staticfile">>)} = {}
             => Place(Mod(<<"indexfile">>)) < Place(Mod(<<"staticfile">>))

\* doc/lighttpd.conf:115 sets server.document-root, and mconfigfile.c:702 says
\* that "a default document-root has to be set" when it refuses.
DocumentRootTaken ==
  rd = "document_root" => Server(<<"document", "-", "root">>) \notin DOMAIN ctx.dcs[Global].value
=============================================================================
