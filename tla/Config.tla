-------------------------------- MODULE Config --------------------------------
(***************************************************************************)
(* Loading the configuration at start-up: LNIniFile::parse/parseLine      *)
(* (src/core.cpp), LNConfig::load, loadLogItem, readSectionParam and      *)
(* readGeneralConfig (src/configuration.cpp), the registries LNLogFiles   *)
(* and LNLogItems and LNLogFile::open (src/monitor.cpp), and              *)
(* loadConfiguration(false) (src/main.cpp).                               *)
(*                                                                         *)
(* The configuration file is a sequence of lines, each already classified *)
(* the way parseLine's three pcre patterns classify it: a comment or      *)
(* blank line, a section header, or "key = value".  Keys, values, section *)
(* names and paths are strings from small sets.  The file system is the   *)
(* kind of each path: "none", "file" or "fifo".                           *)
(***************************************************************************)
EXTENDS Naturals, Sequences, SequencesExt, FiniteSets, TLC

CONSTANTS
    General,    \* CONF_SECTION_GENERAL
    MapOrder,   \* every section name, in std::map (lexicographic) order
    Paths,      \* the paths a section may name
    ConfFiles,  \* the configuration files the operator may have written
    NoFile,     \* the configuration file does not exist
    Uninit,     \* a number read from memory that was never written
    CliIds      \* the values --uid and --gid may give (0: not given)

VARIABLES
    conf,       \* the configuration file
    fs,         \* the kind of each path in the file system
    pc,         \* where loadConfiguration is
    ini,        \* m_iniFile: section -> (key -> value)
    todo,       \* the sections load still has to pass to loadLogItem
    paramError, \* m_param_error
    items,      \* m_lItems: rule name -> the rule loadLogItem built
    files,      \* m_byPath: path -> [type, fd, rules attached]
    byDesc,     \* m_byDesc: fd -> path
    nextFd,     \* the descriptor the next open() returns
    gid, uid,   \* LNConfig's m_gid and m_uid
    gGid, gUid  \* g_gid and g_uid: the ids the process switches to (0: none)

vars == <<conf, fs, pc, ini, todo, paramError, items, files, byDesc, nextFd,
          gid, uid, gGid, gUid>>

(* CONF_VALID_OPTIONS_MAP, restricted to the keys the model writes.       *)
ValidOptions == {"upbound_action", "downbound_action", "size_action",
                 "upbound_freq", "downbound_freq", "size", "usecrc", "path",
                 "file_type", "uid", "gid", "loadtime"}

(* def_config, as LNConfig's constructor fills it.  upbound_action and   *)
(* path have no default.                                                  *)
Defaults == ("downbound_action" :> "") @@ ("size_action" :> "") @@
            ("upbound_freq" :> "0/1") @@ ("downbound_freq" :> "0/1") @@
            ("size" :> "0") @@ ("usecrc" :> "0") @@ ("file_type" :> "file") @@
            ("uid" :> "0") @@ ("gid" :> "0")

(* ft_map                                                                  *)
FileTypes == {"file", "fifo", "usock"}

(* g_mainConfig: a global LNIniFile that nothing ever parses.             *)
GMainConfig == General :> [k \in {} |-> ""]

Empty == [k \in {} |-> ""]
-----------------------------------------------------------------------------
(* Strings are TLA+ strings; Head, Tail and SubSeq take them apart.       *)
Digit == [c \in {"0", "1", "2", "3", "4", "5", "6", "7", "8", "9"} |->
            CHOOSE v \in 0..9 : SubSeq("0123456789", v + 1, v + 1) = c]

(* The leading decimal digits of s.                                        *)
RECURSIVE DigitPrefix(_)
DigitPrefix(s) ==
    IF s # "" /\ Head(s) \in DOMAIN Digit THEN Head(s) \o DigitPrefix(Tail(s))
    ELSE ""

(* The number a string of digits denotes.                                 *)
RECURSIVE NumOf(_)
NumOf(d) ==
    IF d = "" THEN 0
    ELSE 10 * NumOf(SubSeq(d, 1, Len(d) - 1)) + Digit[SubSeq(d, Len(d), Len(d))]

(* atoi, for values without leading blanks or sign.                       *)
Atoi(v) == NumOf(DigitPrefix(v))

(* boolean_value: a value longer than one character is true when it is    *)
(* "yes" or "true", a shorter one when atoi gives a non-zero number.     *)
BooleanValue(v) == IF Len(v) > 1 THEN v \in {"yes", "true"} ELSE Atoi(v) # 0

(* size_value: the leading digits are copied into num, a buffer of       *)
(* val.size() bytes that is never NUL-terminated, and atoi(num) reads on  *)
(* into bytes never written: it gives the number of the digits when the   *)
(* next byte is not a digit, and a larger one (Uninit) when it is.  The   *)
(* unit letter after the digits scales the result; an unknown unit and a  *)
(* value with no leading digit are only logged.  ("G" is left out: 2^40   *)
(* does not fit TLC's integers.)                                          *)
SizeValue(v) ==
    LET d    == DigitPrefix(v)
        unit == IF Len(d) < Len(v) THEN SubSeq(v, Len(d) + 1, Len(d) + 1) ELSE "B"
        mult == CASE unit = "K" -> 1024 [] unit = "M" -> 1048576 [] OTHER -> 1
    IN IF d = "" THEN {0} ELSE {NumOf(d) * mult, Uninit}

(* The position of the first "/" in s, 0 if there is none.                *)
SlashAt(s) ==
    LET at == {i \in 1..Len(s) : SubSeq(s, i, i) = "/"}
    IN IF at = {} THEN 0 ELSE CHOOSE i \in at : \A j \in at : i <= j

(* explodeString(result, str, "/"): the fragments between separators; an  *)
(* empty string gives one empty fragment, and an empty last fragment is   *)
(* dropped.                                                                *)
RECURSIVE ExplodeRest(_)
ExplodeRest(s) ==
    IF SlashAt(s) = 0 THEN (IF s = "" THEN <<>> ELSE <<s>>)
    ELSE <<SubSeq(s, 1, SlashAt(s) - 1)>> \o ExplodeRest(SubSeq(s, SlashAt(s) + 1, Len(s)))

Explode(s) == IF s = "" THEN <<"">> ELSE ExplodeRest(s)

(* LNFreq(const std::string &) and SetFromString: count and period are    *)
(* the atoi of the first two fragments; with fewer than two fragments a   *)
(* warning is logged and m_count and m_time keep whatever the stack held  *)
(* (the constructor does not initialise them).                            *)
FreqValue(v) ==
    LET e == Explode(v)
    IN IF Len(e) < 2 THEN Uninit ELSE [count |-> Atoi(e[1]), time |-> Atoi(e[2])]
-----------------------------------------------------------------------------
(* parseLine: comments and blank lines are skipped; a section header      *)
(* creates the section if it is new and makes it current; "key = value"   *)
(* is stored in the current section.  The item pattern needs at least one *)
(* character after "=", so a key with an empty value is malformed and     *)
(* only logged.                                                           *)
ParseLine(st, l) ==
    CASE l.kind = "section" ->
            [ini |-> IF l.name \in DOMAIN st.ini THEN st.ini
                     ELSE (l.name :> Empty) @@ st.ini,
             cur |-> l.name]
      [] l.kind = "item" /\ l.val # "" ->
            [st EXCEPT !.ini[st.cur] = (l.key :> l.val) @@ @]
      [] OTHER -> st

(* parse: the map is cleared, [general] created and made current, and     *)
(* every line passed to parseLine.                                        *)
Parse(lines) ==
    FoldLeft(ParseLine, [ini |-> General :> Empty, cur |-> General], lines).ini

(* readGeneralConfig: the [general] value, else the default; with neither *)
(* an error is logged, m_param_error set and "" returned.                 *)
ReadGeneral(k) ==
    IF k \in DOMAIN ini[General] THEN [val |-> ini[General][k], err |-> FALSE]
    ELSE IF k \in DOMAIN Defaults THEN [val |-> Defaults[k], err |-> FALSE]
    ELSE [val |-> "", err |-> TRUE]

(* readSectionParam: the section's own value, else readGeneralConfig.     *)
Read(n, k) ==
    IF k \in DOMAIN ini[n] THEN [val |-> ini[n][k], err |-> FALSE]
    ELSE ReadGeneral(k)

(* LNLogFile::open up to the descriptor: a socket is refused; a missing   *)
(* path is created with mkfifo for a FIFO (which fails for "") and is an  *)
(* error for a regular file; an existing path is opened whatever its     *)
(* kind.                                                                   *)
Open(p, type) ==
    CASE type = "usock"                          -> [ok |-> FALSE, fs |-> fs]
      [] fs[p] = "none" /\ type = "fifo" /\ p # "" -> [ok |-> TRUE,
                                                     fs |-> [fs EXCEPT ![p] = "fifo"]]
      [] fs[p] = "none"                          -> [ok |-> FALSE, fs |-> fs]
      [] OTHER                                   -> [ok |-> TRUE, fs |-> fs]
-----------------------------------------------------------------------------
Init ==
    /\ conf \in ConfFiles \cup {NoFile}
    /\ fs \in [Paths \cup {""} -> {"none", "file", "fifo"}] /\ fs[""] = "none"
    /\ pc = "parse" /\ ini = General :> Empty /\ todo = <<>>
    /\ paramError = FALSE /\ items = Empty /\ files = Empty
    /\ byDesc = [d \in {} |-> ""] /\ nextFd = 3 /\ gid = 0 /\ uid = 0
    /\ gGid \in CliIds /\ gUid \in CliIds

(* load: unload (empty at start-up) and parse; a file fopen cannot open   *)
(* fails the load and loadConfiguration calls logFatal.                   *)
LoadParse ==
    /\ pc = "parse"
    /\ IF conf = NoFile
       THEN pc' = "fatal" /\ UNCHANGED ini
       ELSE pc' = "check" /\ ini' = Parse(conf)
    /\ UNCHANGED <<conf, fs, todo, paramError, items, files, byDesc, nextFd, gid, uid, gGid, gUid>>

(* checkForUnknownOptions, then [general] loadtime is set and every       *)
(* section but [general] is queued in the map's order.                    *)
LoadCheck ==
    /\ pc = "check"
    /\ IF \A s \in DOMAIN ini : DOMAIN ini[s] \subseteq ValidOptions
       THEN /\ pc' = "items"
            /\ ini' = [ini EXCEPT ![General] = ("loadtime" :> "now") @@ @]
            /\ todo' = SelectSeq(MapOrder, LAMBDA s : s \in DOMAIN ini /\ s # General)
       ELSE pc' = "fatal" /\ UNCHANGED <<ini, todo>>
    /\ UNCHANGED <<conf, fs, paramError, items, files, byDesc, nextFd, gid, uid, gGid, gUid>>

(* The rules loadLogItem may build for section n: LNLogItem's constructor *)
(* keeps the actions, the two frequencies, the size and the usecrc flag   *)
(* it is passed, and loadLogItem passes boolean_value of the size_action  *)
(* parameter as usecrc.  The size is a set because of size_value.         *)
Rules(n) ==
    {[up |-> Read(n, "upbound_action").val, down |-> Read(n, "downbound_action").val,
      upfreq |-> FreqValue(Read(n, "upbound_freq").val),
      downfreq |-> FreqValue(Read(n, "downbound_freq").val),
      size |-> sz, usecrc |-> BooleanValue(Read(n, "size_action").val),
      path |-> Read(n, "path").val] : sz \in SizeValue(Read(n, "size").val)}

(* LNLogFiles::find(path): the source already opened for the path.       *)
FindSource(p) == p \in DOMAIN files

(* LNLogFiles::open after the file opened: the source is mapped by its    *)
(* descriptor and by its path.                                             *)
Register(p, type, n) ==
    /\ files' = (p :> [type |-> type, fd |-> nextFd, rules |-> {n}]) @@ files
    /\ byDesc' = (nextFd :> p) @@ byDesc
    /\ nextFd' = nextFd + 1

(* pFile->getAttachedItems().add(pItem) and m_lItems.add(pItem): the rule *)
(* joins the source's rules and the configuration's rules, by name.       *)
AttachRule(n, p, r) ==
    /\ files' = [files EXCEPT ![p].rules = @ \cup {n}]
    /\ items' = (n :> r) @@ items

(* loadLogItem for the next section: the rule's parameters (a missing one *)
(* fails the load and resets m_param_error), the file type, then the path *)
(* (read after the m_param_error test, so a missing path sets the flag    *)
(* and goes on with ""), the source found (LNLogFiles::find) or opened    *)
(* and registered, and the rule attached.                                  *)
LoadLogItem ==
    /\ pc = "items" /\ todo # <<>>
    /\ LET n    == Head(todo)
           err  == paramError \/ Read(n, "upbound_action").err
           type == Read(n, "file_type").val
           p    == Read(n, "path")
           o    == Open(p.val, type)
       IN IF err THEN pc' = "fatal" /\ paramError' = FALSE
                      /\ UNCHANGED <<todo, items, files, byDesc, nextFd, fs>>
          ELSE IF type \notin FileTypes
          THEN pc' = "fatal" /\ UNCHANGED <<todo, paramError, items, files, byDesc, nextFd, fs>>
          ELSE IF FindSource(p.val)
          THEN /\ \E r \in Rules(n) : AttachRule(n, p.val, r)
               /\ todo' = Tail(todo) /\ paramError' = p.err
               /\ UNCHANGED <<pc, byDesc, nextFd, fs>>
          ELSE IF ~o.ok
          THEN pc' = "fatal" /\ paramError' = p.err
               /\ UNCHANGED <<todo, items, files, byDesc, nextFd, fs>>
          ELSE /\ fs' = o.fs
               /\ Register(p.val, type, n)
               /\ \E r \in Rules(n) : items' = (n :> r) @@ items
               /\ todo' = Tail(todo) /\ paramError' = p.err
               /\ UNCHANGED pc
    /\ UNCHANGED <<conf, ini, gid, uid, gGid, gUid>>

(* The end of load: m_gid from [general] gid, m_uid only when g_mainConfig *)
(* has a [general] uid.  loadConfiguration(false) then takes them as the  *)
(* ids to switch to (no --uid or --gid given).                             *)
LoadIds ==
    /\ pc = "items" /\ todo = <<>>
    /\ gid' = IF "gid" \in DOMAIN ini[General] THEN Atoi(ini[General]["gid"]) ELSE 0
    /\ uid' = IF "uid" \in DOMAIN GMainConfig[General]
              THEN Atoi(ini[General]["uid"]) ELSE 0
    /\ pc' = "done"
    /\ UNCHANGED <<conf, fs, ini, todo, paramError, items, files, byDesc, nextFd, gGid, gUid>>

(* loadConfiguration(false) after the load: an id not given on the       *)
(* command line is taken from the configuration; then setuid, then       *)
(* setgid.  The daemon starts as root, so setuid succeeds; setgid to a   *)
(* non-zero gid needs privilege the process no longer has once its uid  *)
(* is not 0 (EPERM), and logFatal exits.                                  *)
SwitchIds ==
    /\ pc = "done"
    /\ LET u == IF gUid # 0 THEN gUid ELSE uid
           g == IF gGid # 0 THEN gGid ELSE gid
       IN /\ gUid' = u /\ gGid' = g
          /\ pc' = IF u # 0 /\ g # 0 THEN "fatal" ELSE "running"
    /\ UNCHANGED <<conf, fs, ini, todo, paramError, items, files, byDesc, nextFd, gid, uid>>

Next == LoadParse \/ LoadCheck \/ LoadLogItem \/ LoadIds \/ SwitchIds

Spec == Init /\ [][Next]_vars
-----------------------------------------------------------------------------
(***************************************************************************)
(* The configuration spec section 6 describes, for the parsed file (the   *)
(* INI reader is an external component, C12): [general] gives defaults    *)
(* that a section overrides; an empty upbound_action, downbound_action or *)
(* size_action disables it; usecrc is yes, true or a non-zero number;     *)
(* a frequency is count/period and a size digits with an optional B, K, *)
(* M or G; uid and gid 0 mean no switch; a source is shared by the sections that  *)
(* name its path and is opened with the kind of the first of them; the    *)
(* load fails on a missing file, an unknown option, an unknown file kind   *)
(* an invalid size or frequency expression, or an unreadable target (a    *)
(* missing regular file; a FIFO is created).                               *)
(***************************************************************************)
SpecDefaults == ("upbound_action" :> "") @@ ("downbound_action" :> "") @@
                ("size_action" :> "") @@ ("upbound_freq" :> "0/1") @@
                ("downbound_freq" :> "0/1") @@ ("size" :> "0") @@
                ("usecrc" :> "0") @@ ("path" :> "") @@
                ("file_type" :> "file") @@ ("uid" :> "0") @@ ("gid" :> "0")

SpecValue(pini, n, k) ==
    IF k \in DOMAIN pini[n] THEN pini[n][k]
    ELSE IF k \in DOMAIN pini[General] THEN pini[General][k]
    ELSE SpecDefaults[k]

SpecRuleNames(pini) == DOMAIN pini \ {General}

IsNumeral(v) == v # "" /\ DigitPrefix(v) = v

SpecFreqValid(v) ==
    SlashAt(v) > 0 /\ IsNumeral(SubSeq(v, 1, SlashAt(v) - 1))
                  /\ IsNumeral(SubSeq(v, SlashAt(v) + 1, Len(v)))

SpecFreq(v) == [count |-> Atoi(v), time |-> Atoi(SubSeq(v, SlashAt(v) + 1, Len(v)))]

SpecUnit == ("" :> 1) @@ ("B" :> 1) @@ ("K" :> 1024) @@ ("M" :> 1048576)

SpecSizeValid(v) ==
    DigitPrefix(v) # "" /\ SubSeq(v, Len(DigitPrefix(v)) + 1, Len(v)) \in DOMAIN SpecUnit

SpecSize(v) == Atoi(v) * SpecUnit[SubSeq(v, Len(DigitPrefix(v)) + 1, Len(v))]

SpecRule(pini, n) ==
    [up |-> SpecValue(pini, n, "upbound_action"),
     down |-> SpecValue(pini, n, "downbound_action"),
     upfreq |-> SpecFreq(SpecValue(pini, n, "upbound_freq")),
     downfreq |-> SpecFreq(SpecValue(pini, n, "downbound_freq")),
     size |-> SpecSize(SpecValue(pini, n, "size")),
     usecrc |-> SpecValue(pini, n, "usecrc") \in {"yes", "true"} \/
                Atoi(SpecValue(pini, n, "usecrc")) # 0,
     path |-> SpecValue(pini, n, "path")]

(* The kind a shared source is opened with: that of the first section (in *)
(* the map's order) naming the path.                                      *)
SpecKind(pini, p) ==
    LET named == SelectSeq(MapOrder, LAMBDA s : s \in SpecRuleNames(pini)
                                   /\ SpecValue(pini, s, "path") = p)
    IN SpecValue(pini, Head(named), "file_type")

SpecAccepts(pini) ==
    /\ \A s \in DOMAIN pini : DOMAIN pini[s] \subseteq ValidOptions
    /\ \A n \in SpecRuleNames(pini) :
          LET p == SpecValue(pini, n, "path") IN
          /\ SpecValue(pini, n, "file_type") \in {"file", "fifo"}
          /\ SpecFreqValid(SpecValue(pini, n, "upbound_freq"))
          /\ SpecFreqValid(SpecValue(pini, n, "downbound_freq"))
          /\ SpecSizeValid(SpecValue(pini, n, "size"))
          /\ p # ""
          /\ fs[p] = "none" => SpecKind(pini, p) = "fifo"

(* Start-up loads the configuration spec section 6 defines: when the file *)
(* is one the spec accepts, loadConfiguration(false) installs exactly its *)
(* rules, with their actions, frequencies, size and fingerprint setting, *)
(* one source per path and the process ids of [general], and switching  *)
(* to them (or to those --uid and --gid give) succeeds; when it is not,  *)
(* the load fails (logFatal).  It checks LNConfig::load and loadLogItem  *)
(* as a whole.                                                             *)
ConfigAsSpec ==
    LET pini == Parse(conf) IN
    /\ pc = "fatal" => conf = NoFile \/ ~SpecAccepts(pini)
    /\ pc \in {"done", "running"} =>
          /\ conf # NoFile /\ SpecAccepts(pini)
          /\ items = [n \in SpecRuleNames(pini) |-> SpecRule(pini, n)]
          /\ DOMAIN files = {SpecRule(pini, n).path : n \in SpecRuleNames(pini)}
          /\ gid = Atoi(SpecValue(pini, General, "gid"))
          /\ uid = Atoi(SpecValue(pini, General, "uid"))
====
