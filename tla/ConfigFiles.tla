---------------------------- MODULE ConfigFiles -----------------------------
(***************************************************************************)
(* The configuration files: `tinc get, set, add, del` rewrite them         *)
(* (tincctl/src/lib.rs), the administrator edits them by hand, and the     *)
(* daemon reads them with a parser of its own (tinc-core/src/config.rs)    *)
(* when it starts and when it is told to reload (tincd/src/server.rs,      *)
(* cli.rs; tinc-runtime/src/config.rs).                                    *)
(***************************************************************************)
EXTENDS Integers, Sequences, SequencesExt, FiniteSets, FiniteSetsExt, Removal

CONSTANTS
    VarFlags,       \* VARIABLES: [variable -> what it is allowed to be]
    Edits,          \* the commands that are given
    HandEdits,      \* the lines that are put in by hand
    FirstFiles,     \* what the files may be in the beginning
    Options,        \* the options of the daemon's command line
    LowerCase,      \* [value -> the value in small letters], where they differ
    MaxEdits        \* how many commands and changes by hand there are

VARIABLES
    files,          \* the lines of each file
    spoilt,         \* the key files that cannot be read
    last,           \* the last command, and what the files were before it
    runtime,        \* the configuration in RuntimeDaemonState
    server,         \* the configuration in the main loop
    answer,         \* what the last reload was answered, if nothing changed since
    startable,      \* the configurations a daemon could have started with
    changes         \* how many changes there were

configVars == <<files, spoilt, last, runtime, server, answer, startable, changes>>

(* A line is an entry, one that is indented, one without a value, or the   *)
(* first or last line of a key.                                            *)
None == "none"
Forms == {"entry", "indented", "no value", "begin", "end"}
IsLine(l) == l.form \in Forms /\ (l.form = "no value" => l.val = None)
ConfigLine(form, var, val) == [form |-> form, var |-> var, val |-> val]
Entry(var, val) == ConfigLine("entry", var, val)
Places == {"tinc.conf", "conf.d", "self", "peer"}

(* Files are sequences of lines, commands are about the files there are,   *)
(* and small letters make no value out of none.                            *)
ASSUME ConfigAssumption ==
    /\ \A fs \in FirstFiles : /\ DOMAIN fs = Places
                              /\ \A p \in Places : /\ fs[p] \in Seq(ToSet(fs[p]))
                                                   /\ \A l \in ToSet(fs[p]) : IsLine(l)
    /\ \A hand \in HandEdits : hand.place \in Places /\ IsLine(hand.line)
    /\ \A edit \in Edits : /\ edit.node \in {None, "self", "peer"}
                           /\ edit.action \in {"get", "set", "add", "del"}
    /\ \A val \in DOMAIN LowerCase : val # None /\ LowerCase[val] # None
Valid(var, val) == <<var, val>> \notin {<<"Subnet", "bad">>, <<"Mode", "bad">>}

-----------------------------------------------------------------------------
(* parse_config_edit: `get` with a value is `set`; set and add want one.   *)
Action(edit) == IF edit.action = "get" /\ edit.val # None THEN "set" ELSE edit.action
WantsValue(edit) == Action(edit) \in {"set", "add"}

(* prepare_config_edit: which file is edited, and when the command is      *)
(* refused.                                                                *)
FlagsOf(var) == IF var \in DOMAIN VarFlags THEN VarFlags[var] ELSE {}
Refused(edit) ==
    \/ WantsValue(edit) /\ edit.val = None
    \/ edit.var = "Subnet" /\ edit.val # None /\ ~Valid(edit.var, edit.val)
    \/ /\ WantsValue(edit) /\ ~edit.force
       /\ \/ edit.var \notin DOMAIN VarFlags
          \/ "obsolete" \in FlagsOf(edit.var)
          \/ edit.node # None /\ "host" \notin FlagsOf(edit.var)
Place(edit) ==
    IF edit.node # None THEN edit.node
    ELSE IF edit.var \in DOMAIN VarFlags /\ "server" \notin FlagsOf(edit.var) THEN "self" ELSE "tinc.conf"
Prepared(edit) ==
    IF Action(edit) = "add" /\ edit.var \in DOMAIN VarFlags /\ "multiple" \notin FlagsOf(edit.var)
    THEN "set" ELSE Action(edit)

(* parse_config_file_line of the tool, which trims and knows of no keys.   *)
ToolReads(l, var) == l.form \in {"entry", "indented", "no value"} /\ l.var = var

(* eq_ignore_ascii_case: the tool takes values that differ in the case of  *)
(* their letters for the same, whatever the variable is.                   *)
Folded(val) == IF val \in DOMAIN LowerCase THEN LowerCase[val] ELSE val
SameWord(a, b) == Folded(a) = Folded(b)

(* edit_config_file, for what is written: `set` puts the new line in the   *)
(* place of the first one and drops the others; `add` looks for a line of  *)
(* the same value, and `del` drops all those there are.                    *)
ToolFinds(lines, var) == {i \in DOMAIN lines : ToolReads(lines[i], var)}
ToolLines(lines, var, val) ==
    {l \in ToSet(lines) : ToolReads(l, var) /\ (val = None \/ SameWord(l.val, val))}
SetLineKeepsOthers(lines, var, val) ==
    IF ToolFinds(lines, var) = {} THEN Append(lines, Entry(var, val))
    ELSE [lines EXCEPT ![Min(ToolFinds(lines, var))] = Entry(var, val)]
SetLine(lines, var, val) ==
    IF ToolFinds(lines, var) = {} THEN Append(lines, Entry(var, val))
    ELSE LET first == Min(ToolFinds(lines, var))
         IN  SubSeq(lines, 1, first - 1) \o <<Entry(var, val)>>
                 \o AllBut(SubSeq(lines, first + 1, Len(lines)), ToolLines(lines, var, None))
AddLine(lines, var, val) ==
    IF ToolLines(lines, var, val) # {} THEN lines ELSE Append(lines, Entry(var, val))
Rewritten(lines, action, var, val) ==
    CASE action = "set" -> SetLine(lines, var, val)
      [] action = "add" -> AddLine(lines, var, val)
      [] action = "del" -> AllBut(lines, ToolLines(lines, var, val))

-----------------------------------------------------------------------------
(* parse_config_file of the daemon: lines of a key are skipped, a line     *)
(* without a value spoils the file, an indented line has an empty name.    *)
InKey(lines, i) ==
    \E b \in 1 .. i - 1 : /\ lines[b].form = "begin"
                          /\ \A k \in b + 1 .. i - 1 : lines[k].form # "end"
Parses(lines) == \A i \in DOMAIN lines : lines[i].form = "no value" => InKey(lines, i)
ReadLines(lines, var) ==
    {i \in DOMAIN lines : lines[i].form = "entry" /\ lines[i].var = var /\ ~InKey(lines, i)}

(* read_server_config, read_host_config, ConfigTree::add, compare_config:  *)
(* options of the command line, then lower lines whatever their file, then *)
(* files in the order of their names.                                      *)
FileOrder(place) == CASE place = "conf.d" -> 1 [] place = "self" -> 2 [] place = "peer" -> 3 [] OTHER -> 4
Tree(fs, places, var) ==
    LET all == UNION {{[line |-> i, file |-> p, val |-> fs[p][i].val] : i \in ReadLines(fs[p], var)} : p \in places}
        ordered == SetToSortSeq(all, LAMBDA a, b : \/ a.line < b.line
                                                   \/ a.line = b.line /\ FileOrder(a.file) < FileOrder(b.file))
        given == SelectSeq(Options, LAMBDA o : o.var = var)
    IN  [i \in DOMAIN given |-> given[i].val] \o [i \in DOMAIN ordered |-> ordered[i].val]

(* RuntimeConfig::from_config_tree_with_hosts: a variable of one value is  *)
(* the first one; the subnets of peers count only with StrictSubnets.      *)
Own == {"tinc.conf", "conf.d", "self"}
ReadVars == {"Name", "Mode", "ConnectTo", "Subnet"}
Reading(fs) ==
    LET tree(var) == Tree(fs, Own, var)
    IN  [v \in ReadVars |-> IF v \in {"ConnectTo", "Subnet"} THEN tree(v) ELSE SubSeq(tree(v), 1, 1)]
IsLoadable(fs) ==
    /\ \A p \in Places : Parses(fs[p])
    /\ Tree(fs, Own, "Name") # <<>>
    /\ \A val \in ToSet(SubSeq(Tree(fs, Own, "Mode"), 1, 1)) : Valid("Mode", val)
    /\ \A val \in ToSet(Tree(fs, Own, "Subnet")) : Valid("Subnet", val)

(* load_runtime_keys.                                                      *)
HasKeys(keys) == keys \intersect {"private", "peer"} = {}
Startable(fs, keys) == IF IsLoadable(fs) /\ HasKeys(keys) THEN {Reading(fs)} ELSE {}

-----------------------------------------------------------------------------
ConfigInit ==
    /\ files \in {fs \in FirstFiles : IsLoadable(fs)}
    /\ spoilt = {}
    /\ last = [action |-> "start", edit |-> [var |-> None, val |-> None], place |-> "self", before |-> files]
    /\ runtime = Reading(files)
    /\ server = runtime
    /\ answer = "ok"
    /\ startable = {runtime}
    /\ changes = 0

Changed(action, edit, place, lines) ==
    /\ changes < MaxEdits
    /\ files' = [files EXCEPT ![place] = lines]
    /\ last' = [action |-> action, edit |-> edit, place |-> place, before |-> files]
    /\ answer' = None
    /\ startable' = startable \union Startable(files', spoilt)
    /\ changes' = changes + 1

(* run_config_command: the tool edits one file and renames it into place.  *)
(* Without a node a host variable belongs to the daemon of the name in     *)
(* tinc.conf, whose file is there only while that name is its own.         *)
ToolName == LET named == ToolFinds(files["tinc.conf"], "Name")
            IN  IF named = {} THEN None ELSE files["tinc.conf"][Min(named)].val
Edit(edit) ==
    LET place == Place(edit)
        action == Prepared(edit)
    IN  /\ action # "get"
        /\ ~Refused(edit)
        /\ place = "self" /\ edit.node = None => ToolName = "me"
        /\ action = "del" => ToolLines(files[place], edit.var, edit.val) # {}
        /\ Changed(action, edit, place, Rewritten(files[place], action, edit.var, edit.val))
        /\ UNCHANGED <<spoilt, runtime, server>>

(* The administrator puts a line at the front or the end of a file.        *)
EditByHand(hand) ==
    /\ Changed("hand", [var |-> None, val |-> None], hand.place,
               IF hand.first THEN <<hand.line>> \o files[hand.place] ELSE Append(files[hand.place], hand.line))
    /\ UNCHANGED <<spoilt, runtime, server>>

(* A key file is replaced by something that cannot be read, or repaired.   *)
Spoil(key) ==
    /\ changes < MaxEdits
    /\ spoilt' = IF key \in spoilt THEN spoilt \ {key} ELSE spoilt \union {key}
    /\ answer' = None
    /\ startable' = startable \union Startable(files, spoilt')
    /\ changes' = changes + 1
    /\ UNCHANGED <<files, last, runtime, server>>

(* reload_runtime_config: everything is read before anything is applied,   *)
(* apply_reloaded_config refuses another Name; the invitation key is read  *)
(* after that, and only then does the main loop take the configuration.    *)
IsApplicable == IsLoadable(files) /\ HasKeys(spoilt) /\ Reading(files)["Name"] = <<"me">>
ReloadConfig ==
    /\ answer = None
    /\ runtime' = IF IsApplicable THEN Reading(files) ELSE runtime
    /\ server' = IF IsApplicable /\ "invitation" \notin spoilt THEN Reading(files) ELSE server
    /\ answer' = IF IsApplicable /\ "invitation" \notin spoilt THEN "ok" ELSE "failed"
    /\ UNCHANGED <<files, spoilt, last, startable, changes>>

ConfigNext ==
    \/ \E edit \in Edits : Edit(edit)
    \/ \E hand \in HandEdits : EditByHand(hand)
    \/ \E key \in {"private", "peer", "invitation"} : Spoil(key)
    \/ ReloadConfig

-----------------------------------------------------------------------------
ConfigSpec == ConfigInit /\ [][ConfigNext]_configVars

-----------------------------------------------------------------------------
ReadValues(lines, var) == {lines[i].val : i \in ReadLines(lines, var)}
HidesSome(lines, var) ==
    \E i \in DOMAIN lines : ToolReads(lines[i], var) /\ (lines[i].form = "indented" \/ InKey(lines, i))
IsOpen(lines) == InKey(lines, Len(lines) + 1)

(* What the daemon reads after a command of the tool.                      *)
IsReadAs(after, before, action, var, val) ==
    LET same == ~HidesSome(before, var) /\ ~IsOpen(before)
    IN  /\ \A v \in ReadVars \ {var} : ReadValues(after, v) = ReadValues(before, v)
        /\ action = "set" /\ same =>
             \E i \in DOMAIN after : ReadLines(after, var) = {i} /\ after[i].val = val
        /\ action = "add" /\ same =>
             ReadValues(after, var) = ReadValues(before, var)
                 \union (IF \E v \in ReadValues(before, var) : SameWord(v, val) THEN {} ELSE {val})
        /\ action = "del" =>
             ReadValues(after, var) =
                 IF val = None THEN {} ELSE {v \in ReadValues(before, var) : ~SameWord(v, val)}
        /\ Parses(before) => Parses(after)

(* Invariant: what the tool has written, the daemon reads.  `set` leaves   *)
(* exactly the new value, `add` adds it unless one that differs only in    *)
(* the case of its letters is there, `del` removes it with all such, and   *)
(* none of them disturbs another variable or spoils the file, although     *)
(* tool and daemon parse it with code of their own.  (For the daemon the   *)
(* names of nodes do differ in case: beside `ConnectTo = Alpha` `add       *)
(* ConnectTo alpha` connects it to no alpha, and `del ConnectTo alpha`     *)
(* takes Alpha from it.)  An administrator who indents a line, puts one    *)
(* inside a key or leaves a key without its end has made a file the two    *)
(* read differently (edit_config_file, parse_config_file).                 *)
EditsAreRead ==
    last.action \in {"set", "add", "del"} =>
        IsReadAs(files[last.place], last.before[last.place], last.action, last.edit.var, last.edit.val)

(* Invariant: a reload that succeeds leaves both copies of the             *)
(* configuration as the files are, and whatever fails on the way, neither  *)
(* copy is ever made of files a daemon could not have started with.  (The  *)
(* two copies may differ while the invitation key cannot be read: that is  *)
(* noticed only when the daemon state has taken the new configuration.)    *)
ReloadIsWhole ==
    /\ answer = "ok" => runtime = Reading(files) /\ server = runtime
    /\ runtime \in startable /\ server \in startable

(* Invariant: an edit is read as the tool says, a reload takes all of it   *)
(* or nothing.                                                             *)
ConfigurationHolds == EditsAreRead /\ ReloadIsWhole
=============================================================================
