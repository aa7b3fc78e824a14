------------------------------ MODULE CloudInit ------------------------------
(***************************************************************************)
(* The cloud-init adapter of src/pkg/cloudinit: a cloud-config is scanned  *)
(* line by line into actions (getActions), and the actions become a shell  *)
(* script (GenerateScript) that the machine runs once.                     *)
(*                                                                         *)
(* A cloud-config is a sequence of sections, a top level key and its       *)
(* items; a script is a sequence of statements.  The properties compare    *)
(* what bash makes of the script with what the cloud-config asks for.      *)
(***************************************************************************)
EXTENDS Naturals, SequencesExt

CONSTANTS
  Files,      \* items that are files of write_files
  Commands,   \* items that are commands of runcmd
  Others,     \* items that are neither: of the wrong type or, where they stand, not YAML
  Long,       \* the items with a line of more than 64 KiB
  Configs     \* the cloud-configs: sequences of sections [key, items]

VARIABLES
  config,   \* the cloud-config
  yaml,     \* it is valid YAML
  rest,     \* the lines not scanned yet
  act,      \* the current action ("none": no key has been seen)
  lines,    \* the lines scanned since its key
  actions,  \* the actions found: [key, items]
  script,   \* the script generated
  status    \* "start", "scanning", and then "script", "error" or "panic"

vars == <<config, yaml, rest, act, lines, actions, script, status>>

-----------------------------------------------------------------------------
(* Lines.  The keys are those of the modules known to the adapter; users,  *)
(* a module it does not know; ca-certs, a key with a character outside of  *)
(* the scanner's [a-zA-Z_]; and runcmd with its value on the same line.    *)

Keys == {"write_files", "runcmd", "users", "ca-certs", "runcmd: []"}
Supported == {"write_files", "runcmd"}

KeyLine(k) == [form |-> "key", key |-> k]
Lines(section) == <<KeyLine(section.key)>> \o section.items
LinesOf(c) == FlattenSeq([i \in DOMAIN c |-> Lines(c[i])])

(* A text, by what bash makes of it: where the code writes it with %q and  *)
(* in a here-document that ends at the line END.  There dollar signs,      *)
(* backquotes and some backslashes are expanded, %q turns line breaks into *)
(* \n, and a variable that is not set stops the script, as does a path     *)
(* that cannot be written.  The line break that a here-document ends with  *)
(* is not told apart.  A shell script may also run kubeadm init or join,   *)
(* as its last command or elsewhere.                                       *)
Texts ==
  [name : STRING, quoted : {"kept", "changed", "stops"},
   here : {"kept", "changed", "ends", "stops"}, kubeadm : {"none", "last", "inside"}]
Word(n) == [name |-> n, quoted |-> "kept", here |-> "kept", kubeadm |-> "none"]

Items == Files \cup Commands \cup Others
Sections ==
  [key : {"write_files"}, items : Seq(Files \cup Others)]
  \cup [key : {"runcmd"}, items : Seq(Commands \cup Others)]
  \cup [key : Keys \ Supported, items : Seq(Items)]

(* A command is a list of words, a string or nothing at all, and it        *)
(* succeeds or fails when it is run.                                       *)
ASSUME ItemsAssumption ==
  /\ \A f \in Files : f.form = "file"
  /\ Commands \subseteq [form : {"list", "string", "null"}, words : Seq(Texts), fails : BOOLEAN]
  /\ \A o \in Others : o.form = "other"

ASSUME LongAssumption == Long \subseteq Items

ASSUME ConfigsAssumption == Configs \subseteq Seq(Sections)

IsKey(line) == line.form = "key"
actionRegEx_AnyKey(line) == IsKey(line)
actionRegEx(line) == IsKey(line) /\ line.key # "ca-certs"

(* YAML reads a block line by line: an item belongs to the key above it.   *)
ReadLine(K, r, line) ==
  IF IsKey(line) THEN [key |-> line.key, items |-> r.items]
  ELSE [key |-> r.key, items |-> IF r.key \in K THEN Append(r.items, line) ELSE r.items]

Read(K, block) ==
  LET read[n \in 0 .. Len(block)] ==
        IF n = 0 THEN [key |-> "none", items |-> <<>>] ELSE ReadLine(K, read[n - 1], block[n])
  IN read[Len(block)]

(* The items of the key k in a block of lines.                             *)
ItemsUnder(k, block) == Read({k}, block).items

-----------------------------------------------------------------------------
(* Unmarshal: how the block of an action is read.                          *)

Cmd(cmd, args, fails) == [cmd |-> cmd, args |-> args, fails |-> fails, flag |-> "none"]

(* null is decoded into a list, too, and one without words.                *)
IsEmpty(item) == item.form = "null" \/ (item.form = "list" /\ item.words = <<>>)

UnmarshalJSON_NeedsArgument(item) ==
  CASE item.form = "list" /\ Len(item.words) > 1 ->
         [outcome |-> "ok", cmd |-> Cmd(Head(item.words), Tail(item.words), item.fails)]
    [] item.form = "string" ->
         [outcome |-> "ok", cmd |-> Cmd(Word("/bin/sh"), <<Word("-c")>> \o item.words, item.fails)]
    [] item.form = "null" \/ (item.form = "list" /\ Len(item.words) <= 1) -> [outcome |-> "panic"]
    [] OTHER -> [outcome |-> "error"]

(* The first word of the list is taken, whether there is one or not.       *)
UnmarshalJSON(item) ==
  CASE item.form = "list" /\ ~IsEmpty(item) ->
         [outcome |-> "ok", cmd |-> Cmd(Head(item.words), Tail(item.words), item.fails)]
    [] item.form = "string" ->
         [outcome |-> "ok", cmd |-> Cmd(Word("/bin/sh"), <<Word("-c")>> \o item.words, item.fails)]
    [] IsEmpty(item) -> [outcome |-> "panic"]
    [] OTHER -> [outcome |-> "error"]

(* The first command that cannot be read decides.                          *)
UnmarshalRunCmd(items) ==
  LET read == [i \in DOMAIN items |-> UnmarshalJSON(items[i])]
      failed == {i \in DOMAIN items : read[i].outcome # "ok"}
  IN IF failed = {} THEN [outcome |-> "ok", items |-> [i \in DOMAIN items |-> read[i].cmd]]
     ELSE [outcome |-> IF \E i \in failed : /\ read[i].outcome = "panic"
                                           /\ \A j \in failed : i <= j
                         THEN "panic" ELSE "error",
           items |-> <<>>]

UnmarshalWriteFiles(items) ==
  [outcome |-> IF \A i \in DOMAIN items : items[i].form = "file" THEN "ok" ELSE "error",
   items |-> items]

(* The block of an unknown module is read as JSON, and it starts with a    *)
(* key, so it never is.                                                    *)
UnmarshalUnknown == [outcome |-> "error", items |-> <<>>]

Unmarshal(k, block) ==
  CASE k = "write_files" -> UnmarshalWriteFiles(ItemsUnder(k, block))
    [] k = "runcmd" -> UnmarshalRunCmd(ItemsUnder(k, block))
    [] OTHER -> UnmarshalUnknown

-----------------------------------------------------------------------------
(* Script blocks.                                                          *)

fixEncoding(e) ==
  CASE e = "gz" -> <<"application/x-gzip">>
    [] e = "gz+base64" -> <<"application/base64", "application/x-gzip">>
    [] e = "base64" -> <<"application/base64">>
    [] OTHER -> <<"text/plain">>

(* A content is a text under layers of encoding, the outermost first.      *)
Layer(e) == CASE e = "application/base64" -> <<"base64">>
              [] e = "application/x-gzip" -> <<"gz">>
              [] OTHER -> <<>>

Content(text, layers) == [text |-> text, layers |-> layers]
Decodes(content, layers) == IsPrefix(layers, content.layers)
Decode(content, layers) ==
  Content(content.text, SubSeq(content.layers, Len(layers) + 1, Len(content.layers)))

(* The loop over the encodings returns from its first iteration.           *)
Decoded(file) == Layer(Head(fixEncoding(file.encoding)))
fixContent(file) == Decode(file.content, Decoded(file))

fixPermissions(p) == IF p = "" THEN "0644" ELSE p
fixOwner(o) == IF o = "" THEN "root:root" ELSE o

Statement(op, path, value) == [op |-> op, path |-> path, value |-> value]

writeFileBlock(f) ==
  <<Statement(IF f.append THEN "append" ELSE "write", f.path, fixContent(f))>>
  \o (IF fixPermissions(f.permissions) = "0644" THEN <<>>
      ELSE <<Statement("chmod", f.path, fixPermissions(f.permissions))>>)
  \o (IF fixOwner(f.owner) = "root:root" THEN <<>>
      ELSE <<Statement("chown", f.path, fixOwner(f.owner))>>)

(* The flag is put after the whole script, so that it reaches kubeadm only *)
(* as its last command; of the words of a list it is the last.             *)
RunsKubeadm(text) == text.kubeadm # "none"

hackKubeadmIgnoreErrors_StringsOnly(c) ==
  [c EXCEPT !.flag =
     IF c.cmd.name = "/bin/sh" /\ Len(c.args) >= 2 /\ RunsKubeadm(c.args[2])
       THEN c.args[2].kubeadm ELSE @]

hackKubeadmIgnoreErrors(c) ==
  [c EXCEPT !.flag =
     IF /\ c.cmd.name = "/bin/sh" /\ Len(c.args) >= 2
        /\ c.args[1].name = "-c" /\ RunsKubeadm(c.args[2])
       THEN c.args[2].kubeadm
     ELSE IF c.cmd.name = "kubeadm" /\ Len(c.args) >= 1 /\ c.args[1].name \in {"init", "join"}
       THEN "last"
     ELSE @]

runCmdBlock(c) == <<[op |-> "run", command |-> hackKubeadmIgnoreErrors(c)]>>

GenerateScriptBlock(a) ==
  FlattenSeq([i \in DOMAIN a.items |->
                IF a.key = "write_files" THEN writeFileBlock(a.items[i])
                                         ELSE runCmdBlock(a.items[i])])

Script(found) == FlattenSeq([i \in DOMAIN found |-> GenerateScriptBlock(found[i])])

(* Whether every file of the action can be decoded.                        *)
BlockDecodes(a) ==
  a.key = "write_files" =>
    \A i \in DOMAIN a.items : Decodes(a.items[i].content, Decoded(a.items[i]))

-----------------------------------------------------------------------------
(* GenerateScript and getActions.                                          *)

Stop(s) == status' = s /\ UNCHANGED <<config, yaml, rest, act, lines, actions, script>>

Validate ==
  /\ status = "start"
  /\ Stop(IF yaml THEN "scanning" ELSE "error")

Unmarshalled == Unmarshal(act, lines)
Found == IF act = "none" THEN actions
         ELSE Append(actions, [key |-> act, items |-> Unmarshalled.items])
Broken == act # "none" /\ Unmarshalled.outcome # "ok"

(* The scanner stops at the end and at a line that is too long for it.     *)
ScanEnds == rest # <<>> => Head(rest) \in Long

(* One turn of the scanner's loop.                                         *)
ScanKey ==
  /\ status = "scanning" /\ ~ScanEnds /\ actionRegEx(Head(rest))
  /\ \/ Broken /\ Stop(Unmarshalled.outcome)
     \/ /\ ~Broken
        /\ actions' = Found
        /\ act' = Head(rest).key
        /\ lines' = Append(IF act = "none" THEN lines ELSE <<>>, Head(rest))
        /\ rest' = Tail(rest)
        /\ UNCHANGED <<config, yaml, script, status>>

ScanLine ==
  /\ status = "scanning" /\ ~ScanEnds /\ ~actionRegEx(Head(rest))
  /\ lines' = Append(lines, Head(rest))
  /\ rest' = Tail(rest)
  /\ UNCHANGED <<config, yaml, act, actions, script, status>>

(* The last block, the scanner's own error, and then the script.           *)
GenerateScript ==
  /\ status = "scanning" /\ ScanEnds
  /\ \/ Broken /\ Stop(Unmarshalled.outcome)
     \/ ~Broken /\ (rest # <<>> \/ \E i \in DOMAIN Found : ~BlockDecodes(Found[i])) /\ Stop("error")
     \/ /\ ~Broken /\ rest = <<>> /\ \A i \in DOMAIN Found : BlockDecodes(Found[i])
        /\ actions' = Found
        /\ script' = Script(Found)
        /\ status' = "script"
        /\ UNCHANGED <<config, yaml, rest, act, lines>>

Init ==
  /\ config \in Configs
  /\ yaml \in BOOLEAN
  /\ rest = LinesOf(config)
  /\ act = "none" /\ lines = <<>> /\ actions = <<>> /\ script = <<>>
  /\ status = "start"

Next == Validate \/ ScanKey \/ ScanLine \/ GenerateScript

Spec == Init /\ [][Next]_vars

-----------------------------------------------------------------------------
(* What a machine looks like after the script: its files, the commands     *)
(* that ran, each with the files it found, and whether the script has      *)
(* stopped.                                                                *)

World(files, runs, stopped) == [files |-> files, runs |-> runs, stopped |-> stopped]
Fresh == World(<<>>, <<>>, FALSE)
Halt(w) == World(w.files, w.runs, TRUE)

FileState(contents, permissions, owner) ==
  [contents |-> contents, permissions |-> permissions, owner |-> owner]
FileAt(w, p) == IF p \in DOMAIN w.files THEN w.files[p] ELSE FileState(<<>>, "0644", "root:root")
PutFile(w, p, f) ==
  World([q \in DOMAIN w.files \cup {p} |-> IF q = p THEN f ELSE w.files[q]], w.runs, w.stopped)

(* errexit: a command that fails is the last.                              *)
RunCommand(w, words, flag, fails) ==
  World(w.files, Append(w.runs, [words |-> words, flag |-> flag, files |-> w.files]), fails)

(* A text where bash reads it, and as it was meant.                        *)
Quoted(t) == [name |-> t.name, kept |-> t.quoted = "kept"]
AsIs(t) == [name |-> t.name, kept |-> TRUE]

(* What a here-document does to a content, which is a text when no layer   *)
(* of encoding is left.                                                    *)
Here(content) == IF content.layers = <<>> THEN content.text.here ELSE "kept"
Expand(content) ==
  [name |-> content.text.name, layers |-> content.layers, kept |-> Here(content) = "kept"]
Unexpanded(content) ==
  [name |-> content.text.name, layers |-> content.layers, kept |-> TRUE]

Words(c) == <<c.cmd>> \o c.args

(* nounset: the statement expands a variable that is not set.              *)
Stops(s) ==
  IF s.op = "run" THEN \E i \in DOMAIN Words(s.command) : Words(s.command)[i].quoted = "stops"
  ELSE \/ s.path.quoted = "stops"
       \/ s.op \in {"write", "append"} /\ Here(s.value) = "stops"

(* What follows a line END of the content is run, up to the END that was   *)
(* meant, which is no command.                                             *)
Ends(s) == s.op \in {"write", "append"} /\ Here(s.value) = "ends"

Effect(w, s) ==
  LET p == Quoted(s.path)
      f == FileAt(w, p)
      put(contents, permissions, owner) == PutFile(w, p, FileState(contents, permissions, owner))
  IN CASE s.op = "write" -> put(<<Expand(s.value)>>, f.permissions, f.owner)
       [] s.op = "append" -> put(Append(f.contents, Expand(s.value)), f.permissions, f.owner)
       [] s.op = "chmod" -> put(f.contents, s.value, f.owner)
       [] s.op = "chown" -> put(f.contents, f.permissions, s.value)
       [] OTHER -> LET c == s.command
                   IN RunCommand(w, [i \in DOMAIN Words(c) |-> Quoted(Words(c)[i])], c.flag, c.fails)

Execute(w, s) ==
  IF w.stopped \/ Stops(s) THEN Halt(w)
  ELSE IF Ends(s) THEN Halt(Effect(w, s))
  ELSE Effect(w, s)

Run(w, statements) ==
  LET after[n \in 0 .. Len(statements)] ==
        IF n = 0 THEN w ELSE Execute(after[n - 1], statements[n])
  IN after[Len(statements)]

(* What the cloud-config asks for, item by item and up to the first        *)
(* command that fails: the content with all its layers removed, and the    *)
(* permissions and owner given; or the command, in a way that lets kubeadm *)
(* bootstrap a node in a container.                                        *)
Layers(e) == FlattenSeq([i \in DOMAIN fixEncoding(e) |-> Layer(fixEncoding(e)[i])])

Argv(item) ==
  IF item.form = "list" THEN item.words ELSE <<Word("/bin/sh"), Word("-c")>> \o item.words

IsScript(argv) == Len(argv) >= 3 /\ argv[1].name = "/bin/sh" /\ argv[2].name = "-c"

Bootstraps(argv) ==
  \/ Len(argv) >= 2 /\ argv[1].name = "kubeadm" /\ argv[2].name \in {"init", "join"}
  \/ IsScript(argv) /\ RunsKubeadm(argv[3])

Configure(w, item) ==
  CASE w.stopped -> Halt(w)
    [] ~w.stopped /\ item.form = "file" ->
         LET f == FileAt(w, AsIs(item.path))
             content == Unexpanded(Decode(item.content, Layers(item.encoding)))
         IN PutFile(w, AsIs(item.path), FileState(
              IF item.append THEN Append(f.contents, content) ELSE <<content>>,
              IF item.permissions = "" THEN f.permissions ELSE item.permissions,
              IF item.owner = "" THEN f.owner ELSE item.owner))
    [] OTHER -> RunCommand(w, [i \in DOMAIN Argv(item) |-> AsIs(Argv(item)[i])],
                           IF Bootstraps(Argv(item)) THEN "last" ELSE "none", item.fails)

Configured(w, items) ==
  LET after[n \in 0 .. Len(items)] == IF n = 0 THEN w ELSE Configure(after[n - 1], items[n])
  IN after[Len(items)]

ItemsOf(K, c) ==
  FlattenSeq([i \in DOMAIN c |-> IF c[i].key \in K THEN c[i].items ELSE <<>>])
Asked == ItemsOf(Supported, config)

(* What the adapter does not get right.  Of files: fixContent removes only *)
(* the first of two layers, bash reads the path and the content, and 0644  *)
(* and root:root are taken for what the file has anyway.  Of commands:     *)
(* bash reads every word, and the flag misses a kubeadm that is not the    *)
(* script's last command.                                                  *)
Mishandled(item) ==
  IF item.form = "file"
    THEN \/ item.encoding = "gz+base64"
         \/ item.content.text.here # "kept" \/ item.path.quoted # "kept"
         \/ item.permissions = "0644" \/ item.owner = "root:root"
    ELSE \/ \E i \in DOMAIN Argv(item) : Argv(item)[i].quoted # "kept"
         \/ IsScript(Argv(item)) /\ Argv(item)[3].kubeadm = "inside"

(* The comments on getActions and on the two modules: the script does what *)
(* the known modules of the cloud-config ask for, and in their order,      *)
(* unless one of their items is mishandled.                                *)
ScriptDoesWhatConfigSays ==
  status = "script" /\ (\A i \in DOMAIN Asked : ~Mishandled(Asked[i]))
    => Run(Fresh, script) = Configured(Fresh, Asked)

(* The adapter brings the manager down only over a command that is an      *)
(* empty list or null, whatever else the cloud-config holds and in         *)
(* whatever order its sections come; anything else it cannot read is an    *)
(* error.                                                                  *)
OnlyEmptyCommandPanics ==
  status = "panic" => yaml /\ \E c \in Range(ItemsOf({"runcmd"}, config)) : IsEmpty(c)

(* A cloud-config of known modules, with files and commands of the types   *)
(* that the modules take, contents that decode, commands that are not      *)
(* empty and no line that is too long, is turned into a script.            *)
KnownModulesAccepted ==
  status \in {"error", "panic"} /\ yaml =>
    \/ \E i \in DOMAIN config : config[i].key \notin Supported \cup {"ca-certs"}
    \/ \E f \in Range(ItemsOf({"write_files"}, config)) :
         f.form # "file" \/ ~Decodes(f.content, Decoded(f))
    \/ \E c \in Range(ItemsOf({"runcmd"}, config)) :
         c.form \notin {"list", "string"} \/ IsEmpty(c)
    \/ \E x \in Long : \E i \in DOMAIN config : x \in Range(config[i].items)
=============================================================================
