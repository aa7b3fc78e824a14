----------------------------- MODULE MCCloudInit -----------------------------
(* Cloud-configs for TLC.                                                  *)
EXTENDS CloudInit

(* Texts that bash leaves alone, expands, or stops at, in one place or     *)
(* both; and shell scripts that run kubeadm.                               *)
Text(n, q, h, k) == [name |-> n, quoted |-> q, here |-> h, kubeadm |-> k]
Expanded == Text("$HOME", "changed", "changed", "none")
Unset == Text("$UNSET", "stops", "stops", "none")
TwoLines == Text("two lines", "changed", "kept", "none")
HasEnd == Text("a line END", "changed", "ends", "none")

FileOf(path, e, ls, t, a, p, o) ==
  [form |-> "file", path |-> path, encoding |-> e, content |-> [text |-> t, layers |-> ls],
   append |-> a, permissions |-> p, owner |-> o]
File(e, ls, t, a, p, o) == FileOf(Word("/etc/file"), e, ls, t, a, p, o)
Plain(t, a, p, o) == File("", <<>>, Word(t), a, p, o)

Command(f, ws, x) == [form |-> f, words |-> ws, fails |-> x]
List(w) == Command("list", [i \in DOMAIN w |-> Word(w[i])], FALSE)
String(t) == Command("string", <<t>>, FALSE)
ShellScript(n, k) == Text(n, "kept", "kept", k)
Null == Command("null", <<>>, FALSE)

(* Files with an encoding given rightly or wrongly, with permissions left  *)
(* out or set, and those that the adapter mishandles.                      *)
GoodFiles ==
  {Plain("a", FALSE, "", ""), Plain("b", TRUE, "0600", "user"),
   File("base64", <<"base64">>, TwoLines, TRUE, "", "user"),
   File("gz", <<"gz">>, Word("d"), FALSE, "0600", "")}
SomeFiles ==
  GoodFiles \cup
  {File("base64", <<>>, Word("e"), FALSE, "", ""),
   File("gz+base64", <<"base64", "gz">>, Word("f"), FALSE, "", ""),
   Plain("g", FALSE, "0644", ""), Plain("h", TRUE, "", "root:root"),
   FileOf(Expanded, "", <<>>, Word("i"), FALSE, "", "")}
  \cup {File("", <<>>, t, FALSE, "", "") : t \in {Expanded, Unset, HasEnd}}

GoodCommands ==
  {List(<<"kubeadm", "init">>), String(ShellScript("kubeadm join", "last")),
   Command("list", <<Word("false")>>, TRUE)}
SomeCommands ==
  GoodCommands \cup
  {List(<<>>), Null, List(<<"echo">>), List(<<"kubeadm", "version">>),
   Command("list", <<Word("/bin/sh"), Word("-c"), ShellScript("kubeadm join", "last")>>, FALSE),
   String(ShellScript("kubeadm init; ls", "inside")), String(TwoLines), String(Unset)}

(* An item of the wrong type, and one with a line that is too long.        *)
Other == [form |-> "other", name |-> "other"]
LongLine == [form |-> "other", name |-> "long"]
SomeOthers == {Other, LongLine}
SomeLong == {LongLine}

Section(k, is) == [key |-> k, items |-> is]
UpTo(n, S) == UNION {[1 .. m -> S] : m \in 0 .. n}

OtherSections ==
  {Section("users", <<Other>>), Section("runcmd: []", <<>>)}
  \cup {Section("ca-certs", <<x>>) : x \in {Other, List(<<>>), File("base64", <<>>, Word("e"), FALSE, "", "")}}
SectionsOf(n, fs, cs) ==
  {Section("write_files", is) : is \in UpTo(n, fs)} \cup {Section("runcmd", is) : is \in UpTo(n, cs)}

(* One section of up to three items or two of up to one, with everything;  *)
(* two of up to two items or three of one, with what is handled.           *)
All(n) == SectionsOf(n, SomeFiles \cup SomeOthers, SomeCommands \cup SomeOthers) \cup OtherSections
Good(n) == SectionsOf(n, GoodFiles, GoodCommands \cup {Null}) \cup OtherSections

SomeConfigs ==
  [1 .. 1 -> All(3)] \cup UpTo(2, All(1)) \cup [1 .. 2 -> Good(2)] \cup [1 .. 3 -> Good(1)]
=============================================================================
