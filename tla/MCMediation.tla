---------------------------- MODULE MCMediation ----------------------------
(* The two mediators: either a server with its commands, or calls on a file. *)
EXTENDS PolicyServer, FileMediator

CONSTANT Sides  \* a subset of {"server", "files"}

VARIABLE side

mcVars == <<side, vars, fileVars>>

Command(patterns, signs) == [patterns |-> patterns, signs |-> signs]
Plain == Command({}, {})
Line(kind) == [kind |-> kind, command |-> Plain]

\* Lines that are answered, ignored and dropped, and commands that a rule lists
\* as safe: one is all right, one the classifier takes for dangerous, and one
\* has something to it that another rule looks for.
SomeMessages ==
  {Line("unparsable"), Line("notification"), Line("blank")} \cup
  {[kind |-> "call", command |-> c] :
     c \in {Command({"safe"}, {}), Command({"safe"}, {"C4"}), Command({"safe", "remote"}, {})}}

Rule(id, match, decision) == [id |-> id, match |-> match, decision |-> decision]
Pack(rules, default) == [rules |-> rules, default_decision |-> default]

\* Only safe commands are allowed, in two packs; the order of both matters.
Baseline ==
  Pack(<<Rule("remote", <<[command_matches |-> "remote"], [risk_class |-> "C4"], [any_of |-> {1, 2}]>>,
              "require-approval"),
         Rule("safe", <<[action_type |-> "shell_command"], [command_matches |-> "safe"],
                          [all_of |-> {1, 2}]>>, "allow")>>, "deny")
Permissive == Pack(<<Rule("unsafe", <<[risk_class_in |-> {"C0", "C3", "C4"}], [not |-> 1]>>, "deny")>>,
                   "allow")
Lax == Pack(<<Rule("all", <<[action_type |-> "shell_command"]>>, "allow")>>, "allow")
Strict == Pack(<<Rule("all", <<[x \in {} |-> {}]>>, "deny")>>, "deny")
\* The path condition applies to no command, but goes unread.
Mixed == Pack(<<Rule("mixed", <<[risk_class |-> "C4"], [not |-> 1, path_matches |-> "p"]>>, "allow")>>,
              "deny")
Asking == Pack(<<Rule("paths", <<[path_matches |-> "p"]>>, "allow"),
                 Rule("shells", <<[executable_matches |-> "bash"]>>, "allow")>>, "require-approval")

Started(packs, mode, channel, timeout) ==
  [packs |-> packs, escape |-> FALSE, mode |-> mode, channel |-> channel,
   autoApprove |-> {"remote"}, timeout |-> timeout]

SomeConfigs ==
  {Started(<<Baseline, Lax>>, "gate", "ci", TRUE),
   Started(<<Permissive, Baseline>>, "gate", "ci", FALSE),
   Started(<<Asking, Permissive>>, "gate", "tty", TRUE),
   Started(<<Asking>>, "gate", "callback", FALSE),
   Started(<<Mixed>>, "gate", "ci", FALSE),
   Started(<<Strict>>, "witness", "ci", FALSE),
   Started(<<>>, "gate", "ci", TRUE),
   [Started(<<>>, "gate", "ci", FALSE) EXCEPT !.escape = TRUE]}

MCInit ==
  /\ side \in Sides
  /\ Init /\ FileInit
  \* What does not run starts in one state only.
  /\ side = "files" => config = CHOOSE c \in Configs : TRUE
  /\ side = "files" => input = [k \in 1..MaxLines |-> Line("blank")]
  /\ side = "server" => parent = "dir" /\ target = 1

MCNext ==
  \/ side = "server" /\ Next /\ UNCHANGED <<side, fileVars>>
  \/ side = "files" /\ FileNext /\ UNCHANGED <<side, vars>>

MCSpec == MCInit /\ [][MCNext]_mcVars /\ WF_mcVars(side = "server" /\ Runs /\ UNCHANGED <<side, fileVars>>)
============================================================================
