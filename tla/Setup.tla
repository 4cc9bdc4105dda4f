------------------------------- MODULE Setup -------------------------------
(***************************************************************************)
(* `atm setup' and `atm uninstall' (crates/atm/src/setup.rs).  Both edit   *)
(* files that belong to others: ~/.claude/settings.json and                *)
(* ~/.pi/agent/settings.json, each read, changed in memory and written     *)
(* back by fs::write, which empties the file before it fills it.  A        *)
(* command may be killed, or fail, between any two steps; meanwhile the    *)
(* user edits the same file.                                               *)
(*                                                                         *)
(* The entries of a hook type are told apart by whose command is in them:  *)
(* atm's, one of the user's own, or both.  Their order decides nothing.    *)
(* tmux-bindings.conf, which nothing reads back, is left out, and so is a  *)
(* settings file of the wrong shape.                                       *)
(***************************************************************************)
EXTENDS Naturals

CONSTANTS
    HookTypes,     \* HOOK_TYPES
    NoFile, Torn,  \* a file that is not there, and one that does not parse
    MaxCommands, MaxEdits, MaxAborts  \* bounds of the model

VARIABLES
    claude,     \* ~/.claude/settings.json
    pi,         \* ~/.pi/agent/settings.json: its packages
    script,     \* ~/.local/bin/atm-hook
    package,    \* ~/.pi/agent/packages/pi-atm
    harnesses,  \* the harnesses installed: ~/.claude and ~/.pi/agent exist
    command,    \* the command that runs, its next step, its settings in memory
    outcome,    \* of the last command
    owned,      \* entries and packages of the user's own that must stay
    spent       \* commands, edits and aborts so far

vars == <<claude, pi, script, package, harnesses, command, outcome, owned, spent>>

Atm == "atm"
Own == "own"
FileStates == {"absent", "partial", "whole"}

\* How many entries of a hook type hold whose commands.
Entries == [atm : Nat, own : Nat, both : Nat]
NoEntries == [atm |-> 0, own |-> 0, both |-> 0]

Settings == [hooks : [HookTypes -> Entries], statusLine : {"none", Atm, Own}]
NoSettings == [hooks |-> [h \in HookTypes |-> NoEntries], statusLine |-> "none"]

Idle == [name |-> "none", at |-> "end", settings |-> NoFile]

Fewest == [commands |-> 0, edits |-> 0, aborts |-> 0]

Spend(what, max) == spent[what] < max /\ spent' = [spent EXCEPT ![what] = @ + 1]

-----------------------------------------------------------------------------
(* Settings *)

Read(file, empty) == IF file = NoFile THEN empty ELSE file

\* A bug to catch: only an entry of atm's alone is recognised as atm's.
HasAtmHookAlone(entries) == entries.atm > 0

HasAtmHook(entries) == entries.atm > 0 \/ entries.both > 0

RemoveAtmHooks(entries) == [entries EXCEPT !.atm = 0, !.both = 0]

\* A bug to catch: a status line that is there is left alone.
WithAtmHooksOnly(s) ==
    [hooks |-> [h \in HookTypes |-> IF HasAtmHook(s.hooks[h]) THEN s.hooks[h]
                                    ELSE [s.hooks[h] EXCEPT !.atm = @ + 1]],
     statusLine |-> IF s.statusLine = "none" THEN Atm ELSE s.statusLine]

WithAtm(s) ==
    [hooks |-> [h \in HookTypes |-> IF HasAtmHook(s.hooks[h]) THEN s.hooks[h]
                                    ELSE [s.hooks[h] EXCEPT !.atm = @ + 1]],
     statusLine |-> Atm]

WithoutHooks(s) == [s EXCEPT !.hooks = [h \in HookTypes |-> RemoveAtmHooks(@[h])]]

-----------------------------------------------------------------------------
(* The commands *)

At(name, step) == command.name = name /\ command.at = step

Goto(step) == command' = [command EXCEPT !.at = step]

End(result) ==
    /\ command' = Idle
    /\ outcome' = result

\* The step after Claude Code's part of each command.
PiPart == IF "pi" \notin harnesses THEN "end"
          ELSE IF command.name = "setup" THEN "extension" ELSE "remove package"

Begin(name) ==
    /\ command = Idle
    /\ Spend("commands", MaxCommands)
    /\ command' = [Idle EXCEPT !.name = name,
                               !.at = IF name = "uninstall" THEN "hooks"
                                      ELSE IF "claude" \in harnesses THEN "script"
                                      ELSE "extension"]
    /\ outcome' = "none"
    /\ UNCHANGED <<claude, pi, script, package, harnesses, owned>>

InstallHookScript ==
    /\ \/ At("setup", "script") /\ script' = "partial" /\ Goto("permissions")
       \/ At("setup", "permissions") /\ script' = "whole" /\ Goto("settings")
    /\ UNCHANGED <<claude, pi, package, harnesses, outcome, owned, spent>>

\* A command that has read settings s holds them in memory as t, and has
\* something to write only if it changed them.
Edit(s, t, next) ==
    command' = [command EXCEPT !.settings = t, !.at = IF t = s THEN next ELSE "write"]

\* A bug to catch: a file that does not parse is taken for an empty one.
SetupClaudeCodeAfresh ==
    /\ At("setup", "settings")
    /\ LET s == IF claude = Torn THEN NoSettings ELSE Read(claude, NoSettings)
       IN  Edit(s, WithAtm(s), PiPart)
    /\ UNCHANGED <<claude, pi, script, package, harnesses, outcome, owned, spent>>

\* Reading a file that does not parse ends the command.
SetupClaudeCode ==
    /\ At("setup", "settings")
    /\ LET s == Read(claude, NoSettings)
       IN  IF claude = Torn THEN End("failed")
           ELSE Edit(s, WithAtm(s), PiPart) /\ UNCHANGED outcome
    /\ UNCHANGED <<claude, pi, script, package, harnesses, owned, spent>>

UninstallHooks ==
    /\ At("uninstall", "hooks")
    /\ LET s == Read(claude, NoSettings)
       IN  IF claude = Torn THEN End("failed")
           ELSE Edit(s, WithoutHooks(s), "status line") /\ UNCHANGED outcome
    /\ UNCHANGED <<claude, pi, script, package, harnesses, owned, spent>>

\* The settings in memory are written a second time, without being read again.
UninstallStatusLine ==
    /\ At("uninstall", "status line")
    /\ LET s == command.settings
       IN  Edit(s, [s EXCEPT !.statusLine = IF @ = Atm THEN "none" ELSE @], "remove script")
    /\ UNCHANGED <<claude, pi, script, package, harnesses, outcome, owned, spent>>

AfterWrite ==
    IF command.name = "setup" THEN PiPart
    ELSE IF command.settings.statusLine = Atm THEN "status line"
    ELSE "remove script"

WriteSettings ==
    /\ \/ command.at = "write" /\ claude' = Torn /\ Goto("fill")
       \/ command.at = "fill" /\ claude' = command.settings /\ Goto(AfterWrite)
    /\ UNCHANGED <<pi, script, package, harnesses, outcome, owned, spent>>

RemoveHookScript ==
    /\ At("uninstall", "remove script")
    /\ script' = "absent"
    /\ Goto(PiPart)
    /\ UNCHANGED <<claude, pi, package, harnesses, outcome, owned, spent>>

InstallPiExtension ==
    /\ \/ At("setup", "extension") /\ package' = "partial" /\ Goto("manifest")
       \/ At("setup", "manifest") /\ package' = "whole" /\ Goto("packages")
    /\ UNCHANGED <<claude, pi, script, harnesses, outcome, owned, spent>>

RemovePiPackage ==
    /\ At("uninstall", "remove package")
    /\ package' = "absent"
    /\ Goto("packages")
    /\ UNCHANGED <<claude, pi, script, harnesses, outcome, owned, spent>>

EditPiPackages ==
    /\ command.at = "packages"
    /\ LET s == Read(pi, {})
           t == IF command.name = "setup" THEN s \union {Atm} ELSE s \ {Atm}
       IN  IF pi # Torn
           THEN /\ command' = [command EXCEPT !.settings = t,
                                              !.at = IF t = s THEN "end" ELSE "write pi"]
                /\ UNCHANGED outcome
           ELSE IF command.name = "setup" THEN End("failed")
           ELSE Goto("pi failed") /\ UNCHANGED outcome
    /\ UNCHANGED <<claude, pi, script, package, harnesses, owned, spent>>

WritePiSettings ==
    /\ \/ command.at = "write pi" /\ pi' = Torn /\ Goto("fill pi")
       \/ command.at = "fill pi" /\ pi' = command.settings /\ Goto("end")
    /\ UNCHANGED <<claude, script, package, harnesses, outcome, owned, spent>>

\* uninstall reports any error of its part for pi, and succeeds all the same.
FailForPi ==
    /\ command.name = "uninstall"
    /\ command.at \in {"remove package", "packages", "write pi", "fill pi"}
    /\ Spend("aborts", MaxAborts)
    /\ Goto("pi failed")
    /\ UNCHANGED <<claude, pi, script, package, harnesses, outcome, owned>>

Finish ==
    /\ command.name # "none" /\ command.at \in {"end", "pi failed"}
    /\ End(IF command.at = "end" THEN command.name ELSE "uninstalled but for pi")
    /\ UNCHANGED <<claude, pi, script, package, harnesses, owned, spent>>

\* The command is killed, or what it tries next fails.
Abort ==
    /\ command.name # "none"
    /\ Spend("aborts", MaxAborts)
    /\ End("failed")
    /\ UNCHANGED <<claude, pi, script, package, harnesses, owned>>

-----------------------------------------------------------------------------
(* The user, or Claude Code, at the same file *)

\* A command that has Claude Code's settings in memory writes over what others
\* put into the file meanwhile.
HoldsSettings == command.at \in {"write", "fill", "status line"}

AddHook(h) ==
    /\ "claude" \in harnesses /\ claude # Torn
    /\ Spend("edits", MaxEdits)
    /\ claude' = [Read(claude, NoSettings) EXCEPT !.hooks[h].own = @ + 1]
    /\ owned' = IF HoldsSettings THEN owned ELSE [owned EXCEPT !.hooks[h] = @ + 1]
    /\ UNCHANGED <<pi, script, package, harnesses, command, outcome>>

\* A further command in the entry that holds atm's.
Joined(entries) == [atm |-> 0, own |-> entries.own, both |-> entries.both + entries.atm]

JoinHook(h) ==
    /\ claude \notin {NoFile, Torn}
    /\ HasAtmHook(claude.hooks[h])
    /\ Spend("edits", MaxEdits)
    /\ claude' = [claude EXCEPT !.hooks[h] = Joined(@)]
    /\ UNCHANGED <<pi, script, package, harnesses, command, outcome, owned>>

\* What does not parse is removed by hand, with what it held.
Repair ==
    /\ command = Idle
    /\ \/ claude = Torn /\ claude' = NoFile
          /\ owned' = [owned EXCEPT !.hooks = [h \in HookTypes |-> 0]]
          /\ UNCHANGED pi
       \/ pi = Torn /\ pi' = NoFile /\ owned' = [owned EXCEPT !.packages = {}]
          /\ UNCHANGED claude
    /\ UNCHANGED <<script, package, harnesses, command, outcome, spent>>

-----------------------------------------------------------------------------

Init ==
    /\ harnesses \in SUBSET {"claude", "pi"} \ {{}}
    /\ claude \in {NoFile} \union
          {[hooks |-> [h \in HookTypes |-> IF h \in H THEN [NoEntries EXCEPT !.own = 1] ELSE NoEntries],
            statusLine |-> Own] : H \in SUBSET HookTypes}
    /\ pi \in {NoFile, {Own}}
    /\ "claude" \notin harnesses => claude = NoFile
    /\ "pi" \notin harnesses => pi = NoFile
    /\ script = "absent" /\ package = "absent"
    /\ command = Idle /\ outcome = "none"
    /\ owned = [hooks |-> [h \in HookTypes |->
                              Read(claude, NoSettings).hooks[h].own],
                packages |-> Read(pi, {})]
    /\ spent = Fewest

SetupWorks ==
    \/ InstallHookScript \/ SetupClaudeCode \/ WriteSettings \/ InstallPiExtension
    \/ EditPiPackages \/ WritePiSettings \/ FailForPi \/ Finish
    \/ UninstallHooks \/ UninstallStatusLine \/ RemoveHookScript \/ RemovePiPackage

Next ==
    \/ \E name \in {"setup", "uninstall"} : Begin(name)
    \/ SetupWorks
    \/ Abort
    \/ \E h \in HookTypes : AddHook(h) \/ JoinHook(h)
    \/ Repair

Spec == Init /\ [][Next]_vars

-----------------------------------------------------------------------------
(* Properties *)

\* The variables keep their types: files are absent, torn or well-formed.
TypeOK ==
    /\ claude \in {NoFile, Torn} \union Settings
    /\ pi \in {NoFile, Torn} \union SUBSET {Atm, Own}
    /\ script \in FileStates /\ package \in FileStates
    /\ command.name = "none" <=> command = Idle

Content == Read(claude, NoSettings)

\* How often atm's command is run for an event.
Hooked(h) == Content.hooks[h].atm + Content.hooks[h].both

\* Whatever commands are cut short and in whatever order, Claude Code is never
\* told to run a script that is not there, and never runs it twice for one event.
HooksServed ==
    claude # Torn =>
       /\ \A h \in HookTypes : Hooked(h) <= 1
       /\ Content.statusLine = Atm \/ (\E h \in HookTypes : Hooked(h) # 0) => script # "absent"

\* No sequence of setups and uninstalls, complete or not, removes the user's own
\* hook entries and packages from a file that can still be read.  (An entry atm's
\* command is part of goes with it, and so does a status line of another's.)
OthersKept ==
    /\ claude # Torn =>
          \A h \in HookTypes : Content.hooks[h].own >= owned.hooks[h]
    /\ pi # Torn => owned.packages \subseteq Read(pi, {})

\* A command that succeeds has repaired whatever earlier ones left half done:
\* setup leaves every harness served, uninstall leaves nothing of atm behind,
\* or only what it has said it could not remove from pi.
Completes ==
    /\ outcome = "setup" =>
          /\ "claude" \in harnesses =>
                /\ script = "whole" /\ claude # Torn /\ Content.statusLine = Atm
                /\ \A h \in HookTypes : Hooked(h) = 1
          /\ "pi" \in harnesses => package = "whole" /\ Atm \in Read(pi, {})
    /\ outcome \in {"uninstall", "uninstalled but for pi"} =>
          /\ script = "absent" /\ Content.statusLine # Atm
          /\ \A h \in HookTypes : Hooked(h) = 0
    /\ outcome = "uninstall" /\ "pi" \in harnesses =>
          package = "absent" /\ Atm \notin Read(pi, {})

=============================================================================
