------------------------- MODULE EnvironmentProofs -------------------------
(***************************************************************************)
(* Proofs about Environment: that setup and uninstall, cut short and       *)
(* repeated in any order, never leave Claude Code with a hook that is not  *)
(* there, keep what is the user's and do what they report; and that the    *)
(* workspace commands and tmux's hook, interleaved and aborted, give every *)
(* window one sidebar; and that atm layout fills the slots of every tree   *)
(* of slots.                                                               *)
(***************************************************************************)
EXTENDS Environment, Sequences, SequenceTheorems, FunctionTheorems, FiniteSetTheorems, TLAPS

-----------------------------------------------------------------------------
(* Setup: types *)

SetupSteps == {"script", "permissions", "settings", "write", "fill", "extension", "manifest",
               "packages", "write pi", "fill pi", "end"}

UninstallSteps == {"hooks", "write", "fill", "status line", "remove script", "remove package",
                   "packages", "write pi", "fill pi", "pi failed", "end"}

Outcomes == {"none", "failed", "setup", "uninstall", "uninstalled but for pi"}

IsCommand(c) == c = [name |-> c.name, at |-> c.at, settings |-> c.settings]

Doing(c, name, steps) == c.name = name /\ c.at \in steps

Holding == command.at \in {"write", "fill", "status line"}

\* What the variables are; a command runs its own steps, and holds settings of
\* the file it is about to write.
FilesTyped ==
    /\ claude \in {NoFile, Torn} \union Setup!Settings
    /\ pi \in {NoFile, Torn} \union SUBSET {"atm", "own"}
    /\ script \in {"absent", "partial", "whole"}
    /\ package \in {"absent", "partial", "whole"}
    /\ owned \in [hooks : [HookTypes -> Nat], packages : SUBSET {"own"}]
    /\ outcome \in Outcomes

CommandTyped ==
    /\ IsCommand(command)
    /\ \/ command = Setup!Idle
       \/ Doing(command, "setup", SetupSteps) /\ outcome = "none"
       \/ Doing(command, "uninstall", UninstallSteps) /\ outcome = "none"
    /\ Holding => command.settings \in Setup!Settings
    /\ command.at \in {"write pi", "fill pi"} => command.settings \in SUBSET {"atm", "own"}

SetupTyped == FilesTyped /\ CommandTyped

-----------------------------------------------------------------------------
(* Setup: invariants *)

Content == Setup!Content

Clean(s) == s.statusLine # "atm" /\ \A h \in HookTypes : s.hooks[h].atm = 0 /\ s.hooks[h].both = 0
Unhooked(s) == \A h \in HookTypes : s.hooks[h].atm = 0 /\ s.hooks[h].both = 0
Once(s) == \A h \in HookTypes : s.hooks[h].atm + s.hooks[h].both <= 1
Served(s) == s.statusLine = "atm" /\ \A h \in HookTypes : s.hooks[h].atm + s.hooks[h].both = 1

\* Nothing of atm's is in a file, or about to be, while there is no script; and
\* what a command has done so far.
HooksInv ==
    /\ claude # Torn => Once(Content)
    /\ Holding => Once(command.settings)
    /\ script = "absent" /\ claude # Torn => Clean(Content)
    /\ script = "absent" /\ Holding => Clean(command.settings)
    /\ Doing(command, "setup", {"settings", "write", "fill"}) => script = "whole"
    /\ Doing(command, "setup", {"write", "fill"}) => Served(command.settings)
    /\ Doing(command, "uninstall", {"write", "fill", "status line"}) => Unhooked(command.settings)
    /\ Doing(command, "uninstall", {"status line"}) =>
          /\ claude # Torn /\ Unhooked(Content)
          /\ command.settings.statusLine # "atm" => Content.statusLine # "atm"
    /\ Doing(command, "uninstall", {"remove script"}) => claude # Torn /\ Clean(Content)

OthersInv ==
    /\ claude # Torn => \A h \in HookTypes : Content.hooks[h].own >= owned.hooks[h]
    /\ Holding => \A h \in HookTypes : command.settings.hooks[h].own >= owned.hooks[h]
    /\ pi # Torn => owned.packages \subseteq Setup!Read(pi, {})
    /\ command.at \in {"write pi", "fill pi"} => owned.packages \subseteq command.settings

ClaudeServed == script = "whole" /\ claude # Torn /\ Served(Content)
ClaudeLeft == script = "absent" /\ claude # Torn /\ Clean(Content)
PiServed == package = "whole" /\ pi # Torn /\ "atm" \in Setup!Read(pi, {})
PiLeft == package = "absent" /\ pi # Torn /\ "atm" \notin Setup!Read(pi, {})

InPi == {"extension", "manifest", "remove package", "packages", "write pi", "fill pi",
         "pi failed", "end"}

CompletesInv ==
    /\ Doing(command, "setup", InPi) /\ "claude" \in harnesses => ClaudeServed
    /\ Doing(command, "setup", {"packages", "write pi", "fill pi"}) => package = "whole"
    /\ Doing(command, "setup", {"write pi", "fill pi"}) => "atm" \in command.settings
    /\ Doing(command, "setup", {"end"}) /\ "pi" \in harnesses => PiServed
    /\ Doing(command, "uninstall", InPi) => ClaudeLeft
    /\ Doing(command, "uninstall", {"packages", "write pi", "fill pi"}) => package = "absent"
    /\ Doing(command, "uninstall", {"write pi", "fill pi"}) => "atm" \notin command.settings
    /\ Doing(command, "uninstall", {"end"}) /\ "pi" \in harnesses => PiLeft
    /\ outcome = "setup" => /\ "claude" \in harnesses => ClaudeServed
                            /\ "pi" \in harnesses => PiServed
    /\ outcome \in {"uninstall", "uninstalled but for pi"} => ClaudeLeft
    /\ outcome = "uninstall" /\ "pi" \in harnesses => PiLeft

-----------------------------------------------------------------------------
(* Setup: how a step changes the command *)

LEMMA IdleIs ==
    /\ IsCommand(Setup!Idle)
    /\ Setup!Idle.name = "none" /\ Setup!Idle.at = "end"
BY DEF Setup!Idle, IsCommand

LEMMA GotoKeeps ==
    ASSUME IsCommand(command), NEW step, Setup!Goto(step)
    PROVE  /\ IsCommand(command')
           /\ command'.name = command.name
           /\ command'.at = step
           /\ command'.settings = command.settings
<1>1. command' = [name |-> command.name, at |-> step, settings |-> command.settings]
    BY DEF IsCommand, Setup!Goto
<1> QED
    BY <1>1 DEF IsCommand

LEMMA EditKeeps ==
    ASSUME IsCommand(command), NEW s, NEW t, NEW next, Setup!Edit(s, t, next)
    PROVE  /\ IsCommand(command')
           /\ command'.name = command.name
           /\ command'.at = IF t = s THEN next ELSE "write"
           /\ command'.settings = t
<1>1. command' = [name |-> command.name, at |-> IF t = s THEN next ELSE "write", settings |-> t]
    BY DEF IsCommand, Setup!Edit
<1> QED
    BY <1>1 DEF IsCommand

LEMMA BeginIs ==
    ASSUME NEW name \in {"setup", "uninstall"}, Setup!Begin(name)
    PROVE  /\ IsCommand(command') /\ command'.name = name
           /\ command'.at = IF name = "uninstall" THEN "hooks"
                            ELSE IF "claude" \in harnesses THEN "script" ELSE "extension"
<1>1. command' = [name |-> name, at |-> IF name = "uninstall" THEN "hooks"
                                        ELSE IF "claude" \in harnesses THEN "script"
                                        ELSE "extension",
                  settings |-> NoFile]
    BY DEF Setup!Begin, Setup!Idle
<1> QED
    BY <1>1 DEF IsCommand

LEMMA EditPiIs ==
    ASSUME IsCommand(command), Setup!EditPiPackages, pi # Torn
    PROVE  LET s == Setup!Read(pi, {})
               t == IF command.name = "setup" THEN s \union {"atm"} ELSE s \ {"atm"}
           IN  /\ IsCommand(command') /\ command'.name = command.name
               /\ command'.at = IF t = s THEN "end" ELSE "write pi"
               /\ command'.settings = t
               /\ outcome' = outcome
<1> DEFINE s == Setup!Read(pi, {})
           t == IF command.name = "setup" THEN s \union {"atm"} ELSE s \ {"atm"}
<1>1. command' = [command EXCEPT !.settings = t, !.at = IF t = s THEN "end" ELSE "write pi"]
      /\ outcome' = outcome
    BY DEF Setup!EditPiPackages, Setup!Atm
<1> HIDE DEF s, t
<1>2. command' = [name |-> command.name, at |-> IF t = s THEN "end" ELSE "write pi",
                  settings |-> t]
    BY <1>1 DEF IsCommand
<1>3. /\ IsCommand(command') /\ command'.name = command.name
      /\ command'.at = IF t = s THEN "end" ELSE "write pi"
      /\ command'.settings = t
    BY <1>2 DEF IsCommand
<1> QED
    BY <1>1, <1>3 DEF s, t

-----------------------------------------------------------------------------
(* Setup: types are kept *)

\* A command that goes on in one of its steps, with settings that suit it.
LEMMA GoesOn ==
    ASSUME CommandTyped, command.name # "none", IsCommand(command'),
           command'.name = command.name, outcome' = outcome,
           command.name = "setup" => command'.at \in SetupSteps,
           command.name = "uninstall" => command'.at \in UninstallSteps,
           command'.at \in {"write", "fill", "status line"} =>
               command'.settings \in Setup!Settings,
           command'.at \in {"write pi", "fill pi"} =>
               command'.settings \in SUBSET {"atm", "own"}
    PROVE  CommandTyped'
BY IdleIs DEF CommandTyped, Doing, Holding

LEMMA EndTyped ==
    ASSUME NEW result, Setup!End(result)
    PROVE  CommandTyped'
BY IdleIs DEF CommandTyped, Setup!End, Holding

\* What a command of each name has at its steps.
LEMMA StepOf ==
    ASSUME CommandTyped
    PROVE  /\ IsCommand(command)
           /\ command.name \in {"none", "setup", "uninstall"}
           /\ command.name = "none" => command = Setup!Idle /\ command.at = "end"
           /\ command.name = "setup" => command.at \in SetupSteps
           /\ command.name = "uninstall" => command.at \in UninstallSteps
           /\ command.name # "none" => outcome = "none"
BY IdleIs DEF CommandTyped, Doing

LEMMA SettingsKept ==
    ASSUME NEW s \in Setup!Settings
    PROVE  /\ Setup!WithAtm(s) \in Setup!Settings
           /\ Setup!WithoutHooks(s) \in Setup!Settings
           /\ [s EXCEPT !.statusLine = IF @ = Setup!Atm THEN "none" ELSE @] \in Setup!Settings
           /\ \A h \in HookTypes :
                 [s EXCEPT !.hooks[h].own = @ + 1] \in Setup!Settings
           /\ \A h \in HookTypes :
                 [s EXCEPT !.hooks[h] = Setup!Joined(@)] \in Setup!Settings
<1> USE DEF Setup!Settings, Setup!Entries, Setup!Atm, Setup!Own
<1>1. Setup!WithAtm(s) \in Setup!Settings
    BY DEF Setup!WithAtm
<1>2. Setup!WithoutHooks(s) \in Setup!Settings
    BY DEF Setup!WithoutHooks, Setup!RemoveAtmHooks
<1>3. [s EXCEPT !.statusLine = IF @ = Setup!Atm THEN "none" ELSE @] \in Setup!Settings
    OBVIOUS
<1>4. ASSUME NEW h \in HookTypes
      PROVE  [s EXCEPT !.hooks[h].own = @ + 1] \in Setup!Settings
    OBVIOUS
<1>5. ASSUME NEW h \in HookTypes
      PROVE  [s EXCEPT !.hooks[h] = Setup!Joined(@)] \in Setup!Settings
    <2>1. Setup!Joined(s.hooks[h]) \in Setup!Entries
        BY DEF Setup!Joined
    <2> QED
        BY <2>1
<1> QED
    BY <1>1, <1>2, <1>3, <1>4, <1>5

LEMMA ContentTyped ==
    ASSUME FilesTyped, claude # Torn
    PROVE  Setup!Read(claude, Setup!NoSettings) \in Setup!Settings
BY DEF FilesTyped, Setup!Read, Setup!NoSettings, Setup!NoEntries, Setup!Settings, Setup!Entries

LEMMA SetupTypedStep ==
    ASSUME SetupTyped, [Setup!Next]_files
    PROVE  SetupTyped'
<1> USE StepOf DEF SetupTyped
<1>1. IsCommand(command)
    OBVIOUS
<1>2. CASE \E name \in {"setup", "uninstall"} : Setup!Begin(name)
    <2>1. PICK name \in {"setup", "uninstall"} : Setup!Begin(name)
        BY <1>2
    <2>2. FilesTyped' /\ outcome' = "none"
        BY <2>1 DEF Setup!Begin, FilesTyped, Outcomes
    <2>3. CommandTyped'
        BY <2>1, <2>2, BeginIs DEF CommandTyped, Doing, SetupSteps, UninstallSteps, Holding
    <2> QED
        BY <2>2, <2>3
<1>3. CASE Setup!InstallHookScript
    <2>1. FilesTyped' /\ outcome' = outcome /\ command.name = "setup"
        BY <1>3 DEF FilesTyped, Setup!InstallHookScript, Setup!At
    <2>2. /\ IsCommand(command') /\ command'.name = "setup"
          /\ command'.at \in {"permissions", "settings"}
        BY <1>1, <1>3, <2>1, GotoKeeps DEF Setup!InstallHookScript
    <2>3. CommandTyped'
        BY <2>1, <2>2, GoesOn DEF SetupSteps
    <2> QED
        BY <2>1, <2>3
<1>4. CASE Setup!SetupClaudeCode
    <2> DEFINE s == Setup!Read(claude, Setup!NoSettings)
    <2>1. FilesTyped' /\ command.name = "setup"
        BY <1>4 DEF FilesTyped, Setup!SetupClaudeCode, Setup!At, Setup!End, Outcomes
    <2>2. CASE claude = Torn
        BY <1>4, <2>1, <2>2, EndTyped DEF Setup!SetupClaudeCode
    <2>3. CASE claude # Torn
        <3>1. Setup!WithAtm(s) \in Setup!Settings
            BY <2>3, ContentTyped, SettingsKept
        <3>2. Setup!Edit(s, Setup!WithAtm(s), Setup!PiPart) /\ outcome' = outcome
            BY <1>4, <2>3 DEF Setup!SetupClaudeCode
        <3>3. Setup!PiPart \in {"end", "extension"}
            BY <2>1 DEF Setup!PiPart
        <3> HIDE DEF s
        <3>4. /\ IsCommand(command') /\ command'.name = "setup"
              /\ command'.at \in {"end", "extension", "write"}
              /\ command'.settings \in Setup!Settings
            BY <1>1, <2>1, <3>1, <3>2, <3>3, EditKeeps
        <3>5. CommandTyped'
            BY <2>1, <3>2, <3>4, GoesOn DEF SetupSteps
        <3> QED
            BY <2>1, <3>5
    <2> QED
        BY <2>2, <2>3
<1>5. CASE Setup!WriteSettings
    <2>1. FilesTyped' /\ outcome' = outcome /\ command.at \in {"write", "fill"}
        BY <1>5 DEF FilesTyped, CommandTyped, Holding, Setup!WriteSettings
    <2>2. /\ IsCommand(command') /\ command'.name = command.name
          /\ command'.at \in {"fill", Setup!AfterWrite}
          /\ command'.settings = command.settings
        BY <1>1, <1>5, GotoKeeps DEF Setup!WriteSettings
    <2>3. /\ command.name # "none"
          /\ command.name = "setup" => Setup!AfterWrite \in {"end", "extension"}
          /\ command.name = "uninstall" => Setup!AfterWrite \in {"status line", "remove script"}
        BY <2>1 DEF Setup!AfterWrite, Setup!PiPart
    <2>4. CommandTyped'
        BY <2>1, <2>2, <2>3, GoesOn DEF SetupSteps, UninstallSteps, CommandTyped, Holding
    <2> QED
        BY <2>1, <2>4
<1>6. CASE Setup!InstallPiExtension
    <2>1. FilesTyped' /\ outcome' = outcome /\ command.name = "setup"
        BY <1>6 DEF FilesTyped, Setup!InstallPiExtension, Setup!At
    <2>2. /\ IsCommand(command') /\ command'.name = "setup"
          /\ command'.at \in {"manifest", "packages"}
        BY <1>1, <1>6, <2>1, GotoKeeps DEF Setup!InstallPiExtension
    <2>3. CommandTyped'
        BY <2>1, <2>2, GoesOn DEF SetupSteps
    <2> QED
        BY <2>1, <2>3
<1>7. CASE Setup!EditPiPackages
    <2>1. FilesTyped' /\ command.at = "packages" /\ command.name # "none"
        BY <1>7 DEF FilesTyped, Setup!EditPiPackages, Setup!End, Outcomes
    <2>2. CASE pi # Torn
        <3>1. Setup!Read(pi, {}) \in SUBSET {"atm", "own"}
            BY <2>1, <2>2 DEF FilesTyped, Setup!Read
        <3>2. /\ IsCommand(command') /\ command'.name = command.name
              /\ command'.at \in {"end", "write pi"}
              /\ command'.settings \in SUBSET {"atm", "own"}
              /\ outcome' = outcome
            BY <1>1, <1>7, <2>2, <3>1, EditPiIs
        <3>3. CommandTyped'
            BY <2>1, <3>2, GoesOn DEF SetupSteps, UninstallSteps
        <3> QED
            BY <2>1, <3>3
    <2>3. CASE pi = Torn /\ command.name = "setup"
        BY <1>7, <2>1, <2>3, EndTyped DEF Setup!EditPiPackages
    <2>4. CASE pi = Torn /\ command.name = "uninstall"
        <3>1. /\ IsCommand(command') /\ command'.name = "uninstall"
              /\ command'.at = "pi failed" /\ outcome' = outcome
            BY <1>1, <1>7, <2>4, GotoKeeps DEF Setup!EditPiPackages
        <3>2. CommandTyped'
            BY <2>4, <3>1, GoesOn DEF UninstallSteps
        <3> QED
            BY <2>1, <3>2
    <2> QED
        BY <2>1, <2>2, <2>3, <2>4
<1>8. CASE Setup!WritePiSettings
    <2>1. FilesTyped' /\ outcome' = outcome /\ command.at \in {"write pi", "fill pi"}
        BY <1>8 DEF FilesTyped, CommandTyped, Setup!WritePiSettings
    <2>2. /\ IsCommand(command') /\ command'.name = command.name
          /\ command'.at \in {"fill pi", "end"}
          /\ command'.settings = command.settings
        BY <1>1, <1>8, GotoKeeps DEF Setup!WritePiSettings
    <2>3. CommandTyped'
        BY <2>1, <2>2, GoesOn DEF SetupSteps, UninstallSteps, CommandTyped
    <2> QED
        BY <2>1, <2>3
<1>9. CASE Setup!FailForPi
    <2>1. FilesTyped' /\ outcome' = outcome /\ command.name = "uninstall"
        BY <1>9 DEF FilesTyped, Setup!FailForPi
    <2>2. /\ IsCommand(command') /\ command'.name = "uninstall"
          /\ command'.at = "pi failed"
        BY <1>1, <1>9, <2>1, GotoKeeps DEF Setup!FailForPi
    <2>3. CommandTyped'
        BY <2>1, <2>2, GoesOn DEF UninstallSteps
    <2> QED
        BY <2>1, <2>3
<1>10. CASE Setup!Finish
    <2>1. FilesTyped'
        BY <1>10 DEF FilesTyped, Setup!Finish, Setup!End, Outcomes
    <2>2. CommandTyped'
        BY <1>10, EndTyped DEF Setup!Finish
    <2> QED
        BY <2>1, <2>2
<1>11. CASE Setup!UninstallHooks
    <2> DEFINE s == Setup!Read(claude, Setup!NoSettings)
    <2>1. FilesTyped' /\ command.name = "uninstall"
        BY <1>11 DEF FilesTyped, Setup!UninstallHooks, Setup!At, Setup!End, Outcomes
    <2>2. CASE claude = Torn
        BY <1>11, <2>1, <2>2, EndTyped DEF Setup!UninstallHooks
    <2>3. CASE claude # Torn
        <3>1. Setup!WithoutHooks(s) \in Setup!Settings
            BY <2>3, ContentTyped, SettingsKept
        <3>2. Setup!Edit(s, Setup!WithoutHooks(s), "status line") /\ outcome' = outcome
            BY <1>11, <2>3 DEF Setup!UninstallHooks
        <3> HIDE DEF s
        <3>3. /\ IsCommand(command') /\ command'.name = "uninstall"
              /\ command'.at \in {"status line", "write"}
              /\ command'.settings \in Setup!Settings
            BY <1>1, <2>1, <3>1, <3>2, EditKeeps
        <3>4. CommandTyped'
            BY <2>1, <3>2, <3>3, GoesOn DEF UninstallSteps
        <3> QED
            BY <2>1, <3>4
    <2> QED
        BY <2>2, <2>3
<1>12. CASE Setup!UninstallStatusLine
    <2> DEFINE s == command.settings
               t == [s EXCEPT !.statusLine = IF @ = Setup!Atm THEN "none" ELSE @]
    <2>1. /\ FilesTyped' /\ outcome' = outcome /\ command.name = "uninstall"
          /\ s \in Setup!Settings
        BY <1>12 DEF FilesTyped, CommandTyped, Holding, Setup!UninstallStatusLine, Setup!At
    <2>2. t \in Setup!Settings
        BY <2>1, SettingsKept
    <2>3. Setup!Edit(s, t, "remove script")
        BY <1>12 DEF Setup!UninstallStatusLine
    <2> HIDE DEF s, t
    <2>4. /\ IsCommand(command') /\ command'.name = "uninstall"
          /\ command'.at \in {"remove script", "write"}
          /\ command'.settings \in Setup!Settings
        BY <1>1, <2>1, <2>2, <2>3, EditKeeps
    <2>5. CommandTyped'
        BY <2>1, <2>4, GoesOn DEF UninstallSteps
    <2> QED
        BY <2>1, <2>5
<1>13. CASE Setup!RemoveHookScript
    <2>1. FilesTyped' /\ outcome' = outcome /\ command.name = "uninstall"
        BY <1>13 DEF FilesTyped, Setup!RemoveHookScript, Setup!At
    <2>2. /\ IsCommand(command') /\ command'.name = "uninstall"
          /\ command'.at \in {"end", "remove package"}
        BY <1>1, <1>13, <2>1, GotoKeeps DEF Setup!RemoveHookScript, Setup!PiPart
    <2>3. CommandTyped'
        BY <2>1, <2>2, GoesOn DEF UninstallSteps
    <2> QED
        BY <2>1, <2>3
<1>14. CASE Setup!RemovePiPackage
    <2>1. FilesTyped' /\ outcome' = outcome /\ command.name = "uninstall"
        BY <1>14 DEF FilesTyped, Setup!RemovePiPackage, Setup!At
    <2>2. /\ IsCommand(command') /\ command'.name = "uninstall"
          /\ command'.at = "packages"
        BY <1>1, <1>14, <2>1, GotoKeeps DEF Setup!RemovePiPackage
    <2>3. CommandTyped'
        BY <2>1, <2>2, GoesOn DEF UninstallSteps
    <2> QED
        BY <2>1, <2>3
<1>15. CASE Setup!Abort
    <2>1. FilesTyped'
        BY <1>15 DEF FilesTyped, Setup!Abort, Setup!End, Outcomes
    <2>2. CommandTyped'
        BY <1>15, EndTyped DEF Setup!Abort
    <2> QED
        BY <2>1, <2>2
<1>16. CASE \E h \in HookTypes : Setup!AddHook(h)
    <2>1. PICK h \in HookTypes : Setup!AddHook(h)
        BY <1>16
    <2>2. claude' \in Setup!Settings
        BY <2>1, ContentTyped, SettingsKept DEF Setup!AddHook
    <2>3. owned' \in [hooks : [HookTypes -> Nat], packages : SUBSET {"own"}]
        BY <2>1 DEF Setup!AddHook, FilesTyped
    <2> QED
        BY <2>1, <2>2, <2>3 DEF Setup!AddHook, FilesTyped, CommandTyped, Holding
<1>17. CASE \E h \in HookTypes : Setup!JoinHook(h)
    <2>1. PICK h \in HookTypes : Setup!JoinHook(h)
        BY <1>17
    <2>2. claude \in Setup!Settings
        BY <2>1 DEF Setup!JoinHook, FilesTyped
    <2>3. claude' \in Setup!Settings
        BY <2>1, <2>2, SettingsKept DEF Setup!JoinHook
    <2> QED
        BY <2>1, <2>3 DEF Setup!JoinHook, FilesTyped, CommandTyped, Holding
<1>18. CASE Setup!Repair
    <2>1. owned' \in [hooks : [HookTypes -> Nat], packages : SUBSET {"own"}]
        BY <1>18 DEF Setup!Repair, FilesTyped
    <2> QED
        BY <1>18, <2>1 DEF Setup!Repair, FilesTyped, CommandTyped, Holding
<1>19. CASE UNCHANGED files
    BY <1>19 DEF files, FilesTyped, CommandTyped, Holding
<1> QED
    BY <1>2, <1>3, <1>4, <1>5, <1>6, <1>7, <1>8, <1>9, <1>10, <1>11, <1>12, <1>13, <1>14, <1>15,
       <1>16, <1>17, <1>18, <1>19 DEF Setup!Next, Setup!SetupWorks
-----------------------------------------------------------------------------
(* Setup: what each step does, as far as its command is concerned *)

Goes(step) == /\ command'.name = command.name /\ command'.at = step
              /\ outcome' = outcome

LEMMA InstallHookScriptIs ==
    ASSUME SetupTyped, Setup!InstallHookScript
    PROVE  /\ command.name = "setup" /\ UNCHANGED <<claude, pi, package, harnesses, owned>>
           /\ \/ command.at = "script" /\ script' = "partial" /\ Goes("permissions")
              \/ command.at = "permissions" /\ script' = "whole" /\ Goes("settings")
BY StepOf, GotoKeeps DEF SetupTyped, Setup!InstallHookScript, Setup!At, Goes

LEMMA SetupClaudeCodeIs ==
    ASSUME SetupTyped, Setup!SetupClaudeCode
    PROVE  /\ command.name = "setup" /\ command.at = "settings"
           /\ UNCHANGED <<claude, pi, script, package, harnesses, owned>>
           /\ \/ command' = Setup!Idle /\ outcome' = "failed"
              \/ /\ claude # Torn /\ command'.settings = Setup!WithAtm(Content)
                 /\ \/ Goes("write")
                    \/ Content = Setup!WithAtm(Content) /\ Goes(Setup!PiPart)
<1>1. /\ command.name = "setup" /\ command.at = "settings"
      /\ UNCHANGED <<claude, pi, script, package, harnesses, owned>>
    BY DEF Setup!SetupClaudeCode, Setup!At
<1>2. CASE claude = Torn
    BY <1>1, <1>2 DEF Setup!SetupClaudeCode, Setup!End
<1>3. CASE claude # Torn
    <2>1. /\ Setup!Edit(Content, Setup!WithAtm(Content), Setup!PiPart)
          /\ outcome' = outcome
        BY <1>3 DEF Setup!SetupClaudeCode, Content, Setup!Content
    <2> QED
        BY <1>1, <1>3, <2>1, StepOf, EditKeeps DEF SetupTyped, Goes
<1> QED
    BY <1>2, <1>3

LEMMA UninstallHooksIs ==
    ASSUME SetupTyped, Setup!UninstallHooks
    PROVE  /\ command.name = "uninstall" /\ command.at = "hooks"
           /\ UNCHANGED <<claude, pi, script, package, harnesses, owned>>
           /\ \/ command' = Setup!Idle /\ outcome' = "failed"
              \/ /\ claude # Torn /\ command'.settings = Setup!WithoutHooks(Content)
                 /\ \/ Goes("write")
                    \/ Content = Setup!WithoutHooks(Content) /\ Goes("status line")
<1>1. /\ command.name = "uninstall" /\ command.at = "hooks"
      /\ UNCHANGED <<claude, pi, script, package, harnesses, owned>>
    BY DEF Setup!UninstallHooks, Setup!At
<1>2. CASE claude = Torn
    BY <1>1, <1>2 DEF Setup!UninstallHooks, Setup!End
<1>3. CASE claude # Torn
    <2>1. /\ Setup!Edit(Content, Setup!WithoutHooks(Content), "status line")
          /\ outcome' = outcome
        BY <1>3 DEF Setup!UninstallHooks, Content, Setup!Content
    <2> QED
        BY <1>1, <1>3, <2>1, StepOf, EditKeeps DEF SetupTyped, Goes
<1> QED
    BY <1>2, <1>3

WithoutStatusLine(s) == [s EXCEPT !.statusLine = IF @ = "atm" THEN "none" ELSE @]

LEMMA UninstallStatusLineIs ==
    ASSUME SetupTyped, Setup!UninstallStatusLine
    PROVE  /\ command.name = "uninstall" /\ command.at = "status line"
           /\ UNCHANGED <<claude, pi, script, package, harnesses, owned>>
           /\ command.settings \in Setup!Settings
           /\ command'.settings = WithoutStatusLine(command.settings)
           /\ \/ Goes("write")
              \/ command.settings = WithoutStatusLine(command.settings) /\ Goes("remove script")
<1>1. /\ command.name = "uninstall" /\ command.at = "status line"
      /\ UNCHANGED <<claude, pi, script, package, harnesses, outcome, owned>>
    BY DEF Setup!UninstallStatusLine, Setup!At
<1>2. Setup!Edit(command.settings, WithoutStatusLine(command.settings), "remove script")
    BY DEF Setup!UninstallStatusLine, WithoutStatusLine, Setup!Atm
<1> QED
    BY <1>1, <1>2, StepOf, EditKeeps DEF SetupTyped, CommandTyped, Holding, Goes

LEMMA WriteSettingsIs ==
    ASSUME SetupTyped, Setup!WriteSettings
    PROVE  /\ command.name # "none" /\ command.settings \in Setup!Settings
           /\ command'.settings = command.settings
           /\ UNCHANGED <<pi, script, package, harnesses, owned>>
           /\ \/ command.at = "write" /\ claude' = Torn /\ Goes("fill")
              \/ command.at = "fill" /\ claude' = command.settings /\ Goes(Setup!AfterWrite)
<1>1. command.at \in {"write", "fill"} /\ UNCHANGED <<pi, script, package, harnesses, owned>>
    BY DEF Setup!WriteSettings
<1> QED
    BY <1>1, StepOf, GotoKeeps DEF SetupTyped, CommandTyped, Holding, Setup!WriteSettings, Goes

LEMMA RemoveHookScriptIs ==
    ASSUME SetupTyped, Setup!RemoveHookScript
    PROVE  /\ command.name = "uninstall" /\ command.at = "remove script" /\ script' = "absent"
           /\ UNCHANGED <<claude, pi, package, harnesses, owned>>
           /\ Goes(IF "pi" \in harnesses THEN "remove package" ELSE "end")
BY StepOf, GotoKeeps DEF SetupTyped, Setup!RemoveHookScript, Setup!At, Setup!PiPart, Goes

\* The steps that leave Claude Code's part alone.
PiStep ==
    \/ Setup!InstallPiExtension \/ Setup!RemovePiPackage \/ Setup!EditPiPackages
    \/ Setup!WritePiSettings \/ Setup!FailForPi \/ Setup!Finish \/ Setup!Abort

LEMMA PiStepIs ==
    ASSUME SetupTyped, PiStep
    PROVE  /\ UNCHANGED <<claude, script, harnesses, owned>> /\ command.name # "none"
           /\ \/ command' = Setup!Idle
              \/ /\ command.at \in InPi /\ command'.name = command.name /\ command'.at \in InPi
                 /\ outcome' = outcome
<1>1. UNCHANGED <<claude, script, harnesses, owned>>
    BY DEF PiStep, Setup!InstallPiExtension, Setup!RemovePiPackage, Setup!EditPiPackages,
        Setup!WritePiSettings, Setup!FailForPi, Setup!Finish, Setup!Abort
<1>2. IsCommand(command)
    BY StepOf DEF SetupTyped
<1> USE <1>1, <1>2 DEF SetupTyped, InPi
<1>3. CASE Setup!InstallPiExtension
    BY <1>3, StepOf, GotoKeeps DEF Setup!InstallPiExtension, Setup!At
<1>4. CASE Setup!RemovePiPackage
    BY <1>4, StepOf, GotoKeeps DEF Setup!RemovePiPackage, Setup!At
<1>5. CASE Setup!EditPiPackages
    <2>1. command.at = "packages" /\ command.name # "none"
        BY <1>5, StepOf DEF Setup!EditPiPackages
    <2>2. CASE pi # Torn
        BY <1>5, <2>1, <2>2, EditPiIs
    <2>3. CASE pi = Torn
        BY <1>5, <2>1, <2>3, GotoKeeps DEF Setup!EditPiPackages, Setup!End
    <2> QED
        BY <2>2, <2>3
<1>6. CASE Setup!WritePiSettings
    BY <1>6, StepOf, GotoKeeps DEF Setup!WritePiSettings
<1>7. CASE Setup!FailForPi
    BY <1>7, GotoKeeps DEF Setup!FailForPi
<1>8. CASE Setup!Finish \/ Setup!Abort
    BY <1>8 DEF Setup!Finish, Setup!Abort, Setup!End
<1> QED
    BY <1>3, <1>4, <1>5, <1>6, <1>7, <1>8 DEF PiStep

LEMMA AddHookIs ==
    ASSUME SetupTyped, NEW h \in HookTypes, Setup!AddHook(h)
    PROVE  /\ claude # Torn /\ claude' = [Content EXCEPT !.hooks[h].own = @ + 1]
           /\ owned' = IF Holding THEN owned ELSE [owned EXCEPT !.hooks[h] = @ + 1]
           /\ UNCHANGED <<pi, script, package, harnesses, command, outcome>>
BY DEF Setup!AddHook, Content, Setup!Content, Setup!HoldsSettings, Holding

LEMMA JoinHookIs ==
    ASSUME SetupTyped, NEW h \in HookTypes, Setup!JoinHook(h)
    PROVE  /\ claude # Torn /\ claude' = [Content EXCEPT !.hooks[h] = Setup!Joined(@)]
           /\ Setup!HasAtmHook(Content.hooks[h])
           /\ UNCHANGED <<pi, script, package, harnesses, command, outcome, owned>>
BY DEF Setup!JoinHook, Content, Setup!Content, Setup!Read

-----------------------------------------------------------------------------
(* Setup: what edits of the settings do to the entries *)

LEMMA Counts ==
    ASSUME NEW s \in Setup!Settings, NEW h \in HookTypes
    PROVE  /\ s.hooks[h].atm \in Nat /\ s.hooks[h].both \in Nat /\ s.hooks[h].own \in Nat
           /\ s.statusLine \in {"none", "atm", "own"}
BY DEF Setup!Settings, Setup!Entries, Setup!Atm, Setup!Own

LEMMA SetupEdits ==
    ASSUME NEW s \in Setup!Settings
    PROVE  /\ Once(s) => Served(Setup!WithAtm(s))
           /\ \A h \in HookTypes : Setup!WithAtm(s).hooks[h].own = s.hooks[h].own
           /\ Unhooked(Setup!WithoutHooks(s))
           /\ Setup!WithoutHooks(s).statusLine = s.statusLine
           /\ \A h \in HookTypes : Setup!WithoutHooks(s).hooks[h].own = s.hooks[h].own
           /\ WithoutStatusLine(s).statusLine # "atm"
           /\ WithoutStatusLine(s).hooks = s.hooks
<1>1. \A h \in HookTypes :
         /\ Setup!WithAtm(s).hooks[h].own = s.hooks[h].own
         /\ Setup!WithAtm(s).hooks[h].both = s.hooks[h].both
         /\ Setup!WithAtm(s).hooks[h].atm =
               IF s.hooks[h].atm > 0 \/ s.hooks[h].both > 0 THEN s.hooks[h].atm
               ELSE s.hooks[h].atm + 1
    BY DEF Setup!WithAtm, Setup!HasAtmHook, Setup!Settings, Setup!Entries, Setup!Atm, Setup!Own
<1>2. Setup!WithAtm(s).statusLine = "atm"
    BY DEF Setup!WithAtm, Setup!Atm
<1>3. Once(s) => Served(Setup!WithAtm(s))
    BY <1>1, <1>2, Counts DEF Once, Served
<1>4. /\ \A h \in HookTypes :
            /\ Setup!WithoutHooks(s).hooks[h].own = s.hooks[h].own
            /\ Setup!WithoutHooks(s).hooks[h].both = 0
            /\ Setup!WithoutHooks(s).hooks[h].atm = 0
      /\ Setup!WithoutHooks(s).statusLine = s.statusLine
    BY DEF Setup!WithoutHooks, Setup!RemoveAtmHooks, Setup!Settings, Setup!Entries
<1>5. /\ WithoutStatusLine(s).statusLine # "atm"
      /\ WithoutStatusLine(s).hooks = s.hooks
    BY DEF WithoutStatusLine, Setup!Settings
<1> QED
    BY <1>1, <1>3, <1>4, <1>5 DEF Unhooked

LEMMA AddEdits ==
    ASSUME NEW s \in Setup!Settings, NEW h \in HookTypes
    PROVE  LET t == [s EXCEPT !.hooks[h].own = @ + 1]
           IN  /\ Once(s) => Once(t)
               /\ Unhooked(s) => Unhooked(t)
               /\ Clean(s) => Clean(t)
               /\ Served(s) => Served(t)
               /\ t.statusLine = s.statusLine
               /\ \A g \in HookTypes :
                     t.hooks[g].own = IF g = h THEN s.hooks[g].own + 1 ELSE s.hooks[g].own
<1> DEFINE t == [s EXCEPT !.hooks[h].own = @ + 1]
<1>1. t.statusLine = s.statusLine
    BY DEF Setup!Settings
<1>2. ASSUME NEW g \in HookTypes
      PROVE  /\ t.hooks[g].own = IF g = h THEN s.hooks[g].own + 1 ELSE s.hooks[g].own
             /\ t.hooks[g].atm = s.hooks[g].atm
             /\ t.hooks[g].both = s.hooks[g].both
    BY DEF Setup!Settings, Setup!Entries
<1> HIDE DEF t
<1> QED
    BY <1>1, <1>2 DEF t, Once, Unhooked, Clean, Served

LEMMA JoinEdits ==
    ASSUME NEW s \in Setup!Settings, NEW h \in HookTypes
    PROVE  LET t == [s EXCEPT !.hooks[h] = Setup!Joined(@)]
           IN  /\ Once(s) => Once(t)
               /\ Served(s) => Served(t)
               /\ Clean(s) \/ Unhooked(s) => ~Setup!HasAtmHook(s.hooks[h])
               /\ \A g \in HookTypes : t.hooks[g].own = s.hooks[g].own
<1> DEFINE t == [s EXCEPT !.hooks[h] = Setup!Joined(@)]
<1>1. t.statusLine = s.statusLine
    BY DEF Setup!Settings
<1>2. ASSUME NEW g \in HookTypes
      PROVE  /\ t.hooks[g].own = s.hooks[g].own
             /\ t.hooks[g].atm + t.hooks[g].both = s.hooks[g].atm + s.hooks[g].both
    <2>1. t.hooks[g] = IF g = h THEN Setup!Joined(s.hooks[g]) ELSE s.hooks[g]
        BY DEF Setup!Settings
    <2> HIDE DEF t
    <2> QED
        BY <2>1, Counts DEF Setup!Joined
<1>3. Clean(s) \/ Unhooked(s) => ~Setup!HasAtmHook(s.hooks[h])
    BY DEF Clean, Unhooked, Setup!HasAtmHook
<1> HIDE DEF t
<1> QED
    BY <1>1, <1>2, <1>3 DEF t, Once, Served

LEMMA Grades ==
    ASSUME NEW s
    PROVE  /\ Served(s) => Once(s)
           /\ Unhooked(s) => Once(s)
           /\ Clean(s) <=> Unhooked(s) /\ s.statusLine # "atm"
<1>1. Served(s) => Once(s)
    <2>1. ASSUME NEW n, n = 1  PROVE n <= 1
        BY <2>1
    <2> QED
        BY <2>1, Zenon DEF Served, Once
<1>2. Unhooked(s) => Once(s)
    <2>1. ASSUME NEW m, m = 0, NEW n, n = 0  PROVE m + n <= 1
        BY <2>1
    <2> QED
        BY <2>1, Zenon DEF Unhooked, Once
<1>3. Clean(s) <=> Unhooked(s) /\ s.statusLine # "atm"
    BY DEF Unhooked, Clean
<1> QED
    BY <1>1, <1>2, <1>3

-----------------------------------------------------------------------------
(* Setup: the hooks *)

LEMMA HooksStep ==
    ASSUME SetupTyped, HooksInv, [Setup!Next]_files
    PROVE  HooksInv'
<1> USE StepOf, IdleIs DEF SetupTyped
<1>1. claude # Torn => Content \in Setup!Settings
    BY ContentTyped DEF Content, Setup!Content
<1>2. ASSUME UNCHANGED claude
      PROVE  Content' = Content
    BY <1>2 DEF Content, Setup!Content
<1>3. CASE \E name \in {"setup", "uninstall"} : Setup!Begin(name)
    <2>1. PICK name \in {"setup", "uninstall"} : Setup!Begin(name)
        BY <1>3
    <2>2. UNCHANGED <<claude, script>>
        BY <2>1 DEF Setup!Begin
    <2> QED
        BY <1>2, <2>1, <2>2, BeginIs DEF HooksInv, Doing, Holding
<1>4. CASE Setup!InstallHookScript
    BY <1>2, <1>4, InstallHookScriptIs DEF HooksInv, Doing, Holding, Goes
<1>5. CASE Setup!SetupClaudeCode
    <2>1. CASE command' = Setup!Idle
        BY <1>2, <1>5, <2>1, SetupClaudeCodeIs DEF HooksInv, Doing, Holding
    <2>2. CASE command' # Setup!Idle
        <3>1. /\ claude # Torn /\ script = "whole" /\ UNCHANGED <<claude, script>>
              /\ command'.name = "setup" /\ command'.settings = Setup!WithAtm(Content)
              /\ command'.at \in {"write", "end", "extension"}
            BY <1>5, <2>2, SetupClaudeCodeIs DEF HooksInv, Doing, Goes, Setup!PiPart
        <3>2. Served(command'.settings) /\ Once(command'.settings)
            BY <1>1, <3>1, SetupEdits, Grades DEF HooksInv
        <3> QED
            BY <1>2, <3>1, <3>2 DEF HooksInv, Doing, Holding
    <2> QED
        BY <2>1, <2>2
<1>6. CASE Setup!UninstallHooks
    <2>1. CASE command' = Setup!Idle
        BY <1>2, <1>6, <2>1, UninstallHooksIs DEF HooksInv, Doing, Holding
    <2>2. CASE command' # Setup!Idle
        <3> DEFINE t == Setup!WithoutHooks(Content)
        <3>1. /\ claude # Torn /\ UNCHANGED <<claude, script>>
              /\ command'.name = "uninstall" /\ command'.settings = t
              /\ command'.at = "write" \/ (command'.at = "status line" /\ Content = t)
            BY <1>6, <2>2, UninstallHooksIs DEF Goes
        <3>2. Unhooked(t) /\ Once(t) /\ t.statusLine = Content.statusLine
            BY <1>1, <3>1, SetupEdits, Grades
        <3> HIDE DEF t
        <3>3. script = "absent" => Clean(t)
            BY <3>1, <3>2, Grades DEF HooksInv
        <3> QED
            BY <1>2, <3>1, <3>2, <3>3 DEF HooksInv, Doing, Holding
    <2> QED
        BY <2>1, <2>2
<1>7. CASE Setup!UninstallStatusLine
    <2> DEFINE s == command.settings
               t == WithoutStatusLine(s)
    <2>1. /\ command.name = "uninstall" /\ command.at = "status line"
          /\ UNCHANGED <<claude, script>>
          /\ s \in Setup!Settings
          /\ command'.name = "uninstall" /\ command'.settings = t
          /\ command'.at = "write" \/ (command'.at = "remove script" /\ s = t)
        BY <1>7, UninstallStatusLineIs DEF Goes
    <2>2. Unhooked(s) /\ claude # Torn /\ Unhooked(Content)
          /\ (s.statusLine # "atm" => Content.statusLine # "atm")
        BY <2>1 DEF HooksInv, Doing
    <2>3. t.statusLine # "atm" /\ Unhooked(t)
        BY <2>1, <2>2, SetupEdits DEF Unhooked
    <2> HIDE DEF s, t
    <2>4. Clean(t) /\ Once(t) /\ (s = t => Clean(Content))
        BY <2>2, <2>3, Grades
    <2> QED
        BY <1>2, <2>1, <2>2, <2>3, <2>4 DEF HooksInv, Doing, Holding
<1>8. CASE Setup!WriteSettings
    <2> DEFINE s == command.settings
    <2>1. /\ command.name # "none" /\ s \in Setup!Settings
          /\ UNCHANGED script
          /\ command'.settings = s /\ command'.name = command.name
        BY <1>8, WriteSettingsIs DEF Goes
    <2>2. CASE command.at = "write"
        BY <1>8, <2>1, <2>2, WriteSettingsIs DEF HooksInv, Doing, Holding, Goes
    <2>3. CASE command.at = "fill"
        <3>1. claude' = s /\ Content' = s /\ s # NoFile
            BY <1>8, <2>1, <2>3, WriteSettingsIs, EnvironmentAssumption
               DEF Content, Setup!Content, Setup!Read
        <3>2. /\ Once(s) /\ (script = "absent" => Clean(s))
              /\ (command.name = "setup" => Served(s) /\ script = "whole")
              /\ (command.name = "uninstall" => Unhooked(s))
            BY <2>3 DEF HooksInv, Doing, Holding
        <3>3. CASE command.name = "setup"
            <4>1. command'.at \in {"end", "extension"}
                BY <1>8, <2>3, <3>3, WriteSettingsIs DEF Goes, Setup!AfterWrite, Setup!PiPart
            <4> QED
                BY <2>1, <3>1, <3>2, <3>3, <4>1 DEF HooksInv, Doing, Holding
        <3>4. CASE command.name = "uninstall"
            <4>1. command'.at = IF s.statusLine = "atm" THEN "status line" ELSE "remove script"
                BY <1>8, <2>3, <3>4, WriteSettingsIs DEF Goes, Setup!AfterWrite, Setup!Atm
            <4>2. s # Torn
                BY <2>1, EnvironmentAssumption
            <4> HIDE DEF s
            <4>3. s.statusLine # "atm" => Clean(s)
                BY <3>2, <3>4, Grades
            <4> QED
                BY <2>1, <3>1, <3>2, <3>4, <4>1, <4>2, <4>3 DEF HooksInv, Doing, Holding
        <3> QED
            BY <2>1, <3>3, <3>4
    <2> QED
        BY <1>8, <2>2, <2>3, WriteSettingsIs
<1>9. CASE Setup!RemoveHookScript
    BY <1>2, <1>9, RemoveHookScriptIs DEF HooksInv, Doing, Holding, Goes
<1>10. CASE PiStep
    BY <1>2, <1>10, PiStepIs DEF HooksInv, Doing, Holding, InPi
<1>11. CASE \E h \in HookTypes : Setup!AddHook(h)
    <2>1. PICK h \in HookTypes : Setup!AddHook(h)
        BY <1>11
    <2> DEFINE t == [Content EXCEPT !.hooks[h].own = @ + 1]
    <2>2. /\ claude # Torn /\ claude' = t /\ UNCHANGED <<script, command>>
          /\ t \in Setup!Settings
        BY <1>1, <2>1, AddHookIs, SettingsKept
    <2>3. /\ Once(Content) => Once(t)
          /\ Unhooked(Content) => Unhooked(t)
          /\ Clean(Content) => Clean(t)
          /\ t.statusLine = Content.statusLine
        BY <1>1, <2>2, AddEdits
    <2> HIDE DEF t
    <2>4. Content' = t /\ t # Torn
        BY <2>2, EnvironmentAssumption DEF Content, Setup!Content, Setup!Read
    <2> QED
        BY <2>2, <2>3, <2>4 DEF HooksInv, Doing, Holding
<1>12. CASE \E h \in HookTypes : Setup!JoinHook(h)
    <2>1. PICK h \in HookTypes : Setup!JoinHook(h)
        BY <1>12
    <2> DEFINE t == [Content EXCEPT !.hooks[h] = Setup!Joined(@)]
    <2>2. /\ claude # Torn /\ claude' = t /\ UNCHANGED <<script, command>>
          /\ t \in Setup!Settings
        BY <1>1, <2>1, JoinHookIs, SettingsKept
    <2>3. /\ Once(Content) => Once(t)
          /\ ~Clean(Content) /\ ~Unhooked(Content)
        BY <1>1, <2>1, <2>2, JoinHookIs, JoinEdits
    <2> HIDE DEF t
    <2>4. Content' = t /\ t # Torn
        BY <2>2, EnvironmentAssumption DEF Content, Setup!Content, Setup!Read
    <2> QED
        BY <2>2, <2>3, <2>4 DEF HooksInv, Doing, Holding
<1>13. CASE Setup!Repair
    <2>1. command = Setup!Idle /\ UNCHANGED <<script, command>>
        BY <1>13 DEF Setup!Repair
    <2>2. CASE UNCHANGED claude
        BY <1>2, <2>1, <2>2 DEF HooksInv, Doing, Holding
    <2>3. CASE claude' = NoFile
        <3>1. Content' = Setup!NoSettings
            BY <2>3 DEF Content, Setup!Content, Setup!Read
        <3>2. Clean(Setup!NoSettings) /\ Once(Setup!NoSettings)
            BY DEF Clean, Once, Setup!NoSettings, Setup!NoEntries
        <3> QED
            BY <2>1, <2>3, <3>1, <3>2 DEF HooksInv, Doing, Holding
    <2> QED
        BY <1>13, <2>2, <2>3 DEF Setup!Repair
<1>14. CASE UNCHANGED files
    BY <1>2, <1>14 DEF files, HooksInv, Doing, Holding
<1> QED
    BY <1>3, <1>4, <1>5, <1>6, <1>7, <1>8, <1>9, <1>10, <1>11, <1>12, <1>13, <1>14
       DEF Setup!Next, Setup!SetupWorks, PiStep

-----------------------------------------------------------------------------
(* Setup: what is the user's *)

KeepsHooks(s, kept) == \A h \in HookTypes : s.hooks[h].own >= kept.hooks[h]

LEMMA OthersStep ==
    ASSUME SetupTyped, OthersInv, [Setup!Next]_files
    PROVE  OthersInv'
<1> USE StepOf, IdleIs DEF SetupTyped
<1>1. claude # Torn => Content \in Setup!Settings
    BY ContentTyped DEF Content, Setup!Content
<1>2. ASSUME UNCHANGED claude
      PROVE  Content' = Content
    BY <1>2 DEF Content, Setup!Content
<1>3. /\ owned \in [hooks : [HookTypes -> Nat], packages : SUBSET {"own"}]
      /\ claude # Torn => KeepsHooks(Content, owned)
      /\ Holding => KeepsHooks(command.settings, owned)
      /\ pi # Torn => owned.packages \subseteq Setup!Read(pi, {})
      /\ command.at \in {"write pi", "fill pi"} => owned.packages \subseteq command.settings
    BY DEF FilesTyped, OthersInv, KeepsHooks
<1>4. SUFFICES
         /\ claude' # Torn => KeepsHooks(Content', owned')
         /\ Holding' => KeepsHooks(command'.settings, owned')
         /\ pi' # Torn => owned'.packages \subseteq Setup!Read(pi', {})
         /\ command'.at \in {"write pi", "fill pi"} =>
               owned'.packages \subseteq command'.settings
    BY DEF OthersInv, KeepsHooks
<1>5. CASE \E name \in {"setup", "uninstall"} : Setup!Begin(name)
    <2>1. PICK name \in {"setup", "uninstall"} : Setup!Begin(name)
        BY <1>5
    <2>2. UNCHANGED <<claude, pi, owned>>
        BY <2>1 DEF Setup!Begin
    <2> QED
        BY <1>2, <1>3, <2>1, <2>2, BeginIs DEF Holding
<1>6. CASE Setup!InstallHookScript
    BY <1>2, <1>3, <1>6, InstallHookScriptIs DEF Holding, Goes
<1>7. CASE Setup!SetupClaudeCode
    <2>1. UNCHANGED <<claude, pi, owned>>
        BY <1>7, SetupClaudeCodeIs
    <2>2. \/ command' = Setup!Idle
          \/ /\ claude # Torn /\ command'.settings = Setup!WithAtm(Content)
             /\ command'.at \in {"write", "end", "extension"}
        BY <1>7, SetupClaudeCodeIs DEF Goes, Setup!PiPart
    <2>3. claude # Torn => KeepsHooks(Setup!WithAtm(Content), owned)
        BY <1>1, <1>3, SetupEdits DEF KeepsHooks
    <2> QED
        BY <1>2, <1>3, <2>1, <2>2, <2>3 DEF Holding
<1>8. CASE Setup!UninstallHooks
    <2>1. UNCHANGED <<claude, pi, owned>>
        BY <1>8, UninstallHooksIs
    <2>2. \/ command' = Setup!Idle
          \/ /\ claude # Torn /\ command'.settings = Setup!WithoutHooks(Content)
             /\ command'.at \in {"write", "status line"}
        BY <1>8, UninstallHooksIs DEF Goes
    <2>3. claude # Torn => KeepsHooks(Setup!WithoutHooks(Content), owned)
        BY <1>1, <1>3, SetupEdits DEF KeepsHooks
    <2> QED
        BY <1>2, <1>3, <2>1, <2>2, <2>3 DEF Holding
<1>9. CASE Setup!UninstallStatusLine
    <2>1. /\ UNCHANGED <<claude, pi, owned>> /\ Holding
          /\ command.settings \in Setup!Settings
          /\ command'.settings = WithoutStatusLine(command.settings)
          /\ command'.at \in {"write", "remove script"}
        BY <1>9, UninstallStatusLineIs DEF Goes, Holding
    <2>2. KeepsHooks(WithoutStatusLine(command.settings), owned)
        BY <1>3, <2>1, SetupEdits DEF KeepsHooks
    <2> QED
        BY <1>2, <1>3, <2>1, <2>2 DEF Holding
<1>10. CASE Setup!WriteSettings
    <2> DEFINE s == command.settings
    <2>1. /\ command.name # "none" /\ s \in Setup!Settings /\ Holding
          /\ command'.settings = s /\ UNCHANGED <<pi, owned>>
          /\ command'.at \notin {"write pi", "fill pi"}
        BY <1>10, WriteSettingsIs DEF Goes, Holding, Setup!AfterWrite, Setup!PiPart
    <2>2. CASE claude' = Torn
        BY <1>3, <2>1, <2>2
    <2>3. CASE claude' = s
        <3>1. Content' = s
            BY <2>1, <2>3, EnvironmentAssumption DEF Content, Setup!Content, Setup!Read
        <3> QED
            BY <1>3, <2>1, <3>1
    <2> QED
        BY <1>10, <2>2, <2>3, WriteSettingsIs
<1>11. CASE Setup!RemoveHookScript
    BY <1>2, <1>3, <1>11, RemoveHookScriptIs DEF Holding, Goes
<1>12. CASE Setup!EditPiPackages /\ pi # Torn
    <2> DEFINE s == Setup!Read(pi, {})
               t == IF command.name = "setup" THEN s \union {"atm"} ELSE s \ {"atm"}
    <2>1. UNCHANGED <<claude, pi, owned>>
        BY <1>12 DEF Setup!EditPiPackages
    <2>2. command'.at \in {"end", "write pi"} /\ command'.settings = t
        BY <1>12, EditPiIs
    <2>3. owned.packages \subseteq t
        BY <1>3, <1>12
    <2> HIDE DEF t
    <2> QED
        BY <1>2, <1>3, <2>1, <2>2, <2>3 DEF Holding
<1>13. CASE Setup!WritePiSettings
    <2>1. /\ command.at \in {"write pi", "fill pi"} /\ UNCHANGED <<claude, owned>>
          /\ pi' \in {Torn, command.settings}
          /\ command.settings \in SUBSET {"atm", "own"}
        BY <1>13 DEF Setup!WritePiSettings, CommandTyped
    <2>2. command'.at \in {"fill pi", "end"} /\ command'.settings = command.settings
        BY <1>13, GotoKeeps DEF Setup!WritePiSettings
    <2>3. pi' # Torn => Setup!Read(pi', {}) = command.settings
        BY <2>1, EnvironmentAssumption DEF Setup!Read, Setup!Atm, Setup!Own
    <2> QED
        BY <1>2, <1>3, <2>1, <2>2, <2>3 DEF Holding
<1>14. CASE /\ PiStep /\ UNCHANGED pi /\ ~Setup!WritePiSettings
            /\ ~(Setup!EditPiPackages /\ pi # Torn)
    <2>1. UNCHANGED <<claude, owned>>
        BY <1>14, PiStepIs
    <2>2. command' = Setup!Idle \/ command'.at \in {"manifest", "packages", "pi failed", "end"}
        BY <1>14, GotoKeeps DEF PiStep, Setup!InstallPiExtension, Setup!RemovePiPackage,
           Setup!EditPiPackages, Setup!FailForPi, Setup!Finish, Setup!Abort, Setup!End
    <2> QED
        BY <1>2, <1>3, <1>14, <2>1, <2>2 DEF Holding
<1>15. CASE \E h \in HookTypes : Setup!AddHook(h)
    <2>1. PICK h \in HookTypes : Setup!AddHook(h)
        BY <1>15
    <2> DEFINE t == [Content EXCEPT !.hooks[h].own = @ + 1]
    <2>2. /\ claude # Torn /\ claude' = t /\ UNCHANGED <<pi, command>>
          /\ t \in Setup!Settings
          /\ owned' = IF Holding THEN owned ELSE [owned EXCEPT !.hooks[h] = @ + 1]
        BY <1>1, <2>1, AddHookIs, SettingsKept
    <2>3. \A g \in HookTypes :
             t.hooks[g].own = IF g = h THEN Content.hooks[g].own + 1 ELSE Content.hooks[g].own
        BY <1>1, <2>2, AddEdits
    <2> HIDE DEF t
    <2>4. Content' = t
        BY <2>2, EnvironmentAssumption DEF Content, Setup!Content, Setup!Read
    <2>5. /\ owned'.packages = owned.packages
          /\ Holding => owned' = owned
          /\ \A g \in HookTypes :
                owned'.hooks[g] \in {owned.hooks[g], IF g = h THEN owned.hooks[g] + 1
                                                     ELSE owned.hooks[g]}
        BY <1>3, <2>2
    <2>6. KeepsHooks(t, owned')
        <3> SUFFICES ASSUME NEW g \in HookTypes
                     PROVE  t.hooks[g].own >= owned'.hooks[g]
            BY DEF KeepsHooks
        <3>1. /\ Content.hooks[g].own \in Nat /\ owned.hooks[g] \in Nat
              /\ Content.hooks[g].own >= owned.hooks[g]
            BY <1>1, <1>3, <2>2, Counts DEF KeepsHooks
        <3> QED
            BY <2>3, <2>5, <3>1
    <2> QED
        BY <1>3, <2>2, <2>4, <2>5, <2>6 DEF Holding
<1>16. CASE \E h \in HookTypes : Setup!JoinHook(h)
    <2>1. PICK h \in HookTypes : Setup!JoinHook(h)
        BY <1>16
    <2> DEFINE t == [Content EXCEPT !.hooks[h] = Setup!Joined(@)]
    <2>2. /\ claude # Torn /\ claude' = t /\ UNCHANGED <<pi, command, owned>>
          /\ t \in Setup!Settings
        BY <1>1, <2>1, JoinHookIs, SettingsKept
    <2>3. \A g \in HookTypes : t.hooks[g].own = Content.hooks[g].own
        BY <1>1, <2>2, JoinEdits
    <2> HIDE DEF t
    <2>4. Content' = t
        BY <2>2, EnvironmentAssumption DEF Content, Setup!Content, Setup!Read
    <2>5. KeepsHooks(t, owned)
        BY <1>3, <2>2, <2>3 DEF KeepsHooks
    <2> QED
        BY <1>3, <2>2, <2>4, <2>5 DEF Holding
<1>17. CASE Setup!Repair
    <2>1. command = Setup!Idle /\ UNCHANGED command
        BY <1>17 DEF Setup!Repair
    <2>2. CASE /\ UNCHANGED pi /\ claude' = NoFile
               /\ owned' = [owned EXCEPT !.hooks = [h \in HookTypes |-> 0]]
        <3>1. Content' = Setup!NoSettings
            BY <2>2 DEF Content, Setup!Content, Setup!Read
        <3>2. /\ owned'.packages = owned.packages
              /\ \A h \in HookTypes : owned'.hooks[h] = 0
            BY <1>3, <2>2
        <3>3. KeepsHooks(Setup!NoSettings, owned')
            BY <3>2 DEF KeepsHooks, Setup!NoSettings, Setup!NoEntries
        <3> QED
            BY <1>3, <2>1, <2>2, <3>1, <3>2, <3>3 DEF Holding
    <2>3. CASE UNCHANGED claude /\ owned' = [owned EXCEPT !.packages = {}]
        <3>1. owned'.packages = {} /\ owned'.hooks = owned.hooks
            BY <1>3, <2>3
        <3> QED
            BY <1>2, <1>3, <2>1, <2>3, <3>1 DEF Holding, KeepsHooks
    <2> QED
        BY <1>17, <2>2, <2>3 DEF Setup!Repair
<1>18. CASE UNCHANGED files
    BY <1>2, <1>3, <1>18 DEF files, Holding
<1>19. PiStep => \/ Setup!WritePiSettings
                 \/ Setup!EditPiPackages /\ pi # Torn
                 \/ /\ UNCHANGED pi /\ ~Setup!WritePiSettings
                    /\ ~(Setup!EditPiPackages /\ pi # Torn)
    BY DEF PiStep, Setup!InstallPiExtension, Setup!RemovePiPackage, Setup!EditPiPackages,
       Setup!FailForPi, Setup!Finish, Setup!Abort
<1> QED
    BY <1>5, <1>6, <1>7, <1>8, <1>9, <1>10, <1>11, <1>12, <1>13, <1>14, <1>15, <1>16, <1>17,
       <1>18, <1>19 DEF Setup!Next, Setup!SetupWorks, PiStep

-----------------------------------------------------------------------------
(* Setup: what a command that succeeds has done *)

\* A step after which no command runs, or one that is not yet at its part for pi.
LEMMA Undone ==
    ASSUME SetupTyped, command'.name = "none" \/ command'.at \notin InPi,
           outcome' \in {"none", "failed"}
    PROVE  CompletesInv'
BY DEF CompletesInv, Doing, InPi

LEMMA CompletesStep ==
    ASSUME SetupTyped, HooksInv, CompletesInv, [Setup!Next]_files
    PROVE  CompletesInv'
<1> USE StepOf, IdleIs DEF SetupTyped
<1>1. claude # Torn => Content \in Setup!Settings
    BY ContentTyped DEF Content, Setup!Content
<1>2. ASSUME UNCHANGED <<claude, script>>
      PROVE  Content' = Content /\ ClaudeServed' = ClaudeServed /\ ClaudeLeft' = ClaudeLeft
    BY <1>2 DEF Content, Setup!Content, ClaudeServed, ClaudeLeft
<1>3. ASSUME UNCHANGED <<pi, package>>
      PROVE  PiServed' = PiServed /\ PiLeft' = PiLeft
    BY <1>3 DEF PiServed, PiLeft
<1>4. CASE \E name \in {"setup", "uninstall"} : Setup!Begin(name)
    <2>1. PICK name \in {"setup", "uninstall"} : Setup!Begin(name)
        BY <1>4
    <2>2. UNCHANGED harnesses /\ outcome' = "none"
        BY <2>1 DEF Setup!Begin
    <2> QED
        BY <2>1, <2>2, BeginIs DEF CompletesInv, Doing, InPi
<1>5. CASE Setup!InstallHookScript
    BY <1>5, Undone, InstallHookScriptIs DEF Goes, InPi
<1>6. CASE Setup!SetupClaudeCode
    <2>1. CASE command' = Setup!Idle
        BY <1>6, <2>1, Undone, SetupClaudeCodeIs DEF Goes
    <2>2. CASE Goes("write")
        BY <1>6, <2>2, Undone, SetupClaudeCodeIs DEF Goes, InPi
    <2>3. CASE command' # Setup!Idle /\ ~Goes("write")
        <3>1. /\ command.name = "setup" /\ command.at = "settings"
              /\ UNCHANGED <<claude, script, harnesses>>
              /\ claude # Torn /\ Content = Setup!WithAtm(Content) /\ Goes(Setup!PiPart)
            BY <1>6, <2>3, SetupClaudeCodeIs
        <3>2. ClaudeServed
            BY <1>1, <3>1, SetupEdits DEF HooksInv, Doing, ClaudeServed
        <3>3. /\ command'.name = "setup" /\ outcome' = "none"
              /\ command'.at = IF "pi" \in harnesses THEN "extension" ELSE "end"
            BY <3>1 DEF Goes, Setup!PiPart
        <3> QED
            BY <1>2, <3>1, <3>2, <3>3 DEF CompletesInv, Doing, InPi
    <2> QED
        BY <2>1, <2>2, <2>3
<1>7. CASE Setup!UninstallHooks
    BY <1>7, Undone, UninstallHooksIs DEF Goes, InPi
<1>8. CASE Setup!UninstallStatusLine
    BY <1>8, Undone, UninstallStatusLineIs DEF Goes, InPi
<1>9. CASE Setup!WriteSettings
    <2>1. CASE command.at = "write"
        BY <1>9, <2>1, Undone, WriteSettingsIs DEF Goes, InPi
    <2>2. CASE command.at = "fill" /\ command.name = "uninstall"
        <3>1. Setup!AfterWrite \in {"status line", "remove script"}
            BY <2>2 DEF Setup!AfterWrite
        <3> QED
            BY <1>9, <2>2, <3>1, Undone, WriteSettingsIs DEF Goes, InPi
    <2>3. CASE command.at = "fill" /\ command.name = "setup"
        <3>1. /\ claude' = command.settings /\ command.settings \in Setup!Settings
              /\ UNCHANGED <<script, harnesses>> /\ Goes(Setup!AfterWrite)
            BY <1>9, <2>3, WriteSettingsIs
        <3>2. Content' = claude' /\ claude' # Torn
            BY <3>1, EnvironmentAssumption DEF Content, Setup!Content, Setup!Read
        <3>3. ClaudeServed'
            BY <2>3, <3>1, <3>2 DEF HooksInv, Doing, ClaudeServed
        <3>4. /\ command'.name = "setup" /\ outcome' = "none"
              /\ command'.at = IF "pi" \in harnesses THEN "extension" ELSE "end"
            BY <2>3, <3>1 DEF Goes, Setup!AfterWrite, Setup!PiPart
        <3> QED
            BY <3>1, <3>3, <3>4 DEF CompletesInv, Doing, InPi
    <2> QED
        BY <1>9, <2>1, <2>2, <2>3, WriteSettingsIs
<1>10. CASE Setup!RemoveHookScript
    <2>1. /\ command'.name = "uninstall" /\ outcome' = "none" /\ UNCHANGED <<claude, harnesses>>
          /\ command'.at = IF "pi" \in harnesses THEN "remove package" ELSE "end"
          /\ script' = "absent" /\ claude # Torn /\ Clean(Content)
        BY <1>10, RemoveHookScriptIs DEF HooksInv, Doing, Goes
    <2>2. ClaudeLeft'
        BY <2>1 DEF ClaudeLeft, Content, Setup!Content
    <2> QED
        BY <2>1, <2>2 DEF CompletesInv, Doing, InPi
<1>11. CASE Setup!InstallPiExtension
    <2>1. /\ command.name = "setup" /\ UNCHANGED <<claude, script, harnesses, outcome>>
          /\ \/ command.at = "extension" /\ Setup!Goto("manifest")
             \/ command.at = "manifest" /\ package' = "whole" /\ Setup!Goto("packages")
        BY <1>11 DEF Setup!InstallPiExtension, Setup!At
    <2>2. /\ command'.name = "setup" /\ outcome' = "none"
          /\ command'.at = "manifest" \/ (command'.at = "packages" /\ package' = "whole")
        BY <2>1, GotoKeeps
    <2>3. "claude" \in harnesses => ClaudeServed'
        BY <1>2, <2>1 DEF CompletesInv, Doing, InPi
    <2> QED
        BY <2>1, <2>2, <2>3 DEF CompletesInv, Doing
<1>12. CASE Setup!RemovePiPackage
    <2>1. /\ command.name = "uninstall" /\ UNCHANGED <<claude, script, harnesses, outcome>>
          /\ command.at = "remove package" /\ Setup!Goto("packages") /\ package' = "absent"
        BY <1>12 DEF Setup!RemovePiPackage, Setup!At
    <2>2. /\ command'.name = "uninstall" /\ outcome' = "none" /\ command'.at = "packages"
        BY <2>1, GotoKeeps
    <2>3. ClaudeLeft'
        BY <1>2, <2>1 DEF CompletesInv, Doing, InPi
    <2> QED
        BY <2>1, <2>2, <2>3 DEF CompletesInv, Doing
<1>13. CASE Setup!EditPiPackages
    <2>1. UNCHANGED <<claude, script, harnesses, pi, package>> /\ command.at = "packages"
        BY <1>13 DEF Setup!EditPiPackages
    <2>2. /\ command.name = "setup" => /\ "claude" \in harnesses => ClaudeServed'
                                       /\ package' = "whole"
          /\ command.name = "uninstall" => ClaudeLeft' /\ package' = "absent"
        BY <1>2, <2>1 DEF CompletesInv, Doing, InPi
    <2>3. CASE pi # Torn
        <3> DEFINE s == Setup!Read(pi, {})
                   t == IF command.name = "setup" THEN s \union {"atm"} ELSE s \ {"atm"}
        <3>1. /\ command'.name = command.name /\ outcome' = "none"
              /\ command'.at = IF t = s THEN "end" ELSE "write pi"
              /\ command'.settings = t
            BY <1>13, <2>1, <2>3, EditPiIs
        <3>2. CASE command.name = "setup"
            <4>1. "atm" \in t
                BY <3>2
            <4>2. t = s => PiServed'
                BY <2>1, <2>2, <2>3, <3>2, <4>1 DEF PiServed
            <4> HIDE DEF s, t
            <4> QED
                BY <2>1, <2>2, <3>1, <3>2, <4>1, <4>2 DEF CompletesInv, Doing
        <3>3. CASE command.name = "uninstall"
            <4>1. "atm" \notin t
                BY <3>3
            <4>2. t = s => PiLeft'
                BY <2>1, <2>2, <2>3, <3>3, <4>1 DEF PiLeft
            <4> HIDE DEF s, t
            <4> QED
                BY <2>1, <2>2, <3>1, <3>3, <4>1, <4>2 DEF CompletesInv, Doing
        <3> QED
            BY <2>1, <3>2, <3>3
    <2>4. CASE pi = Torn /\ command.name = "setup"
        BY <1>13, <2>4, Undone DEF Setup!EditPiPackages, Setup!End
    <2>5. CASE pi = Torn /\ command.name = "uninstall"
        <3>1. Setup!Goto("pi failed") /\ outcome' = "none"
            BY <1>13, <2>5 DEF Setup!EditPiPackages
        <3>2. command'.name = "uninstall" /\ command'.at = "pi failed"
            BY <2>5, <3>1, GotoKeeps
        <3> QED
            BY <2>2, <2>5, <3>1, <3>2 DEF CompletesInv, Doing
    <2> QED
        BY <2>1, <2>3, <2>4, <2>5
<1>14. CASE Setup!WritePiSettings
    <2>1. /\ UNCHANGED <<claude, script, harnesses, package, outcome>>
          /\ \/ command.at = "write pi" /\ Setup!Goto("fill pi")
             \/ command.at = "fill pi" /\ pi' = command.settings /\ Setup!Goto("end")
        BY <1>14 DEF Setup!WritePiSettings
    <2>2. /\ command.at \in {"write pi", "fill pi"}
          /\ command'.name = command.name /\ command'.settings = command.settings
          /\ outcome' = "none"
          /\ \/ command'.at = "fill pi"
             \/ command'.at = "end" /\ pi' = command.settings
        BY <2>1, GotoKeeps
    <2>3. /\ command.name = "setup" => /\ "claude" \in harnesses => ClaudeServed'
                                       /\ package' = "whole" /\ "atm" \in command.settings
          /\ command.name = "uninstall" => /\ ClaudeLeft' /\ package' = "absent"
                                           /\ "atm" \notin command.settings
        BY <1>2, <2>1, <2>2 DEF CompletesInv, Doing, InPi
    <2>4. command'.at = "end" => /\ pi' # Torn
                                 /\ Setup!Read(pi', {}) = command.settings
        <3>1. command.settings \in SUBSET {"atm", "own"}
            BY <2>2 DEF CommandTyped
        <3> QED
            BY <2>2, <3>1, EnvironmentAssumption DEF Setup!Read, Setup!Atm, Setup!Own
    <2>5. CASE command.name = "setup"
        <3>1. command'.at = "end" => PiServed'
            BY <2>3, <2>4, <2>5 DEF PiServed
        <3> QED
            BY <2>1, <2>2, <2>3, <2>5, <3>1 DEF CompletesInv, Doing
    <2>6. CASE command.name = "uninstall"
        <3>1. command'.at = "end" => PiLeft'
            BY <2>3, <2>4, <2>6 DEF PiLeft
        <3> QED
            BY <2>1, <2>2, <2>3, <2>6, <3>1 DEF CompletesInv, Doing
    <2> QED
        BY <2>2, <2>5, <2>6
<1>15. CASE Setup!FailForPi
    <2>1. /\ command.name = "uninstall" /\ command.at \in InPi /\ Setup!Goto("pi failed")
          /\ UNCHANGED <<claude, script, outcome>>
        BY <1>15 DEF Setup!FailForPi, InPi
    <2>2. /\ command'.name = "uninstall" /\ command'.at = "pi failed" /\ outcome' = "none"
        BY <2>1, GotoKeeps
    <2>3. ClaudeLeft'
        BY <1>2, <2>1 DEF CompletesInv, Doing
    <2> QED
        BY <2>2, <2>3 DEF CompletesInv, Doing
<1>16. CASE Setup!Finish
    <2>1. /\ command.name # "none" /\ command.at \in {"end", "pi failed"}
          /\ command' = Setup!Idle /\ UNCHANGED <<claude, script, harnesses, pi, package>>
          /\ outcome' = IF command.at = "end" THEN command.name ELSE "uninstalled but for pi"
        BY <1>16 DEF Setup!Finish, Setup!End
    <2>2. CASE command.name = "setup"
        <3>1. command.at = "end" /\ outcome' = "setup"
            BY <2>1, <2>2 DEF SetupSteps
        <3>2. /\ "claude" \in harnesses => ClaudeServed'
              /\ "pi" \in harnesses => PiServed'
            BY <1>2, <1>3, <2>1, <2>2, <3>1 DEF CompletesInv, Doing, InPi
        <3> QED
            BY <2>1, <3>1, <3>2 DEF CompletesInv, Doing
    <2>3. CASE command.name = "uninstall"
        <3>1. ClaudeLeft' /\ (command.at = "end" /\ "pi" \in harnesses => PiLeft')
            BY <1>2, <1>3, <2>1, <2>3 DEF CompletesInv, Doing, InPi
        <3> QED
            BY <2>1, <2>3, <3>1 DEF CompletesInv, Doing
    <2> QED
        BY <2>1, <2>2, <2>3
<1>17. CASE Setup!Abort
    BY <1>17, Undone DEF Setup!Abort, Setup!End
<1>18. CASE \E h \in HookTypes : Setup!AddHook(h)
    <2>1. PICK h \in HookTypes : Setup!AddHook(h)
        BY <1>18
    <2> DEFINE t == [Content EXCEPT !.hooks[h].own = @ + 1]
    <2>2. /\ claude # Torn /\ claude' = t /\ t \in Setup!Settings
          /\ UNCHANGED <<pi, script, package, harnesses, command, outcome>>
        BY <1>1, <2>1, AddHookIs, SettingsKept
    <2>3. (Served(Content) => Served(t)) /\ (Clean(Content) => Clean(t))
        BY <1>1, <2>2, AddEdits
    <2> HIDE DEF t
    <2>4. Content' = t /\ t # Torn
        BY <2>2, EnvironmentAssumption DEF Content, Setup!Content, Setup!Read
    <2>5. (ClaudeServed => ClaudeServed') /\ (ClaudeLeft => ClaudeLeft')
        BY <2>2, <2>3, <2>4 DEF ClaudeServed, ClaudeLeft
    <2> QED
        BY <1>3, <2>2, <2>5 DEF CompletesInv, Doing
<1>19. CASE \E h \in HookTypes : Setup!JoinHook(h)
    <2>1. PICK h \in HookTypes : Setup!JoinHook(h)
        BY <1>19
    <2> DEFINE t == [Content EXCEPT !.hooks[h] = Setup!Joined(@)]
    <2>2. /\ claude # Torn /\ claude' = t /\ t \in Setup!Settings
          /\ UNCHANGED <<pi, script, package, harnesses, command, outcome>>
        BY <1>1, <2>1, JoinHookIs, SettingsKept
    <2>3. (Served(Content) => Served(t)) /\ ~Clean(Content)
        BY <1>1, <2>1, <2>2, JoinHookIs, JoinEdits
    <2> HIDE DEF t
    <2>4. Content' = t /\ t # Torn
        BY <2>2, EnvironmentAssumption DEF Content, Setup!Content, Setup!Read
    <2>5. (ClaudeServed => ClaudeServed') /\ ~ClaudeLeft
        BY <2>2, <2>3, <2>4 DEF ClaudeServed, ClaudeLeft
    <2> QED
        BY <1>3, <2>2, <2>5 DEF CompletesInv, Doing
<1>20. CASE Setup!Repair
    <2>1. /\ command = Setup!Idle /\ UNCHANGED <<command, outcome, harnesses>>
          /\ \/ claude = Torn /\ UNCHANGED <<pi, package>>
             \/ pi = Torn /\ UNCHANGED <<claude, script>>
        BY <1>20 DEF Setup!Repair
    <2>2. CASE claude = Torn /\ UNCHANGED <<pi, package>>
        BY <1>3, <2>1, <2>2 DEF CompletesInv, Doing, ClaudeServed, ClaudeLeft
    <2>3. CASE pi = Torn /\ UNCHANGED <<claude, script>>
        BY <1>2, <2>1, <2>3 DEF CompletesInv, Doing, PiServed, PiLeft
    <2> QED
        BY <2>1, <2>2, <2>3
<1>21. CASE UNCHANGED files
    BY <1>2, <1>3, <1>21 DEF files, CompletesInv, Doing
<1> QED
    BY <1>4, <1>5, <1>6, <1>7, <1>8, <1>9, <1>10, <1>11, <1>12, <1>13, <1>14, <1>15, <1>16,
       <1>17, <1>18, <1>19, <1>20, <1>21 DEF Setup!Next, Setup!SetupWorks

-----------------------------------------------------------------------------
(* Setup: the theorems *)

SetupInv == SetupTyped /\ HooksInv /\ OthersInv /\ CompletesInv

LEMMA SetupStarts == Setup!Init => SetupInv
<1> SUFFICES ASSUME Setup!Init PROVE SetupInv
    OBVIOUS
<1> USE DEF Setup!Init
<1>1. PICK H \in SUBSET HookTypes :
         claude \in {NoFile,
            [hooks |-> [h \in HookTypes |-> IF h \in H THEN [Setup!NoEntries EXCEPT !.own = 1]
                                            ELSE Setup!NoEntries],
             statusLine |-> Setup!Own]}
    OBVIOUS
<1>2. Setup!NoSettings \in Setup!Settings /\ Clean(Setup!NoSettings) /\ Once(Setup!NoSettings)
    BY DEF Setup!NoSettings, Setup!NoEntries, Setup!Settings, Setup!Entries, Clean, Once
<1> DEFINE first == [hooks |-> [h \in HookTypes |->
                                  IF h \in H THEN [Setup!NoEntries EXCEPT !.own = 1]
                                  ELSE Setup!NoEntries],
                     statusLine |-> Setup!Own]
<1>4. first \in Setup!Settings /\ Clean(first) /\ Once(first)
    BY DEF Setup!NoEntries, Setup!Settings, Setup!Entries, Setup!Atm, Setup!Own, Clean, Once
<1>5. claude \in {NoFile, first}
    BY <1>1
<1> HIDE DEF first
<1>6. claude \in {NoFile} \union Setup!Settings /\ claude # Torn
    BY <1>4, <1>5, EnvironmentAssumption
<1>7. Content \in Setup!Settings /\ Clean(Content) /\ Once(Content)
    BY <1>2, <1>4, <1>5, EnvironmentAssumption DEF Content, Setup!Content, Setup!Read
<1>8. /\ owned.packages = Setup!Read(pi, {})
      /\ owned = [hooks |-> [h \in HookTypes |-> Content.hooks[h].own],
                  packages |-> owned.packages]
    BY DEF Content, Setup!Content
<1>9. pi \in {NoFile, {"own"}} /\ pi # Torn /\ Setup!Read(pi, {}) \in SUBSET {"own"}
    BY EnvironmentAssumption DEF Setup!Read, Setup!Atm, Setup!Own
<1>10. command = Setup!Idle /\ outcome = "none" /\ script = "absent" /\ package = "absent"
    OBVIOUS
<1>11. \A h \in HookTypes : Content.hooks[h].own \in Nat
    BY <1>7, Counts
<1>12. owned.hooks = [h \in HookTypes |-> Content.hooks[h].own]
    BY <1>8
<1> HIDE DEF Setup!Init
<1>13. SetupTyped
    BY <1>6, <1>8, <1>9, <1>10, <1>11, IdleIs
       DEF SetupTyped, FilesTyped, CommandTyped, Outcomes, Holding
<1>14. HooksInv /\ CompletesInv
    BY <1>7, <1>10, IdleIs DEF HooksInv, CompletesInv, Doing, Holding
<1>15. \A h \in HookTypes : Content.hooks[h].own >= owned.hooks[h]
    <2> SUFFICES ASSUME NEW h \in HookTypes
                 PROVE  Content.hooks[h].own >= owned.hooks[h]
        OBVIOUS
    <2> DEFINE n == Content.hooks[h].own
    <2>1. n \in Nat /\ owned.hooks[h] = n
        BY <1>11, <1>12
    <2> HIDE DEF n
    <2> QED
        BY <2>1 DEF n
<1>16. OthersInv
    BY <1>8, <1>10, <1>15, IdleIs DEF OthersInv, Holding
<1> QED
    BY <1>13, <1>14, <1>16 DEF SetupInv

LEMMA SetupShows ==
    ASSUME SetupInv
    PROVE  Setup!HooksServed /\ Setup!OthersKept /\ Setup!Completes
<1>1. claude # Torn => Content \in Setup!Settings
    BY ContentTyped DEF SetupInv, SetupTyped, Content, Setup!Content
<1>2. Setup!HooksServed
    <2> SUFFICES ASSUME claude # Torn
                 PROVE  /\ \A h \in HookTypes : Setup!Hooked(h) <= 1
                        /\ script = "absent" => /\ Content.statusLine # "atm"
                                                /\ \A h \in HookTypes : Setup!Hooked(h) = 0
        BY DEF Setup!HooksServed, Content, Setup!Atm
    <2>1. \A h \in HookTypes : Setup!Hooked(h) <= 1
        BY DEF SetupInv, HooksInv, Once, Setup!Hooked, Content
    <2>2. ASSUME script = "absent", NEW h \in HookTypes
          PROVE  Setup!Hooked(h) = 0
        <3>1. Setup!Content.hooks[h].atm = 0 /\ Setup!Content.hooks[h].both = 0
            BY <2>2 DEF SetupInv, HooksInv, Clean, Content
        <3> QED
            BY <3>1 DEF Setup!Hooked
    <2> QED
        BY <2>1, <2>2 DEF SetupInv, HooksInv, Clean
<1>3. Setup!OthersKept
    BY DEF SetupInv, OthersInv, Setup!OthersKept, Content
<1>4. Setup!Completes
    <2>1. ClaudeServed => /\ script = "whole" /\ claude # Torn
                          /\ Setup!Content.statusLine = Setup!Atm
                          /\ \A h \in HookTypes : Setup!Hooked(h) = 1
        BY DEF ClaudeServed, Served, Content, Setup!Hooked, Setup!Atm
    <2>2. ClaudeLeft => /\ script = "absent" /\ Setup!Content.statusLine # Setup!Atm
                        /\ \A h \in HookTypes : Setup!Hooked(h) = 0
        BY DEF ClaudeLeft, Clean, Content, Setup!Hooked, Setup!Atm
    <2> QED
        BY <2>1, <2>2 DEF SetupInv, CompletesInv, PiServed, PiLeft, Setup!Completes, Setup!Atm
<1> QED
    BY <1>2, <1>3, <1>4

LEMMA SetupHolds == Spec => [](area = "setup" => SetupInv)
<1> DEFINE Inv == area = "setup" => SetupInv
<1>1. Init => Inv
    BY SetupStarts DEF Init
<1>2. Inv /\ [Next]_vars => Inv'
    <2> SUFFICES ASSUME Inv, [Next]_vars, area' = "setup" PROVE SetupInv'
        OBVIOUS
    <2>1. area = "setup" /\ [Setup!Next]_files
        BY DEF Next, vars
    <2> QED
        BY <2>1, SetupTypedStep, HooksStep, OthersStep, CompletesStep DEF SetupInv
<1> QED
    BY <1>1, <1>2, PTL DEF Spec

\* setup, uninstall: whatever commands are run, in whatever order, and wherever
\* they are cut short, Claude Code is never told to run a script that is not
\* there, and runs it once for an event at most.
THEOREM HooksAreServed == Spec => []HooksServed
<1>1. (area = "setup" => SetupInv) => HooksServed
    BY SetupShows DEF HooksServed
<1> QED
    BY <1>1, SetupHolds, PTL

\* setup, uninstall: the user's own hook entries and packages are in every file
\* that can be read.
THEOREM OthersAreKept == Spec => []OthersKept
<1>1. (area = "setup" => SetupInv) => OthersKept
    BY SetupShows DEF OthersKept
<1> QED
    BY <1>1, SetupHolds, PTL

\* setup, uninstall: a command that reports success has done all of its work,
\* whatever an earlier one left half done.
THEOREM SuccessIsComplete == Spec => []Completes
<1>1. (area = "setup" => SetupInv) => Completes
    BY SetupShows DEF Completes
<1> QED
    BY <1>1, SetupHolds, PTL

-----------------------------------------------------------------------------
(* Workspace: invariants *)

\* Pane p of panes ps is a sidebar of window w.
IsBar(ps, p, w) == ps[p].window = w /\ ps[p].tagged
HasBar(ps, w) == \E p \in DOMAIN ps : IsBar(ps, p, w)

\* Job j of jobs js is about to put a sidebar into window w.
Entering(js, j, w) == js[j].window = w /\ js[j].at \in {"split", "tag"}

\* A window that no two jobs were at together has no sidebar while one is at it.
Alone(js, ps, ts) ==
    \A j \in DOMAIN js : \A w \in Windows \ ts :
       Entering(js, j, w) => /\ ~HasBar(ps, w)
                             /\ \A i \in DOMAIN js \ {j} : ~Entering(js, i, w)

\* The pane that job j at r has split off is in its window.  The hook's script
\* begins in its own window, and stays there while it has no pane.
Fits(j, r, ps) ==
    /\ r.at \in {"tag", "start"} /\ (j \in Commands \/ r.pane # 0) =>
          r.pane \in DOMAIN ps /\ ps[r.pane].window = r.window
    /\ r.at = "start" /\ j \in Commands => ps[r.pane].tagged
    /\ r.at = "split" /\ j \in Windows => r.window = j /\ r.pane = 0
    /\ r.at = "tag" /\ j \in Windows /\ r.pane = 0 => r.window = j
    /\ j \in Windows => r.todo = {} /\ r.listed = {}

OwnPane(js, ps) == \A j \in DOMAIN js : Fits(j, js[j], ps)

OneBar(ps, ts) ==
    \A w \in Windows \ ts : \A p, q \in DOMAIN ps : IsBar(ps, p, w) /\ IsBar(ps, q, w) => p = q

\* What a command has listed it has still to do, is at, or has seen to.
SeenTo(js, ps) ==
    \A j \in DOMAIN js :
       /\ js[j].at \in {"panes", "hooks"} => js[j].todo = {}
       /\ js[j].at \in {"split", "tag", "start"} => js[j].window \in js[j].todo \/ js[j].todo = {}
       /\ js[j].at # "end" => \A x \in js[j].listed :
             x \in js[j].todo \/ Entering(js, j, x) \/ HasBar(ps, x)

SidebarInv ==
    /\ \A p \in DOMAIN panes : panes[p].window \in opened
    /\ \A j \in DOMAIN jobs : jobs[j].at \in {"split", "tag", "start"} => jobs[j].window \in opened
    /\ OwnPane(jobs, panes)
    /\ Alone(jobs, panes, contested)
    /\ OneBar(panes, contested)
    /\ SeenTo(jobs, panes)
    /\ \A w \in visited : HasBar(panes, w)

WorkspaceInv == Workspace!TypeOK /\ SidebarInv

-----------------------------------------------------------------------------
(* Workspace: jobs and panes *)

Jobs == Commands \union Windows

\* Panes qs are panes ps, perhaps with others that are no sidebars.
SameBars(ps, qs) ==
    /\ DOMAIN ps \subseteq DOMAIN qs
    /\ \A p \in DOMAIN ps : qs[p].window = ps[p].window /\ qs[p].tagged = ps[p].tagged
    /\ \A p \in DOMAIN qs \ DOMAIN ps : ~qs[p].tagged

LEMMA SameBarsAre ==
    ASSUME NEW ps, NEW qs, SameBars(ps, qs), NEW w
    PROVE  /\ HasBar(qs, w) <=> HasBar(ps, w)
           /\ \A p \in DOMAIN qs : IsBar(qs, p, w) => p \in DOMAIN ps /\ IsBar(ps, p, w)
BY DEF SameBars, HasBar, IsBar

LEMMA StartIs ==
    ASSUME NEW step
    PROVE  LET r == Workspace!Start(step)
           IN  /\ r.at = step /\ r.window = NoWindow /\ r.pane = 0
               /\ r.todo = {} /\ r.listed = {}
BY DEF Workspace!Start

\* Panes that stay where they are and keep their tags keep a job's pane.
LEMMA FitsKept ==
    ASSUME NEW ps, NEW qs, NEW j, NEW r, Fits(j, r, ps), DOMAIN ps \subseteq DOMAIN qs,
           \A p \in DOMAIN ps : qs[p].window = ps[p].window /\ (ps[p].tagged => qs[p].tagged)
    PROVE  Fits(j, r, qs)
BY DEF Fits

\* Job j goes to r and the others stay.
LEMMA JobMoves ==
    ASSUME Workspace!TypeOK, SidebarInv,
           NEW j \in Jobs, NEW r \in Workspace!Job, jobs' = [jobs EXCEPT ![j] = r],
           SameBars(panes, panes'), \A p \in DOMAIN panes' : panes'[p].window \in opened',
           opened \subseteq opened', contested \subseteq contested',
           r.at \in {"split", "tag", "start"} => r.window \in opened',
           Fits(j, r, panes'),
           r.at \in {"split", "tag"} /\ r.window \notin contested' =>
              /\ ~HasBar(panes', r.window)
              /\ \A i \in Jobs \ {j} : ~Entering(jobs, i, r.window),
           r.at \in {"panes", "hooks"} => r.todo = {},
           r.at \in {"split", "tag", "start"} => r.window \in r.todo \/ r.todo = {},
           r.at # "end" => \A x \in r.listed :
              \/ x \in r.todo
              \/ r.window = x /\ r.at \in {"split", "tag"}
              \/ HasBar(panes', x),
           \A w \in visited' : HasBar(panes', w)
    PROVE  SidebarInv' /\ jobs' \in [Jobs -> Workspace!Job]
<1>1. /\ jobs \in [Jobs -> Workspace!Job] /\ DOMAIN jobs = Jobs /\ DOMAIN jobs' = Jobs
      /\ jobs' \in [Jobs -> Workspace!Job]
      /\ jobs'[j] = r /\ \A i \in Jobs \ {j} : jobs'[i] = jobs[i]
    BY DEF Workspace!TypeOK, Jobs
<1>2. \A i \in Jobs : jobs'[i].at \in {"split", "tag", "start"} => jobs'[i].window \in opened'
    BY <1>1 DEF SidebarInv
<1>3. OwnPane(jobs', panes')
    <2> SUFFICES ASSUME NEW i \in Jobs PROVE Fits(i, jobs'[i], panes')
        BY <1>1 DEF OwnPane
    <2>1. CASE i = j
        BY <1>1, <2>1
    <2>2. CASE i # j
        <3>1. Fits(i, jobs[i], panes) /\ jobs'[i] = jobs[i]
            BY <1>1, <2>2 DEF SidebarInv, OwnPane
        <3>2. /\ DOMAIN panes \subseteq DOMAIN panes'
              /\ \A p \in DOMAIN panes : /\ panes'[p].window = panes[p].window
                                         /\ panes[p].tagged => panes'[p].tagged
            BY DEF SameBars
        <3> QED
            BY <3>1, <3>2, FitsKept
    <2> QED
        BY <2>1, <2>2
<1>4. Alone(jobs', panes', contested')
    <2> SUFFICES ASSUME NEW i \in Jobs, NEW w \in Windows \ contested', Entering(jobs', i, w)
                 PROVE  /\ ~HasBar(panes', w)
                        /\ \A k \in Jobs \ {i} : ~Entering(jobs', k, w)
        BY <1>1 DEF Alone
    <2>1. CASE i = j
        BY <1>1, <2>1 DEF Entering
    <2>2. CASE i # j
        <3>1. Entering(jobs, i, w)
            BY <1>1, <2>2 DEF Entering
        <3>2. ~HasBar(panes', w) /\ \A k \in Jobs \ {i} : ~Entering(jobs, k, w)
            BY <1>1, <3>1, SameBarsAre DEF SidebarInv, Alone
        <3>3. ~Entering(jobs', j, w)
            BY <1>1, <2>2, <3>1 DEF Entering
        <3> QED
            BY <1>1, <3>2, <3>3 DEF Entering
    <2> QED
        BY <2>1, <2>2
<1>5. OneBar(panes', contested')
    BY SameBarsAre DEF SidebarInv, OneBar
<1>6. SeenTo(jobs', panes')
    <2> SUFFICES ASSUME NEW i \in Jobs
                 PROVE  /\ jobs'[i].at \in {"panes", "hooks"} => jobs'[i].todo = {}
                        /\ jobs'[i].at \in {"split", "tag", "start"} =>
                              jobs'[i].window \in jobs'[i].todo \/ jobs'[i].todo = {}
                        /\ jobs'[i].at # "end" => \A x \in jobs'[i].listed :
                              x \in jobs'[i].todo \/ Entering(jobs', i, x) \/ HasBar(panes', x)
        BY <1>1 DEF SeenTo
    <2>1. CASE i = j
        BY <1>1, <2>1 DEF Entering
    <2>2. CASE i # j
        BY <1>1, <2>2, SameBarsAre DEF Entering, SidebarInv, SeenTo
    <2> QED
        BY <2>1, <2>2
<1> QED
    BY <1>1, <1>2, <1>3, <1>4, <1>5, <1>6 DEF SidebarInv

\* A job that ends asks for nothing.
LEMMA JobEnds ==
    ASSUME Workspace!TypeOK, SidebarInv, NEW j \in Jobs, NEW step \in {"end", "new", "check"},
           jobs' = [jobs EXCEPT ![j] = Workspace!Start(step)],
           UNCHANGED <<panes, opened, contested>>, \A w \in visited' : HasBar(panes, w)
    PROVE  SidebarInv' /\ jobs' \in [Jobs -> Workspace!Job]
<1> DEFINE r == Workspace!Start(step)
<1>1. r \in Workspace!Job /\ r.at = step /\ r.todo = {} /\ r.listed = {}
    BY DEF Workspace!Job, Workspace!Start
<1> HIDE DEF r
<1>5. Fits(j, r, panes')
    BY <1>1 DEF Fits
<1>2. jobs' = [jobs EXCEPT ![j] = r]
    BY DEF r
<1>3. SameBars(panes, panes')
    BY DEF SameBars, Workspace!TypeOK, Workspace!Pane
<1>4. \A p \in DOMAIN panes' : panes'[p].window \in opened'
    BY DEF SidebarInv
<1> QED
    BY <1>1, <1>2, <1>3, <1>4, <1>5, JobMoves

\* Changes of a job that keep it a job.
LEMMA ToTag ==
    ASSUME NEW o \in Workspace!Job, NEW n \in Nat
    PROVE  LET r == [o EXCEPT !.at = "tag", !.pane = n]
           IN  /\ r \in Workspace!Job /\ r.at = "tag" /\ r.pane = n
               /\ r.window = o.window /\ r.todo = o.todo /\ r.listed = o.listed
BY DEF Workspace!Job

LEMMA ToStep ==
    ASSUME NEW o \in Workspace!Job, NEW step \in {"start", "hooks"}
    PROVE  LET r == [o EXCEPT !.at = step]
           IN  /\ r \in Workspace!Job /\ r.at = step /\ r.pane = o.pane
               /\ r.window = o.window /\ r.todo = o.todo /\ r.listed = o.listed
BY DEF Workspace!Job

LEMMA ToSplit ==
    ASSUME NEW o \in Workspace!Job, NEW w \in Windows
    PROVE  LET r == [o EXCEPT !.at = "split", !.window = w]
           IN  /\ r \in Workspace!Job /\ r.at = "split" /\ r.window = w
               /\ r.todo = o.todo /\ r.listed = o.listed
BY DEF Workspace!Job

LEMMA ToTodo ==
    ASSUME NEW o \in Workspace!Job, NEW T \in SUBSET Windows
    PROVE  LET r == [o EXCEPT !.todo = T]
           IN  /\ r \in Workspace!Job /\ r.at = o.at /\ r.window = o.window
               /\ r.todo = T /\ r.listed = o.listed
BY DEF Workspace!Job

LEMMA JobFields ==
    ASSUME Workspace!TypeOK, NEW j \in Jobs
    PROVE  /\ DOMAIN jobs = Jobs /\ jobs[j] \in Workspace!Job
           /\ jobs[j].pane \in Nat /\ jobs[j].todo \subseteq Windows /\ jobs[j].listed \subseteq Windows
           /\ jobs[j].window \in Windows \union {NoWindow}
BY DEF Workspace!TypeOK, Workspace!Job, Jobs

LEMMA SameOwnBars ==
    ASSUME Workspace!TypeOK, SidebarInv
    PROVE  SameBars(panes, panes) /\ \A p \in DOMAIN panes : panes[p].window \in opened
BY DEF SameBars, SidebarInv

\* Pane n of window v is tagged, or split off and tagged; job j has tried to
\* start its sidebar next.
LEMMA BarAppears ==
    ASSUME Workspace!TypeOK, SidebarInv,
           NEW j \in Jobs, NEW r \in Workspace!Job, jobs' = [jobs EXCEPT ![j] = r],
           NEW v \in Windows, NEW n \in DOMAIN panes', IsBar(panes', n, v), v \in opened,
           DOMAIN panes \subseteq DOMAIN panes', DOMAIN panes' \subseteq DOMAIN panes \union {n},
           \A p \in DOMAIN panes : panes'[p].window = panes[p].window,
           \A p \in DOMAIN panes \ {n} : panes'[p].tagged = panes[p].tagged,
           UNCHANGED <<opened, visited>>, contested \subseteq contested',
           v \notin contested' => /\ ~HasBar(panes, v)
                                  /\ \A i \in Jobs \ {j} : ~Entering(jobs, i, v),
           r.at = "start", r.window \in opened, Fits(j, r, panes'),
           r.window \in r.todo \/ r.todo = {},
           \A x \in r.listed : x \in r.todo \/ HasBar(panes', x)
    PROVE  SidebarInv' /\ jobs' \in [Jobs -> Workspace!Job]
<1>1. /\ jobs' \in [Jobs -> Workspace!Job] /\ DOMAIN jobs = Jobs /\ DOMAIN jobs' = Jobs
      /\ jobs'[j] = r /\ \A i \in Jobs \ {j} : jobs'[i] = jobs[i]
    BY JobFields DEF Workspace!TypeOK, Jobs
<1>2. panes'[n].window = v /\ panes'[n].tagged
    BY DEF IsBar
<1>3. ASSUME NEW x
      PROVE  /\ HasBar(panes, x) => HasBar(panes', x)
             /\ x # v => (HasBar(panes', x) => HasBar(panes, x))
    BY <1>2 DEF HasBar, IsBar
<1>4. \A p \in DOMAIN panes' : panes'[p].window \in opened'
    BY <1>2 DEF SidebarInv
<1>5. \A i \in DOMAIN jobs' : jobs'[i].at \in {"split", "tag", "start"} =>
                                 jobs'[i].window \in opened'
    BY <1>1 DEF SidebarInv
<1>6. OwnPane(jobs', panes')
    <2> SUFFICES ASSUME NEW i \in Jobs PROVE Fits(i, jobs'[i], panes')
        BY <1>1 DEF OwnPane
    <2>1. CASE i = j
        BY <1>1, <2>1
    <2>2. CASE i # j
        <3>1. \A p \in DOMAIN panes : panes[p].tagged => panes'[p].tagged
            BY <1>2
        <3> QED
            BY <1>1, <2>2, <3>1, FitsKept DEF SidebarInv, OwnPane
    <2> QED
        BY <2>1, <2>2
<1>7. Alone(jobs', panes', contested')
    <2> SUFFICES ASSUME NEW i \in Jobs, NEW x \in Windows \ contested', Entering(jobs', i, x)
                 PROVE  /\ ~HasBar(panes', x)
                        /\ \A k \in Jobs \ {i} : ~Entering(jobs', k, x)
        BY <1>1 DEF Alone
    <2>1. i # j /\ Entering(jobs, i, x)
        BY <1>1 DEF Entering
    <2>2. x # v
        BY <2>1
    <2>3. ~HasBar(panes, x) /\ \A k \in Jobs \ {i} : ~Entering(jobs, k, x)
        BY <1>1, <2>1 DEF SidebarInv, Alone
    <2>4. ~Entering(jobs', j, x)
        BY <1>1 DEF Entering
    <2>5. \A k \in Jobs \ {i} : ~Entering(jobs', k, x)
        BY <1>1, <2>3, <2>4 DEF Entering
    <2> QED
        BY <1>3, <2>2, <2>3, <2>5
<1>8. OneBar(panes', contested')
    <2> SUFFICES ASSUME NEW x \in Windows \ contested', NEW p \in DOMAIN panes',
                        NEW q \in DOMAIN panes', IsBar(panes', p, x), IsBar(panes', q, x)
                 PROVE  p = q
        BY DEF OneBar
    <2>1. CASE x = v
        BY <2>1 DEF HasBar, IsBar
    <2>2. CASE x # v
        BY <1>2, <2>2 DEF SidebarInv, OneBar, IsBar
    <2> QED
        BY <2>1, <2>2
<1>9. SeenTo(jobs', panes')
    <2> SUFFICES ASSUME NEW i \in Jobs
                 PROVE  /\ jobs'[i].at \in {"panes", "hooks"} => jobs'[i].todo = {}
                        /\ jobs'[i].at \in {"split", "tag", "start"} =>
                              jobs'[i].window \in jobs'[i].todo \/ jobs'[i].todo = {}
                        /\ jobs'[i].at # "end" => \A x \in jobs'[i].listed :
                              \/ x \in jobs'[i].todo \/ Entering(jobs', i, x)
                              \/ HasBar(panes', x)
        BY <1>1 DEF SeenTo
    <2>1. CASE i = j
        BY <1>1, <2>1
    <2>2. CASE i # j
        BY <1>1, <1>3, <2>2 DEF SidebarInv, SeenTo, Entering
    <2> QED
        BY <2>1, <2>2
<1>10. \A x \in visited' : HasBar(panes', x)
    BY <1>3 DEF SidebarInv
<1> QED
    BY <1>1, <1>4, <1>5, <1>6, <1>7, <1>8, <1>9, <1>10 DEF SidebarInv

\* A pane that is tagged stays a pane.
LEMMA PaneTagged ==
    ASSUME Workspace!TypeOK, NEW n \in DOMAIN panes,
           panes' = [panes EXCEPT ![n].tagged = TRUE]
    PROVE  /\ panes' \in Seq(Workspace!Pane) /\ DOMAIN panes' = DOMAIN panes
           /\ IsBar(panes', n, panes[n].window) /\ panes[n].window \in Windows
           /\ \A p \in DOMAIN panes : panes'[p].window = panes[p].window
           /\ \A p \in DOMAIN panes \ {n} : panes'[p].tagged = panes[p].tagged
<1>1. panes \in Seq(Workspace!Pane) /\ panes[n] \in Workspace!Pane
    BY DEF Workspace!TypeOK
<1> DEFINE new == [panes[n] EXCEPT !.tagged = TRUE]
<1>2. new \in Workspace!Pane /\ new.window = panes[n].window /\ new.tagged
    BY <1>1 DEF Workspace!Pane
<1>3. panes' = [panes EXCEPT ![n] = new]
    OBVIOUS
<1>4. panes[n].window \in Windows
    BY <1>1 DEF Workspace!Pane
<1> HIDE DEF new
<1>5. /\ panes' \in Seq(Workspace!Pane) /\ DOMAIN panes' = DOMAIN panes
      /\ \A p \in DOMAIN panes : p # n => panes'[p] = panes[p]
      /\ panes'[n].window = panes[n].window
    <2> SUFFICES ASSUME NEW ps \in Seq(Workspace!Pane), n \in DOMAIN ps
                 PROVE  LET qs == [ps EXCEPT ![n] = new]
                        IN  /\ qs \in Seq(Workspace!Pane) /\ DOMAIN qs = DOMAIN ps
                            /\ \A p \in DOMAIN ps : p # n => qs[p] = ps[p]
                            /\ qs[n] = new
        BY <1>1, <1>2, <1>3
    <2> QED
        BY <1>2
<1>6. panes'[n].tagged /\ \A p \in DOMAIN panes \ {n} : panes'[p].tagged = panes[p].tagged
    BY <1>1, <1>2, <1>3
<1> QED
    BY <1>4, <1>5, <1>6 DEF IsBar

\* A pane that is split off in window w.
LEMMA PaneAdded ==
    ASSUME Workspace!TypeOK, SidebarInv, NEW w \in windows, NEW tag \in BOOLEAN,
           panes' = Append(panes, [window |-> w, tagged |-> tag, runs |-> "shell"])
    PROVE  LET n == Len(panes) + 1
           IN  /\ panes' \in Seq(Workspace!Pane) /\ n \in Nat \ {0}
               /\ DOMAIN panes' = DOMAIN panes \union {n} /\ n \notin DOMAIN panes
               /\ panes'[n].window = w /\ panes'[n].tagged = tag
               /\ \A p \in DOMAIN panes : panes'[p] = panes[p]
               /\ w \in Windows /\ w \in opened
               /\ \A p \in DOMAIN panes' : panes'[p].window \in opened
<1> DEFINE new == [window |-> w, tagged |-> tag, runs |-> "shell"]
<1>1. w \in opened /\ w \in Windows /\ panes \in Seq(Workspace!Pane)
    BY DEF Workspace!TypeOK
<1>2. new \in Workspace!Pane /\ new.window = w /\ new.tagged = tag
    BY <1>1 DEF Workspace!Pane
<1>3. panes' = Append(panes, new)
    OBVIOUS
<1> HIDE DEF new
<1>4. /\ panes' \in Seq(Workspace!Pane) /\ Len(panes) \in Nat
      /\ DOMAIN panes = 1..Len(panes) /\ DOMAIN panes' = 1..(Len(panes) + 1)
      /\ panes'[Len(panes) + 1] = new
      /\ \A p \in DOMAIN panes : panes'[p] = panes[p]
    BY <1>1, <1>2, <1>3
<1>5. DOMAIN panes' = DOMAIN panes \union {Len(panes) + 1} /\ Len(panes) + 1 \notin DOMAIN panes
    BY <1>4
<1>6. \A p \in DOMAIN panes' : panes'[p].window \in opened
    BY <1>1, <1>2, <1>4, <1>5 DEF SidebarInv
<1> QED
    BY <1>1, <1>2, <1>4, <1>5, <1>6

LEMMA SplitStep ==
    ASSUME WorkspaceInv, NEW j \in Commands, Workspace!Split(j)
    PROVE  WorkspaceInv'
<1> USE DEF WorkspaceInv
<1>1. /\ jobs[j].at = "split" /\ j \in Jobs
      /\ UNCHANGED <<session, hook, windows, opened, contested, visited>>
    BY DEF Workspace!Split, Workspace!At, Jobs
<1>2. CASE jobs[j].window \in windows
    <2> DEFINE w == jobs[j].window
               n == Len(panes) + 1
               r == [jobs[j] EXCEPT !.at = "tag", !.pane = n]
    <2>1. /\ panes' = Append(panes, [window |-> w, tagged |-> FALSE, runs |-> "shell"])
          /\ jobs' = [jobs EXCEPT ![j] = r]
        BY <1>2 DEF Workspace!Split
    <2>2. /\ panes' \in Seq(Workspace!Pane) /\ n \in Nat \ {0}
          /\ DOMAIN panes' = DOMAIN panes \union {n} /\ n \notin DOMAIN panes
          /\ panes'[n].window = w /\ ~panes'[n].tagged
          /\ \A p \in DOMAIN panes : panes'[p] = panes[p]
          /\ w \in Windows /\ w \in opened
          /\ \A p \in DOMAIN panes' : panes'[p].window \in opened
        BY <1>2, <2>1, PaneAdded
    <2> HIDE DEF n
    <2>3. /\ r \in Workspace!Job /\ r.at = "tag" /\ r.window = w /\ r.pane = n
          /\ r.todo = jobs[j].todo /\ r.listed = jobs[j].listed
        <3>1. jobs[j] \in Workspace!Job /\ n \in Nat
            BY <1>1, <2>2, JobFields
        <3> QED
            BY <3>1, ToTag
    <2> HIDE DEF r
    <2>4. SameBars(panes, panes')
        BY <2>2 DEF SameBars
    <2>5. Fits(j, r, panes')
        BY <2>2, <2>3, EnvironmentAssumption DEF Fits
    <2>6. w \notin contested => /\ ~HasBar(panes, w)
                                /\ \A i \in Jobs \ {j} : ~Entering(jobs, i, w)
        BY <1>1, <2>2, JobFields DEF SidebarInv, Alone, Entering
    <2>7. /\ w \in r.todo \/ r.todo = {}
          /\ \A x \in r.listed : x \in r.todo \/ w = x \/ HasBar(panes, x)
        BY <1>1, <2>3, JobFields DEF SidebarInv, SeenTo, Entering
    <2>8. \A x : HasBar(panes', x) <=> HasBar(panes, x)
        BY <2>4, SameBarsAre
    <2>9. SidebarInv' /\ jobs' \in [Jobs -> Workspace!Job]
        BY <1>1, <2>1, <2>2, <2>3, <2>4, <2>5, <2>6, <2>7, <2>8, JobMoves DEF SidebarInv
    <2> QED
        BY <1>1, <2>2, <2>9 DEF Workspace!TypeOK, Jobs
<1>3. CASE jobs[j].window \notin windows
    <2>1. jobs' = [jobs EXCEPT ![j] = Workspace!Start("end")] /\ UNCHANGED panes
        BY <1>3 DEF Workspace!Split
    <2> QED
        BY <1>1, <2>1, JobEnds DEF SidebarInv, Workspace!TypeOK, Jobs
<1> QED
    BY <1>2, <1>3

LEMMA TagStep ==
    ASSUME WorkspaceInv, NEW j \in Commands, Workspace!Tag(j)
    PROVE  WorkspaceInv'
<1> USE DEF WorkspaceInv
<1>1. /\ jobs[j].at = "tag" /\ j \in Jobs
      /\ UNCHANGED <<session, hook, windows, opened, contested, visited>>
    BY DEF Workspace!Tag, Workspace!At, Jobs
<1>2. CASE jobs[j].window \in windows
    <2> DEFINE w == jobs[j].window
               n == jobs[j].pane
               r == [jobs[j] EXCEPT !.at = "start"]
    <2>1. panes' = [panes EXCEPT ![n].tagged = TRUE] /\ jobs' = [jobs EXCEPT ![j] = r]
        BY <1>2 DEF Workspace!Tag, Workspace!Goto
    <2>2. w \in opened /\ w \in Windows /\ n \in DOMAIN panes /\ panes[n].window = w
        BY <1>1, <1>2, JobFields DEF Workspace!TypeOK, SidebarInv, OwnPane, Fits
    <2>3. /\ panes' \in Seq(Workspace!Pane) /\ DOMAIN panes' = DOMAIN panes
          /\ IsBar(panes', n, w)
          /\ \A p \in DOMAIN panes : panes'[p].window = panes[p].window
          /\ \A p \in DOMAIN panes \ {n} : panes'[p].tagged = panes[p].tagged
        BY <2>1, <2>2, PaneTagged
    <2>4. /\ r \in Workspace!Job /\ r.at = "start" /\ r.window = w /\ r.pane = n
          /\ r.todo = jobs[j].todo /\ r.listed = jobs[j].listed
        <3>1. jobs[j] \in Workspace!Job
            BY <1>1, JobFields
        <3> QED
            BY <3>1, ToStep
    <2> HIDE DEF r
    <2>5. w \notin contested => /\ ~HasBar(panes, w)
                                /\ \A i \in Jobs \ {j} : ~Entering(jobs, i, w)
        BY <1>1, <2>2, JobFields DEF SidebarInv, Alone, Entering
    <2>6. Fits(j, r, panes')
        BY <2>2, <2>3, <2>4, EnvironmentAssumption DEF Fits, IsBar
    <2>7. /\ w \in r.todo \/ r.todo = {}
          /\ \A x \in r.listed : x \in r.todo \/ HasBar(panes', x)
        <3>1. HasBar(panes', w) /\ \A x : HasBar(panes, x) => HasBar(panes', x)
            BY <2>2, <2>3 DEF HasBar, IsBar
        <3> QED
            BY <1>1, <2>4, <3>1, JobFields DEF SidebarInv, SeenTo, Entering
    <2>8. SidebarInv' /\ jobs' \in [Jobs -> Workspace!Job]
        BY <1>1, <2>1, <2>2, <2>3, <2>4, <2>5, <2>6, <2>7, BarAppears
    <2> QED
        BY <1>1, <2>3, <2>8 DEF Workspace!TypeOK, Jobs
<1>3. CASE jobs[j].window \notin windows
    <2>1. jobs' = [jobs EXCEPT ![j] = Workspace!Start("end")] /\ UNCHANGED panes
        BY <1>3 DEF Workspace!Tag
    <2> QED
        BY <1>1, <2>1, JobEnds DEF SidebarInv, Workspace!TypeOK, Jobs
<1> QED
    BY <1>2, <1>3

\* What a program in a pane is decides nothing.
LEMMA RunsOnly ==
    ASSUME Workspace!TypeOK, SidebarInv, NEW n \in DOMAIN panes, NEW program \in {"shell", "atm"},
           panes' = [panes EXCEPT ![n].runs = program]
    PROVE  /\ panes' \in Seq(Workspace!Pane) /\ SameBars(panes, panes')
           /\ \A p \in DOMAIN panes' : panes'[p].window \in opened
           /\ \A x : HasBar(panes', x) <=> HasBar(panes, x)
<1> DEFINE new == [panes[n] EXCEPT !.runs = program]
<1>1. panes \in Seq(Workspace!Pane) /\ panes[n] \in Workspace!Pane
    BY DEF Workspace!TypeOK
<1>2. new \in Workspace!Pane /\ new.window = panes[n].window /\ new.tagged = panes[n].tagged
    BY <1>1 DEF Workspace!Pane
<1>3. panes' = [panes EXCEPT ![n] = new]
    OBVIOUS
<1> HIDE DEF new
<1>4. /\ panes' \in Seq(Workspace!Pane) /\ DOMAIN panes' = DOMAIN panes
      /\ \A p \in DOMAIN panes : /\ panes'[p].window = panes[p].window
                                 /\ panes'[p].tagged = panes[p].tagged
    BY <1>1, <1>2, <1>3
<1>5. SameBars(panes, panes')
    BY <1>4 DEF SameBars
<1>6. \A p \in DOMAIN panes' : panes'[p].window \in opened
    BY <1>4 DEF SidebarInv
<1>7. ASSUME NEW x
      PROVE  HasBar(panes', x) <=> HasBar(panes, x)
    BY <1>4 DEF HasBar, IsBar
<1> QED
    BY <1>4, <1>5, <1>6, <1>7

LEMMA StartAtmStep ==
    ASSUME WorkspaceInv, NEW j \in Commands, Workspace!StartAtm(j)
    PROVE  WorkspaceInv'
<1> USE DEF WorkspaceInv
<1>1. /\ jobs[j].at = "start" /\ j \in Jobs
      /\ UNCHANGED <<session, hook, windows, opened, contested, visited>>
    BY DEF Workspace!StartAtm, Workspace!At, Jobs
<1>2. CASE jobs[j].window \in windows
    <2> DEFINE w == jobs[j].window
               n == jobs[j].pane
               r == Workspace!AfterSidebar(j)
    <2>1. panes' = [panes EXCEPT ![n].runs = "atm"]
        BY <1>2 DEF Workspace!StartAtm
    <2>2. jobs' = [jobs EXCEPT ![j] = r]
        BY <1>2 DEF Workspace!StartAtm
    <2>3. w \in opened /\ n \in DOMAIN panes /\ panes[n].window = w /\ panes[n].tagged
        BY <1>1, JobFields DEF SidebarInv, OwnPane, Fits
    <2>4. /\ panes' \in Seq(Workspace!Pane) /\ SameBars(panes, panes')
          /\ \A p \in DOMAIN panes' : panes'[p].window \in opened'
          /\ \A x : HasBar(panes', x) <=> HasBar(panes, x)
        BY <1>1, <2>1, <2>3, RunsOnly
    <2>5. HasBar(panes, w)
        BY <2>3 DEF HasBar, IsBar
    <2>6. /\ w \in jobs[j].todo \/ jobs[j].todo = {}
          /\ \A x \in jobs[j].listed : x \in jobs[j].todo \/ HasBar(panes, x)
        BY <1>1, JobFields DEF SidebarInv, SeenTo, Entering
    <2>7. /\ r \in Workspace!Job /\ r.at \in {"next", "panes"}
          /\ r.at = "panes" => r.todo = {}
          /\ \A x \in r.listed : x \in r.todo \/ HasBar(panes, x)
        <3> DEFINE step == IF w \in jobs[j].todo THEN "next" ELSE "panes"
                   o == jobs[j]
                   on == [o EXCEPT !.at = step, !.todo = @ \ {w}, !.window = NoWindow]
        <3>1. o \in Workspace!Job /\ step \in {"next", "panes"}
            BY <1>1, JobFields
        <3>2. /\ on \in Workspace!Job /\ on.at = step
              /\ on.todo = o.todo \ {w} /\ on.listed = o.listed
            <4> HIDE DEF step, o, w
            <4> QED
                BY <3>1 DEF Workspace!Job
        <3>3. r = on
            BY DEF Workspace!AfterSidebar
        <3>4. step = "panes" => jobs[j].todo \ {w} = {}
            BY <2>6
        <3>5. \A x \in jobs[j].listed : x \in jobs[j].todo \ {w} \/ HasBar(panes, x)
            BY <2>5, <2>6
        <3> HIDE DEF r, on, step
        <3> QED
            BY <3>1, <3>2, <3>3, <3>4, <3>5
    <2> HIDE DEF r
    <2>8. Fits(j, r, panes')
        BY <2>7, EnvironmentAssumption DEF Fits
    <2>9. SidebarInv' /\ jobs' \in [Jobs -> Workspace!Job]
        BY <1>1, <2>2, <2>4, <2>7, <2>8, JobMoves DEF SidebarInv
    <2> QED
        BY <1>1, <2>4, <2>9 DEF Workspace!TypeOK, Jobs
<1>3. CASE jobs[j].window \notin windows
    <2>1. jobs' = [jobs EXCEPT ![j] = Workspace!Start("end")] /\ UNCHANGED panes
        BY <1>3 DEF Workspace!StartAtm
    <2> QED
        BY <1>1, <2>1, JobEnds DEF SidebarInv, Workspace!TypeOK, Jobs
<1> QED
    BY <1>2, <1>3

\* A job ends or begins, and no sidebar changes.
LEMMA RestartStep ==
    ASSUME WorkspaceInv, NEW j \in Jobs, NEW step \in {"end", "new", "check"},
           jobs' = [jobs EXCEPT ![j] = Workspace!Start(step)],
           UNCHANGED <<session, hook, windows, opened, panes, contested, visited>>
    PROVE  WorkspaceInv'
BY JobEnds DEF WorkspaceInv, Workspace!TypeOK, SidebarInv, Jobs

LEMMA HookSplitStep ==
    ASSUME WorkspaceInv, NEW j \in Windows, Workspace!HookSplit(j)
    PROVE  WorkspaceInv'
<1> USE DEF WorkspaceInv
<1>1. /\ jobs[j].at = "split" /\ j \in Jobs
      /\ UNCHANGED <<session, hook, windows, opened, visited>>
    BY DEF Workspace!HookSplit, Workspace!At, Jobs
<1>2. /\ jobs[j].window = j /\ jobs[j].pane = 0 /\ jobs[j].todo = {} /\ jobs[j].listed = {}
      /\ jobs[j] \in Workspace!Job /\ j \in opened
    BY <1>1, JobFields DEF SidebarInv, OwnPane, Fits
<1>3. j \notin contested => /\ ~HasBar(panes, j)
                            /\ \A i \in Jobs \ {j} : ~Entering(jobs, i, j)
    BY <1>1, <1>2, JobFields DEF SidebarInv, Alone, Entering
<1>4. ASSUME NEW v \in windows,
             panes' = Append(panes, [window |-> v, tagged |-> FALSE, runs |-> "shell"]),
             jobs' = [jobs EXCEPT ![j] = [@ EXCEPT !.at = "tag", !.window = v,
                                                  !.pane = Len(panes) + 1]],
             contested' = Workspace!Strayed(j, v)
      PROVE  WorkspaceInv'
    <2> DEFINE n == Len(panes) + 1
               r == [jobs[j] EXCEPT !.at = "tag", !.window = v, !.pane = n]
    <2>1. jobs' = [jobs EXCEPT ![j] = r]
        BY <1>4
    <2>2. /\ panes' \in Seq(Workspace!Pane) /\ n \in Nat \ {0}
          /\ DOMAIN panes' = DOMAIN panes \union {n} /\ n \notin DOMAIN panes
          /\ panes'[n].window = v /\ ~panes'[n].tagged
          /\ \A p \in DOMAIN panes : panes'[p] = panes[p]
          /\ v \in Windows /\ v \in opened
          /\ \A p \in DOMAIN panes' : panes'[p].window \in opened
        BY <1>4, PaneAdded
    <2> HIDE DEF n
    <2>3. /\ r \in Workspace!Job /\ r.at = "tag" /\ r.window = v /\ r.pane = n
          /\ r.todo = {} /\ r.listed = {}
        BY <1>2, <2>2 DEF Workspace!Job
    <2> HIDE DEF r
    <2>4. SameBars(panes, panes') /\ Fits(j, r, panes')
        BY <2>2, <2>3, EnvironmentAssumption DEF SameBars, Fits
    <2>5. /\ contested \subseteq contested' /\ contested' \subseteq opened
          /\ v \notin contested' => v = j /\ v \notin contested
        BY <1>4, <2>2 DEF Workspace!Strayed, Workspace!TypeOK
    <2>6. \A x : HasBar(panes', x) <=> HasBar(panes, x)
        BY <2>4, SameBarsAre
    <2>7. SidebarInv' /\ jobs' \in [Jobs -> Workspace!Job]
        BY <1>1, <1>3, <2>1, <2>2, <2>3, <2>4, <2>5, <2>6, JobMoves DEF SidebarInv
    <2> QED
        BY <1>1, <2>2, <2>5, <2>7 DEF Workspace!TypeOK, Jobs
<1>5. CASE jobs' = [jobs EXCEPT ![j] = Workspace!Start("end")] /\ UNCHANGED <<panes, contested>>
    BY <1>1, <1>5, RestartStep
<1>6. CASE Workspace!Goto(j, "tag") /\ UNCHANGED <<panes, contested>>
    <2> DEFINE r == [jobs[j] EXCEPT !.at = "tag"]
    <2>1. jobs' = [jobs EXCEPT ![j] = r]
        BY <1>6 DEF Workspace!Goto
    <2>2. /\ r \in Workspace!Job /\ r.at = "tag" /\ r.window = j /\ r.pane = 0
          /\ r.todo = {} /\ r.listed = {}
        BY <1>2 DEF Workspace!Job
    <2> HIDE DEF r
    <2>3. Fits(j, r, panes')
        BY <2>2, EnvironmentAssumption DEF Fits
    <2>4. SameBars(panes, panes') /\ \A p \in DOMAIN panes' : panes'[p].window \in opened'
        BY <1>1, <1>6, SameOwnBars
    <2>5. SidebarInv' /\ jobs' \in [Jobs -> Workspace!Job]
        BY <1>1, <1>2, <1>3, <1>6, <2>1, <2>2, <2>3, <2>4, JobMoves DEF SidebarInv
    <2> QED
        BY <1>1, <1>6, <2>5 DEF Workspace!TypeOK, Jobs
<1> QED
    BY <1>4, <1>5, <1>6 DEF Workspace!HookSplit

LEMMA HookTagStep ==
    ASSUME WorkspaceInv, NEW j \in Windows, Workspace!HookTag(j)
    PROVE  WorkspaceInv'
<1> USE DEF WorkspaceInv
<1> DEFINE r == [jobs[j] EXCEPT !.at = "start"]
<1>1. /\ jobs[j].at = "tag" /\ j \in Jobs /\ jobs' = [jobs EXCEPT ![j] = r]
      /\ UNCHANGED <<session, hook, windows, opened, visited>>
    BY DEF Workspace!HookTag, Workspace!At, Workspace!Goto, Jobs
<1>2. /\ jobs[j].todo = {} /\ jobs[j].listed = {} /\ jobs[j] \in Workspace!Job
      /\ jobs[j].window \in opened /\ jobs[j].window \in Windows
      /\ jobs[j].pane = 0 => jobs[j].window = j
      /\ jobs[j].pane # 0 => /\ jobs[j].pane \in DOMAIN panes
                             /\ panes[jobs[j].pane].window = jobs[j].window
    BY <1>1, JobFields DEF SidebarInv, OwnPane, Fits, Workspace!TypeOK
<1>3. /\ r \in Workspace!Job /\ r.at = "start" /\ r.window = jobs[j].window
      /\ r.pane = jobs[j].pane /\ r.todo = {} /\ r.listed = {}
    BY <1>2, ToStep
<1> HIDE DEF r
<1>4. jobs[j].window \notin contested =>
         /\ ~HasBar(panes, jobs[j].window)
         /\ \A i \in Jobs \ {j} : ~Entering(jobs, i, jobs[j].window)
    BY <1>1, <1>2, JobFields DEF SidebarInv, Alone, Entering
<1>5. ASSUME NEW qs, DOMAIN panes \subseteq DOMAIN qs,
             \A p \in DOMAIN panes : qs[p].window = panes[p].window
      PROVE  Fits(j, r, qs)
    BY <1>2, <1>3, <1>5, EnvironmentAssumption DEF Fits
<1>6. ASSUME NEW n \in DOMAIN panes, panes[n].window \in windows, jobs[j].pane \in {0, n},
             panes' = [panes EXCEPT ![n].tagged = TRUE],
             contested' = Workspace!Strayed(j, panes[n].window)
      PROVE  WorkspaceInv'
    <2> DEFINE v == panes[n].window
    <2>1. /\ panes' \in Seq(Workspace!Pane) /\ DOMAIN panes' = DOMAIN panes
          /\ IsBar(panes', n, v) /\ v \in Windows
          /\ \A p \in DOMAIN panes : panes'[p].window = panes[p].window
          /\ \A p \in DOMAIN panes \ {n} : panes'[p].tagged = panes[p].tagged
        BY <1>6, PaneTagged
    <2>2. v \in opened
        BY DEF SidebarInv
    <2> HIDE DEF v
    <2>3. /\ contested \subseteq contested' /\ contested' \subseteq opened
          /\ v \notin contested' => v = j /\ v \notin contested
        BY <1>6, <2>2 DEF Workspace!Strayed, Workspace!TypeOK, v
    <2>4. v \notin contested' => v = jobs[j].window
        BY <1>2, <1>6, <2>3 DEF v
    <2>5. Fits(j, r, panes')
        BY <1>5, <2>1
    <2>6. SidebarInv' /\ jobs' \in [Jobs -> Workspace!Job]
        BY <1>1, <1>2, <1>3, <1>4, <2>1, <2>2, <2>3, <2>4, <2>5, BarAppears
    <2> QED
        BY <1>1, <2>1, <2>3, <2>6 DEF Workspace!TypeOK, Jobs
<1>7. ASSUME NEW v \in windows, jobs[j].pane = 0,
             panes' = Append(panes, [window |-> v, tagged |-> TRUE, runs |-> "shell"]),
             contested' = Workspace!Strayed(j, v)
      PROVE  WorkspaceInv'
    <2> DEFINE n == Len(panes) + 1
    <2>1. /\ panes' \in Seq(Workspace!Pane)
          /\ DOMAIN panes' = DOMAIN panes \union {n} /\ n \notin DOMAIN panes
          /\ panes'[n].window = v /\ panes'[n].tagged
          /\ \A p \in DOMAIN panes : panes'[p] = panes[p]
          /\ v \in Windows /\ v \in opened
        BY <1>7, PaneAdded
    <2> HIDE DEF n
    <2>2. n \in DOMAIN panes' /\ IsBar(panes', n, v)
        BY <2>1 DEF IsBar
    <2>3. /\ contested \subseteq contested' /\ contested' \subseteq opened
          /\ v \notin contested' => v = jobs[j].window /\ v \notin contested
        BY <1>2, <1>7, <2>1 DEF Workspace!Strayed, Workspace!TypeOK
    <2>4. Fits(j, r, panes')
        BY <1>5, <2>1
    <2>5. SidebarInv' /\ jobs' \in [Jobs -> Workspace!Job]
        BY <1>1, <1>2, <1>3, <1>4, <2>1, <2>2, <2>3, <2>4, BarAppears
    <2> QED
        BY <1>1, <2>1, <2>3, <2>5 DEF Workspace!TypeOK, Jobs
<1>8. CASE UNCHANGED <<panes, contested>>
    <2>1. SameBars(panes, panes') /\ \A p \in DOMAIN panes' : panes'[p].window \in opened'
        BY <1>1, <1>8, SameOwnBars
    <2>2. Fits(j, r, panes')
        BY <1>5, <1>8
    <2>3. SidebarInv' /\ jobs' \in [Jobs -> Workspace!Job]
        BY <1>1, <1>2, <1>3, <1>8, <2>1, <2>2, JobMoves DEF SidebarInv
    <2> QED
        BY <1>1, <1>8, <2>3 DEF Workspace!TypeOK, Jobs
<1> QED
    BY <1>6, <1>7, <1>8 DEF Workspace!HookTag

LEMMA HookStartStep ==
    ASSUME WorkspaceInv, NEW j \in Windows, Workspace!HookStart(j)
    PROVE  WorkspaceInv'
<1> USE DEF WorkspaceInv
<1>1. /\ j \in Jobs /\ jobs' = [jobs EXCEPT ![j] = Workspace!Start("end")]
      /\ UNCHANGED <<session, hook, windows, opened, contested, visited>>
    BY DEF Workspace!HookStart, Jobs
<1>2. ASSUME NEW n \in DOMAIN panes, panes' = [panes EXCEPT ![n].runs = "atm"]
      PROVE  WorkspaceInv'
    <2> DEFINE r == Workspace!Start("end")
    <2>1. r \in Workspace!Job /\ r.at = "end" /\ r.todo = {} /\ r.listed = {}
        BY DEF Workspace!Start, Workspace!Job
    <2>2. jobs' = [jobs EXCEPT ![j] = r]
        BY <1>1
    <2> HIDE DEF r
    <2>3. /\ panes' \in Seq(Workspace!Pane) /\ SameBars(panes, panes')
          /\ \A p \in DOMAIN panes' : panes'[p].window \in opened'
          /\ \A x : HasBar(panes', x) <=> HasBar(panes, x)
        BY <1>1, <1>2, RunsOnly
    <2>4. Fits(j, r, panes')
        BY <2>1 DEF Fits
    <2>5. SidebarInv' /\ jobs' \in [Jobs -> Workspace!Job]
        BY <1>1, <2>1, <2>2, <2>3, <2>4, JobMoves DEF SidebarInv
    <2> QED
        BY <1>1, <2>3, <2>5 DEF Workspace!TypeOK, Jobs
<1>3. CASE UNCHANGED panes
    BY <1>1, <1>3, RestartStep
<1> QED
    BY <1>2, <1>3 DEF Workspace!HookStart

\* A command goes on to r without a step in tmux.
LEMMA QuietStep ==
    ASSUME WorkspaceInv, NEW j \in Commands, NEW r \in Workspace!Job,
           jobs' = [jobs EXCEPT ![j] = r],
           UNCHANGED <<session, hook, windows, opened, panes, visited>>,
           contested \subseteq contested', contested' \subseteq opened,
           r.at \in {"next", "split", "panes", "hooks"},
           r.at = "split" => r.window \in opened /\ r.window \in r.todo,
           r.at = "split" /\ r.window \notin contested' =>
              /\ ~HasBar(panes, r.window)
              /\ \A i \in Jobs \ {j} : ~Entering(jobs, i, r.window),
           r.at \in {"panes", "hooks"} => r.todo = {},
           \A x \in r.listed : x \in r.todo \/ HasBar(panes, x)
    PROVE  WorkspaceInv'
<1> USE DEF WorkspaceInv
<1>1. SameBars(panes, panes') /\ \A p \in DOMAIN panes' : panes'[p].window \in opened'
    BY SameOwnBars
<1>3. j \in Jobs /\ Fits(j, r, panes')
    BY EnvironmentAssumption DEF Jobs, Fits
<1>2. SidebarInv' /\ jobs' \in [Jobs -> Workspace!Job]
    BY <1>1, <1>3, JobMoves DEF SidebarInv
<1> QED
    BY <1>2 DEF Workspace!TypeOK, Jobs

LEMMA CreateStep ==
    ASSUME WorkspaceInv, NEW c \in Commands, Workspace!Create(c)
    PROVE  WorkspaceInv'
<1> USE DEF WorkspaceInv
<1>1. c \in Jobs /\ UNCHANGED <<hook, panes, visited>>
    BY DEF Jobs, Workspace!Create
<1>2. CASE session
    BY <1>1, <1>2, RestartStep DEF Workspace!Create
<1>3. CASE ~session
    <2>1. PICK w \in Windows \ opened :
             /\ session' = TRUE /\ windows' = {w} /\ opened' = opened \union {w}
             /\ jobs' = [jobs EXCEPT ![c] =
                            [Workspace!Start("split") EXCEPT !.window = w, !.listed = {w}]]
             /\ UNCHANGED contested
        BY <1>3 DEF Workspace!Create
    <2> DEFINE r == [Workspace!Start("split") EXCEPT !.window = w, !.listed = {w}]
    <2>2. /\ r \in Workspace!Job /\ r.at = "split" /\ r.window = w
          /\ r.todo = {} /\ r.listed = {w}
        BY DEF Workspace!Start, Workspace!Job
    <2>3. jobs' = [jobs EXCEPT ![c] = r]
        BY <2>1
    <2> HIDE DEF r
    <2>4. SameBars(panes, panes') /\ \A p \in DOMAIN panes' : panes'[p].window \in opened'
        BY <1>1, <2>1, SameOwnBars
    <2>5. ~HasBar(panes, w) /\ \A i \in Jobs : ~Entering(jobs, i, w)
        BY <2>1, JobFields DEF SidebarInv, HasBar, IsBar, Entering
    <2>7. Fits(c, r, panes')
        BY <2>2, EnvironmentAssumption DEF Fits
    <2>6. SidebarInv' /\ jobs' \in [Jobs -> Workspace!Job]
        <3>1. \A x \in r.listed : r.window = x /\ r.at \in {"split", "tag"}
            BY <2>2
        <3>2. opened \subseteq opened' /\ w \in opened' /\ contested' = contested
            BY <2>1
        <3> QED
            BY <1>1, <2>2, <2>3, <2>4, <2>5, <2>7, <3>1, <3>2, JobMoves DEF SidebarInv
    <2> QED
        BY <1>1, <2>1, <2>6 DEF Workspace!TypeOK, Jobs
<1> QED
    BY <1>2, <1>3

LEMMA AttachStep ==
    ASSUME WorkspaceInv, NEW c \in Commands, Workspace!Attach(c)
    PROVE  WorkspaceInv'
<1>1. c \in Jobs /\ UNCHANGED <<session, hook, windows, opened, panes, contested, visited>>
    BY DEF Jobs, Workspace!Attach
<1>2. CASE ~session
    BY <1>1, <1>2, RestartStep DEF Workspace!Attach
<1>3. CASE session
    <2> DEFINE r == [Workspace!Start("next") EXCEPT !.todo = windows, !.listed = windows]
    <2>1. jobs' = [jobs EXCEPT ![c] = r]
        BY <1>3 DEF Workspace!Attach
    <2>2. r \in Workspace!Job /\ r.at = "next" /\ r.todo = windows /\ r.listed = windows
        BY DEF Workspace!Start, Workspace!Job, WorkspaceInv, Workspace!TypeOK
    <2> HIDE DEF r
    <2> QED
        BY <1>1, <2>1, <2>2, QuietStep DEF WorkspaceInv, Workspace!TypeOK
<1> QED
    BY <1>2, <1>3

LEMMA NextWindowStep ==
    ASSUME WorkspaceInv, NEW c \in Commands, Workspace!NextWindow(c)
    PROVE  WorkspaceInv'
<1>1. /\ c \in Jobs /\ jobs[c].at = "next"
      /\ UNCHANGED <<session, hook, windows, opened, panes, visited>>
    BY DEF Jobs, Workspace!NextWindow, Workspace!At
<1>2. /\ jobs[c] \in Workspace!Job /\ jobs[c].todo \subseteq Windows
      /\ \A x \in jobs[c].listed : x \in jobs[c].todo \/ HasBar(panes, x)
      /\ contested \subseteq opened /\ windows \subseteq opened
    BY <1>1, JobFields DEF WorkspaceInv, SidebarInv, SeenTo, Entering, Workspace!TypeOK
<1>3. CASE jobs[c].todo = {} /\ Workspace!Goto(c, "hooks") /\ UNCHANGED contested
    <2> DEFINE r == [jobs[c] EXCEPT !.at = "hooks"]
    <2>1. jobs' = [jobs EXCEPT ![c] = r]
        BY <1>3 DEF Workspace!Goto
    <2>2. r \in Workspace!Job /\ r.at = "hooks" /\ r.todo = {} /\ r.listed = jobs[c].listed
        BY <1>2, <1>3, ToStep
    <2> HIDE DEF r
    <2> QED
        BY <1>1, <1>2, <1>3, <2>1, <2>2, QuietStep
<1>4. ASSUME NEW w \in jobs[c].todo, w \notin windows,
             jobs' = [jobs EXCEPT ![c] = Workspace!Start("end")], UNCHANGED contested
      PROVE  WorkspaceInv'
    BY <1>1, <1>4, RestartStep
<1>5. ASSUME NEW w \in jobs[c].todo, Workspace!HasSidebar(w),
             jobs' = [jobs EXCEPT ![c].todo = @ \ {w}], UNCHANGED contested
      PROVE  WorkspaceInv'
    <2> DEFINE T == jobs[c].todo \ {w}
               r == [jobs[c] EXCEPT !.todo = T]
    <2>1. jobs' = [jobs EXCEPT ![c] = r]
        BY <1>5
    <2>2. r \in Workspace!Job /\ r.at = "next" /\ r.todo = T /\ r.listed = jobs[c].listed
        <3>1. T \in SUBSET Windows
            BY <1>2
        <3> HIDE DEF T
        <3> QED
            BY <1>1, <1>2, <3>1, ToTodo
    <2>3. HasBar(panes, w)
        BY <1>5 DEF Workspace!HasSidebar, HasBar, IsBar
    <2>4. \A x \in r.listed : x \in r.todo \/ HasBar(panes, x)
        BY <1>2, <2>2, <2>3
    <2> HIDE DEF r, T
    <2> QED
        BY <1>1, <1>2, <1>5, <2>1, <2>2, <2>4, QuietStep
<1>6. ASSUME NEW w \in jobs[c].todo, w \in windows, ~Workspace!HasSidebar(w),
             Workspace!Enter(c, w)
      PROVE  WorkspaceInv'
    <2> DEFINE r == [jobs[c] EXCEPT !.at = "split", !.window = w]
    <2>1. /\ jobs' = [jobs EXCEPT ![c] = r]
          /\ contested' = IF \E i \in DOMAIN jobs \ {c} : Entering(jobs, i, w)
                          THEN contested \union {w} ELSE contested
        BY <1>6 DEF Workspace!Enter, Entering
    <2>2. /\ r \in Workspace!Job /\ r.at = "split" /\ r.window = w
          /\ r.todo = jobs[c].todo /\ r.listed = jobs[c].listed
        BY <1>2, <1>6, ToSplit
    <2>3. ~HasBar(panes, w)
        BY <1>6 DEF Workspace!HasSidebar, HasBar, IsBar
    <2>4. w \notin contested' => \A i \in Jobs \ {c} : ~Entering(jobs, i, w)
        BY <1>1, <2>1, JobFields DEF WorkspaceInv
    <2> HIDE DEF r
    <2> QED
        BY <1>1, <1>2, <1>6, <2>1, <2>2, <2>3, <2>4, QuietStep
<1> QED
    BY <1>3, <1>4, <1>5, <1>6 DEF Workspace!NextWindow

LEMMA CommandStep ==
    ASSUME WorkspaceInv, NEW c \in Commands,
           \/ Workspace!Begin(c, "new") \/ Workspace!Begin(c, "check")
           \/ Workspace!OtherPanes(c) \/ Workspace!InstallHooks(c)
    PROVE  WorkspaceInv'
<1>1. c \in Jobs
    BY DEF Jobs
<1>2. CASE Workspace!Begin(c, "new") \/ Workspace!Begin(c, "check")
    BY <1>1, <1>2, RestartStep DEF Workspace!Begin
<1>3. CASE Workspace!OtherPanes(c)
    <2>1. /\ jobs[c].at = "panes"
          /\ UNCHANGED <<session, hook, windows, opened, panes, contested, visited>>
        BY <1>3 DEF Workspace!OtherPanes, Workspace!At
    <2>2. CASE ~session
        BY <1>1, <1>3, <2>1, <2>2, RestartStep DEF Workspace!OtherPanes
    <2>3. CASE session
        <3> DEFINE r == [jobs[c] EXCEPT !.at = "hooks"]
        <3>1. jobs' = [jobs EXCEPT ![c] = r]
            BY <1>3, <2>3 DEF Workspace!OtherPanes
        <3>2. /\ jobs[c] \in Workspace!Job /\ jobs[c].todo = {}
              /\ \A x \in jobs[c].listed : HasBar(panes, x)
              /\ contested \subseteq opened
            BY <1>1, <2>1, JobFields
               DEF WorkspaceInv, SidebarInv, SeenTo, Entering, Workspace!TypeOK
        <3>3. /\ r \in Workspace!Job /\ r.at = "hooks" /\ r.todo = {}
              /\ r.listed = jobs[c].listed
            BY <3>2, ToStep
        <3> HIDE DEF r
        <3> QED
            BY <1>1, <2>1, <3>1, <3>2, <3>3, QuietStep
    <2> QED
        BY <2>2, <2>3
<1>4. CASE Workspace!InstallHooks(c)
    <2>1. /\ jobs[c].at = "hooks" /\ jobs' = [jobs EXCEPT ![c] = Workspace!Start("end")]
          /\ UNCHANGED <<session, windows, opened, panes, contested>>
          /\ hook' \in {hook, TRUE} /\ (hook' # hook => session)
          /\ visited' \in {visited, visited \union jobs[c].listed}
        BY <1>4 DEF Workspace!InstallHooks, Workspace!At
    <2>2. \A w \in jobs[c].listed : HasBar(panes, w)
        BY <1>1, <2>1, JobFields DEF WorkspaceInv, SidebarInv, SeenTo, Entering
    <2>3. \A w \in visited' : HasBar(panes, w)
        BY <2>1, <2>2 DEF WorkspaceInv, SidebarInv
    <2>4. jobs[c].listed \subseteq opened
        <3>1. \A w \in jobs[c].listed : w \in opened
            BY <2>2 DEF HasBar, IsBar, WorkspaceInv, SidebarInv
        <3> QED
            BY <3>1
    <2>5. SidebarInv' /\ jobs' \in [Jobs -> Workspace!Job]
        BY <1>1, <2>1, <2>3, JobEnds DEF WorkspaceInv
    <2> QED
        BY <2>1, <2>4, <2>5 DEF WorkspaceInv, Workspace!TypeOK, Jobs
<1> QED
    BY <1>2, <1>3, <1>4

LEMMA OpenWindowStep ==
    ASSUME WorkspaceInv, NEW w \in Windows, Workspace!OpenWindow(w)
    PROVE  WorkspaceInv'
<1> USE DEF WorkspaceInv
<1>1. /\ w \in Jobs /\ session /\ w \notin opened
      /\ windows' = windows \union {w} /\ opened' = opened \union {w}
      /\ UNCHANGED <<session, hook, panes, contested, visited>>
    BY DEF Jobs, Workspace!OpenWindow
<1>2. SameBars(panes, panes') /\ \A p \in DOMAIN panes' : panes'[p].window \in opened'
    BY <1>1, SameOwnBars
<1>3. CASE hook
    <2> DEFINE r == [Workspace!Start("split") EXCEPT !.window = w]
    <2>1. jobs' = [jobs EXCEPT ![w] = r]
        BY <1>3 DEF Workspace!OpenWindow
    <2>2. /\ r \in Workspace!Job /\ r.at = "split" /\ r.window = w /\ r.pane = 0
          /\ r.todo = {} /\ r.listed = {}
        BY DEF Workspace!Start, Workspace!Job
    <2> HIDE DEF r
    <2>5. Fits(w, r, panes')
        BY <2>2, EnvironmentAssumption DEF Fits
    <2>3. ~HasBar(panes, w) /\ \A i \in Jobs : ~Entering(jobs, i, w)
        BY <1>1, JobFields DEF SidebarInv, HasBar, IsBar, Entering
    <2>4. SidebarInv' /\ jobs' \in [Jobs -> Workspace!Job]
        <3>1. opened \subseteq opened' /\ w \in opened' /\ contested' = contested
            BY <1>1
        <3> QED
            BY <1>1, <1>2, <2>1, <2>2, <2>3, <2>5, <3>1, JobMoves DEF SidebarInv
    <2> QED
        BY <1>1, <2>4 DEF Workspace!TypeOK, Jobs
<1>4. CASE ~hook
    <2>1. UNCHANGED jobs
        BY <1>4 DEF Workspace!OpenWindow
    <2>2. SidebarInv'
        BY <1>1, <2>1 DEF SidebarInv, OwnPane, Alone, OneBar, SeenTo
    <2> QED
        BY <1>1, <2>1, <2>2 DEF Workspace!TypeOK
<1> QED
    BY <1>3, <1>4 DEF Workspace!TypeOK

LEMMA WorkspaceStep ==
    ASSUME WorkspaceInv, [Workspace!Next]_tmux
    PROVE  WorkspaceInv'
<1>1. CASE \E j \in DOMAIN jobs : Workspace!Abort(j)
    <2>1. PICK j \in Jobs : Workspace!Abort(j)
        BY <1>1 DEF WorkspaceInv, Workspace!TypeOK, Jobs
    <2> QED
        BY <2>1, RestartStep DEF Workspace!Abort
<1>2. CASE \E c \in Commands :
              \/ Workspace!Begin(c, "new") \/ Workspace!Begin(c, "check")
              \/ Workspace!Create(c) \/ Workspace!Attach(c) \/ Workspace!NextWindow(c)
              \/ Workspace!Split(c) \/ Workspace!Tag(c) \/ Workspace!StartAtm(c)
              \/ Workspace!OtherPanes(c) \/ Workspace!InstallHooks(c)
    BY <1>2, CommandStep, CreateStep, AttachStep, NextWindowStep, SplitStep, TagStep, StartAtmStep
<1>7. CASE \E w \in Windows :
              Workspace!HookSplit(w) \/ Workspace!HookTag(w) \/ Workspace!HookStart(w)
    BY <1>7, HookSplitStep, HookTagStep, HookStartStep
<1>3. CASE \E w \in Windows : Workspace!OpenWindow(w)
    BY <1>3, OpenWindowStep
<1>4. CASE \E w \in Windows : Workspace!CloseWindow(w)
    <2>1. PICK w \in Windows : Workspace!CloseWindow(w)
        BY <1>4
    <2>2. /\ session' = (windows' # {}) /\ windows' = windows \ {w}
          /\ hook' = (hook /\ session')
          /\ UNCHANGED <<opened, panes, jobs, contested, visited>>
        BY <2>1 DEF Workspace!CloseWindow
    <2> QED
        BY <2>2 DEF WorkspaceInv, SidebarInv, Workspace!TypeOK
<1>5. CASE \E p \in DOMAIN panes : Workspace!QuitAtm(p)
    <2>1. PICK n \in DOMAIN panes : panes' = [panes EXCEPT ![n].runs = "shell"]
        BY <1>5 DEF Workspace!QuitAtm
    <2>2. UNCHANGED <<session, hook, windows, opened, jobs, contested, visited>>
        BY <1>5 DEF Workspace!QuitAtm
    <2>3. /\ panes' \in Seq(Workspace!Pane) /\ SameBars(panes, panes')
          /\ \A p \in DOMAIN panes' : panes'[p].window \in opened
          /\ \A x : HasBar(panes', x) <=> HasBar(panes, x)
        BY <2>1, RunsOnly DEF WorkspaceInv
    <2>4. OneBar(panes', contested)
        BY <2>3, SameBarsAre DEF WorkspaceInv, SidebarInv, OneBar
    <2>5. OwnPane(jobs, panes')
        BY <2>3, FitsKept DEF WorkspaceInv, SidebarInv, OwnPane, SameBars
    <2> QED
        BY <2>2, <2>3, <2>4, <2>5
           DEF WorkspaceInv, SidebarInv, Workspace!TypeOK, Alone, SeenTo
<1>6. CASE UNCHANGED tmux
    BY <1>6 DEF tmux, WorkspaceInv, SidebarInv, Workspace!TypeOK
<1> QED
    BY <1>1, <1>2, <1>3, <1>4, <1>5, <1>6, <1>7 DEF Workspace!Next

LEMMA WorkspaceStarts == Workspace!Init => WorkspaceInv
<1> SUFFICES ASSUME Workspace!Init PROVE WorkspaceInv
    OBVIOUS
<1> USE DEF Workspace!Init
<1>1. jobs \in [Jobs -> Workspace!Job] /\ \A j \in Jobs : jobs[j] = Workspace!Start("end")
    BY DEF Workspace!Start, Workspace!Job, Jobs
<1>2. DOMAIN jobs = Jobs /\ DOMAIN panes = {}
    BY <1>1
<1>3. Workspace!TypeOK
    <2>1. panes \in Seq(Workspace!Pane)
        OBVIOUS
    <2>2. jobs \in [Commands \union Windows -> Workspace!Job]
        BY <1>1 DEF Jobs
    <2>3. /\ session = (windows # {}) /\ hook \in BOOLEAN /\ (hook => session)
          /\ windows \subseteq opened /\ opened \subseteq Windows
          /\ contested \subseteq opened /\ visited \subseteq opened
        OBVIOUS
    <2> HIDE DEF Workspace!Init
    <2> QED
        BY <2>1, <2>2, <2>3 DEF Workspace!TypeOK
<1>4. SidebarInv
    BY <1>1, <1>2, StartIs DEF SidebarInv, OwnPane, Fits, Alone, OneBar, SeenTo, Entering
<1> QED
    BY <1>3, <1>4 DEF WorkspaceInv

\* Workspace counts with its own copy of the library's operator.
LEMMA SameCardinality == \A S : Workspace!Cardinality(S) = Cardinality(S)
BY Zenon DEF Workspace!Cardinality, Cardinality

LEMMA WorkspaceShows ==
    ASSUME WorkspaceInv
    PROVE  Workspace!OneSidebar
<1>1. ASSUME NEW w \in windows
      PROVE  /\ w \notin contested => Cardinality(Workspace!Sidebars(w)) <= 1
             /\ w \in visited => Workspace!Sidebars(w) # {}
    <2>1. w \in Windows
        BY DEF WorkspaceInv, Workspace!TypeOK
    <2>2. Workspace!Sidebars(w) = {p \in DOMAIN panes : IsBar(panes, p, w)}
        BY DEF Workspace!Sidebars, IsBar
    <2>3. w \in visited => Workspace!Sidebars(w) # {}
        BY <2>2 DEF WorkspaceInv, SidebarInv, HasBar
    <2>4. CASE w \notin contested
        <3>1. \A p, q \in Workspace!Sidebars(w) : p = q
            BY <2>1, <2>2, <2>4 DEF WorkspaceInv, SidebarInv, OneBar
        <3>2. Workspace!Sidebars(w) = {} \/ \E p : Workspace!Sidebars(w) = {p}
            BY <3>1
        <3>3. Cardinality(Workspace!Sidebars(w)) \in {0, 1}
            BY <3>2, FS_EmptySet, FS_Singleton
        <3> QED
            BY <2>3, <3>3
    <2> QED
        BY <2>3, <2>4
<1> QED
    BY <1>1, SameCardinality, Zenon DEF Workspace!OneSidebar

LEMMA WorkspaceHolds == Spec => [](area = "workspace" => WorkspaceInv)
<1> DEFINE Inv == area = "workspace" => WorkspaceInv
<1>1. Init => Inv
    BY WorkspaceStarts DEF Init
<1>2. Inv /\ [Next]_vars => Inv'
    <2> SUFFICES ASSUME Inv, [Next]_vars, area' = "workspace" PROVE WorkspaceInv'
        OBVIOUS
    <2>1. area = "workspace" /\ [Workspace!Next]_tmux
        BY DEF Next, vars
    <2> QED
        BY <2>1, WorkspaceStep
<1> QED
    BY <1>1, <1>2, PTL DEF Spec

\* workspace: a window has one sidebar at most, unless two jobs were at it
\* together or the new-window script of another window acted in it, and one at
\* least if a command that succeeded listed it.
THEOREM OneSidebarEach == Spec => []OneSidebar
<1>1. (area = "workspace" => WorkspaceInv) => OneSidebar
    BY WorkspaceShows DEF OneSidebar
<1> QED
    BY <1>1, WorkspaceHolds, PTL

-----------------------------------------------------------------------------
(* Layout: slots *)

Places == DOMAIN layout
Kids(slot) == PaneLayout!Children(slot)
Directions == {PaneLayout!Horizontal, PaneLayout!Vertical}

\* The leaves of the subtree of a slot.
Under(slot) == {l \in PaneLayout!Leaves : Len(slot) <= Len(l) /\ SubSeq(l, 1, Len(slot)) = slot}

LEMMA CountsAgree ==
    /\ \A S : PaneLayout!Cardinality(S) = Cardinality(S)
    /\ \A S : PaneLayout!IsFiniteSet(S) <=> IsFiniteSet(S)
BY Zenon DEF PaneLayout!Cardinality, Cardinality, PaneLayout!IsFiniteSet, IsFiniteSet

LEMMA LayoutIs ==
    ASSUME layout \in PaneLayout!Layouts
    PROVE  /\ IsFiniteSet(Places) /\ Places \subseteq Seq(Nat) /\ <<>> \in Places
           /\ \A slot \in Places : \A depth \in 0..Len(slot) : SubSeq(slot, 1, depth) \in Places
           /\ \A slot \in Places :
                 /\ PaneLayout!Cardinality(Kids(slot)) \in Nat
                 /\ Kids(slot) = 1..PaneLayout!Cardinality(Kids(slot))
                 /\ layout[slot] \in IF Kids(slot) = {} THEN PaneLayout!Roles ELSE Directions
<1>1. PaneLayout!IsLayout(layout)
    BY EnvironmentAssumption
<1>2. /\ IsFiniteSet(Places) /\ Places \subseteq Seq(Nat) /\ <<>> \in Places
      /\ \A slot \in Places : \A depth \in 0..Len(slot) : SubSeq(slot, 1, depth) \in Places
      /\ \A slot \in Places :
            /\ Kids(slot) = 1..PaneLayout!Cardinality(Kids(slot))
            /\ layout[slot] \in IF Kids(slot) = {} THEN PaneLayout!Roles ELSE Directions
    BY <1>1, CountsAgree DEF PaneLayout!IsLayout, Places, Kids, PaneLayout!Children, Directions
<1>3. ASSUME NEW slot \in Places PROVE PaneLayout!Cardinality(Kids(slot)) \in Nat
    <2> DEFINE T == {t \in Places : Len(t) = Len(slot) + 1 /\ SubSeq(t, 1, Len(slot)) = slot}
    <2>1. IsFiniteSet(T)
        BY <1>2, FS_Subset
    <2>2. Kids(slot) = {t[Len(t)] : t \in T}
        BY DEF Kids, PaneLayout!Children, PaneLayout!ChildrenIn, Places
    <2> HIDE DEF T
    <2>3. IsFiniteSet(Kids(slot))
        <3> DEFINE last == [t \in T |-> t[Len(t)]]
        <3>1. last \in Surjection(T, Kids(slot))
            BY <2>2 DEF Surjection
        <3> HIDE DEF last
        <3> QED
            BY <2>1, <3>1, FS_Surjection
    <2> QED
        BY <2>3, CountsAgree, FS_CardinalityType
<1> QED
    BY <1>2, <1>3

LEMMA Extended ==
    ASSUME NEW s \in Seq(Nat), NEW i \in Nat
    PROVE  LET t == s \o <<i>>
           IN  /\ t \in Seq(Nat) /\ Len(t) = Len(s) + 1 /\ t[Len(s) + 1] = i
               /\ \A j \in 1..Len(s) : t[j] = s[j]
               /\ t # <<>> /\ PaneLayout!Parent(t) = s
<1> DEFINE e == <<i>>
           t == s \o e
<1>1. e \in Seq(Nat) /\ Len(e) = 1 /\ e[1] = i
    OBVIOUS
<1> HIDE DEF e
<1>2. /\ t \in Seq(Nat) /\ Len(t) = Len(s) + 1
      /\ \A j \in 1..(Len(s) + 1) : t[j] = IF j <= Len(s) THEN s[j] ELSE e[j - Len(s)]
    <2>1. /\ t \in Seq(Nat) /\ Len(t) = Len(s) + Len(e)
          /\ \A j \in 1..(Len(s) + Len(e)) : t[j] = IF j <= Len(s) THEN s[j] ELSE e[j - Len(s)]
        BY <1>1, ConcatProperties, Zenon
    <2> QED
        BY <1>1, <2>1
<1>3. Len(s) \in Nat
    OBVIOUS
<1> HIDE DEF t
<1>4. t[Len(s) + 1] = i /\ \A j \in 1..Len(s) : t[j] = s[j]
    <2>1. Len(s) + 1 \in 1..(Len(s) + 1) /\ ~(Len(s) + 1 <= Len(s)) /\ Len(s) + 1 - Len(s) = 1
        BY <1>3
    <2>2. t[Len(s) + 1] = i
        BY <1>1, <1>2, <2>1
    <2>3. \A j \in 1..Len(s) : j \in 1..(Len(s) + 1) /\ j <= Len(s)
        BY <1>3
    <2> QED
        BY <1>2, <2>2, <2>3
<1>5. t # <<>>
    BY <1>2, <1>3
<1>6. PaneLayout!Parent(t) = s
    <2>1. PaneLayout!Parent(t) = SubSeq(t, 1, Len(s))
        <3>1. Len(t) - 1 = Len(s)
            BY <1>2, <1>3
        <3> QED
            BY <3>1 DEF PaneLayout!Parent
    <2>2. 1 \in Int /\ Len(s) \in Int /\ \A j \in 1..Len(s) : t[j] \in Nat
        BY <1>3, <1>4
    <2>3. /\ SubSeq(t, 1, Len(s)) \in Seq(Nat)
          /\ Len(SubSeq(t, 1, Len(s))) = IF 1 <= Len(s) THEN Len(s) - 1 + 1 ELSE 0
          /\ \A j \in 1..(Len(s) - 1 + 1) : SubSeq(t, 1, Len(s))[j] = t[1 + j - 1]
        BY <2>2, SubSeqProperties
    <2>4. Len(SubSeq(t, 1, Len(s))) = Len(s)
        BY <1>3, <2>3
    <2>5. ASSUME NEW j \in 1..Len(s) PROVE SubSeq(t, 1, Len(s))[j] = s[j]
        <3>1. j \in 1..(Len(s) - 1 + 1) /\ 1 + j - 1 = j
            BY <1>3
        <3> QED
            BY <1>4, <2>3, <3>1
    <2>6. SubSeq(t, 1, Len(s)) = s
        BY <2>3, <2>4, <2>5, SeqEqual
    <2> QED
        BY <2>1, <2>6
<1> QED
    BY <1>2, <1>4, <1>5, <1>6 DEF t, e

\* The beginning of a sequence, element by element.
LEMMA Begins ==
    ASSUME NEW t \in Seq(Nat), NEW k \in 0..Len(t)
    PROVE  /\ SubSeq(t, 1, k) \in Seq(Nat) /\ Len(SubSeq(t, 1, k)) = k
           /\ \A j \in 1..k : SubSeq(t, 1, k)[j] = t[j]
<1>1. k \in Nat /\ Len(t) \in Nat /\ k <= Len(t)
    OBVIOUS
<1>2. 1 \in Int /\ k \in Int /\ \A j \in 1..k : t[j] \in Nat
    BY <1>1
<1>3. /\ SubSeq(t, 1, k) \in Seq(Nat)
      /\ Len(SubSeq(t, 1, k)) = IF 1 <= k THEN k - 1 + 1 ELSE 0
      /\ \A j \in 1..(k - 1 + 1) : SubSeq(t, 1, k)[j] = t[1 + j - 1]
    BY <1>2, SubSeqProperties
<1>4. ASSUME NEW j \in 1..k PROVE SubSeq(t, 1, k)[j] = t[j]
    <2>1. j \in 1..(k - 1 + 1) /\ 1 + j - 1 = j
        BY <1>1
    <2> QED
        BY <1>3, <2>1
<1> QED
    BY <1>1, <1>3, <1>4

\* What is below a slot is the slot itself or below one of its children.
LEMMA UnderIs ==
    ASSUME layout \in PaneLayout!Layouts, NEW s \in Places
    PROVE  /\ s \in PaneLayout!Leaves => Under(s) = {s}
           /\ \A i \in Kids(s) : /\ s \o <<i>> \in Places /\ i \in Nat
                                 /\ Under(s \o <<i>>) \subseteq Under(s)
           /\ s \notin PaneLayout!Leaves =>
                 \A l \in Under(s) : \E i \in Kids(s) : l \in Under(s \o <<i>>)
           /\ \A i, j \in Kids(s) : \A l :
                 l \in Under(s \o <<i>>) /\ l \in Under(s \o <<j>>) => i = j
<1>1. /\ Places \subseteq Seq(Nat) /\ s \in Seq(Nat) /\ Len(s) \in Nat
      /\ PaneLayout!Leaves = {l \in Places : Kids(l) = {}}
    BY LayoutIs DEF PaneLayout!Leaves, Places, Kids
<1>2. ASSUME NEW i \in Kids(s) PROVE s \o <<i>> \in Places /\ i \in Nat
    <2>1. PICK t \in Places : Len(t) = Len(s) + 1 /\ SubSeq(t, 1, Len(s)) = s /\ i = t[Len(t)]
        BY DEF Kids, PaneLayout!Children, PaneLayout!ChildrenIn, Places
    <2>2. t \in Seq(Nat) /\ i \in Nat /\ Len(s) \in 0..Len(t)
        BY <1>1, <2>1
    <2>3. \A j \in 1..Len(s) : t[j] = s[j]
        BY <2>1, <2>2, Begins
    <2> DEFINE u == s \o <<i>>
    <2>4. u \in Seq(Nat) /\ Len(u) = Len(s) + 1 /\ u[Len(s) + 1] = i /\ \A j \in 1..Len(s) : u[j] = s[j]
        BY <1>1, <2>2, Extended
    <2> HIDE DEF u
    <2>5. ASSUME NEW j \in 1..Len(t) PROVE t[j] = u[j]
        <3>1. j \in 1..Len(s) \/ j = Len(s) + 1
            BY <1>1, <2>1
        <3> QED
            BY <2>1, <2>3, <2>4, <3>1
    <2>6. t = u
        BY <2>1, <2>2, <2>4, <2>5, SeqEqual
    <2> QED
        BY <2>2, <2>6 DEF u
<1>3. ASSUME NEW l \in Under(s), l # s
      PROVE  \E i \in Kids(s) : l \in Under(s \o <<i>>)
    <2> DEFINE i == l[Len(s) + 1]
               t == SubSeq(l, 1, Len(s) + 1)
               u == s \o <<i>>
    <2>1. /\ l \in PaneLayout!Leaves /\ l \in Places /\ l \in Seq(Nat) /\ Len(l) \in Nat
          /\ Len(s) <= Len(l) /\ SubSeq(l, 1, Len(s)) = s
        BY <1>1 DEF Under
    <2>2. Len(s) < Len(l)
        <3>1. Len(s) # Len(l)
            BY <1>3, <2>1, SubSeqFull
        <3> QED
            BY <1>1, <2>1, <3>1
    <2>3. Len(s) + 1 \in 0..Len(l) /\ Len(s) + 1 \in 1..Len(l) /\ Len(s) \in 0..Len(l)
        BY <1>1, <2>1, <2>2
    <2>4. /\ t \in Seq(Nat) /\ Len(t) = Len(s) + 1 /\ \A j \in 1..(Len(s) + 1) : t[j] = l[j]
          /\ \A j \in 1..Len(s) : l[j] = s[j]
        BY <2>1, <2>3, Begins
    <2>5. t \in Places
        BY <2>1, <2>3, LayoutIs
    <2>6. i \in Nat
        BY <2>1, <2>3
    <2> HIDE DEF i, t
    <2>7. Len(s) \in 0..Len(t) /\ \A j \in 1..Len(s) : j \in 1..(Len(s) + 1)
        BY <1>1, <2>4
    <2>8. SubSeq(t, 1, Len(s)) = s
        <3>1. /\ SubSeq(t, 1, Len(s)) \in Seq(Nat) /\ Len(SubSeq(t, 1, Len(s))) = Len(s)
              /\ \A j \in 1..Len(s) : SubSeq(t, 1, Len(s))[j] = t[j]
            BY <2>4, <2>7, Begins
        <3>2. \A j \in 1..Len(s) : SubSeq(t, 1, Len(s))[j] = s[j]
            BY <2>4, <2>7, <3>1
        <3> QED
            BY <1>1, <3>1, <3>2, SeqEqual
    <2>9. t[Len(t)] = i
        <3>1. Len(s) + 1 \in 1..(Len(s) + 1)
            BY <1>1
        <3> QED
            BY <2>4, <3>1 DEF i
    <2>10. i \in Kids(s)
        BY <2>4, <2>5, <2>8, <2>9 DEF Kids, PaneLayout!Children, PaneLayout!ChildrenIn, Places
    <2>11. u \in Seq(Nat) /\ Len(u) = Len(s) + 1 /\ u[Len(s) + 1] = i /\ \A j \in 1..Len(s) : u[j] = s[j]
        BY <1>1, <2>6, Extended
    <2> HIDE DEF u
    <2>12. t = u
        <3>1. ASSUME NEW j \in 1..Len(t) PROVE t[j] = u[j]
            <4>1. j \in 1..Len(s) \/ j = Len(s) + 1
                BY <1>1, <2>4
            <4> QED
                BY <2>4, <2>7, <2>9, <2>11, <4>1
        <3> QED
            BY <2>4, <2>11, <3>1, SeqEqual
    <2>13. l \in Under(u)
        <3>1. Len(u) <= Len(l) /\ SubSeq(l, 1, Len(u)) = u
            BY <2>3, <2>11, <2>12 DEF t
        <3> QED
            BY <2>1, <3>1 DEF Under
    <2> QED
        BY <2>10, <2>13 DEF u
<1>4. ASSUME s \in PaneLayout!Leaves PROVE Under(s) = {s}
    <2>1. Kids(s) = {}
        BY <1>1, <1>4
    <2>2. \A l \in Under(s) : l = s
        BY <1>3, <2>1
    <2>3. s \in Under(s)
        BY <1>1, <1>4, SubSeqFull DEF Under
    <2> QED
        BY <2>2, <2>3
<1>5. ASSUME NEW i \in Kids(s), NEW l \in Under(s \o <<i>>)
      PROVE  l \in Under(s) /\ l[Len(s) + 1] = i
    <2> DEFINE u == s \o <<i>>
    <2>1. u \in Seq(Nat) /\ Len(u) = Len(s) + 1 /\ u[Len(s) + 1] = i /\ \A j \in 1..Len(s) : u[j] = s[j]
        BY <1>1, <1>2, Extended
    <2> HIDE DEF u
    <2>2. /\ l \in PaneLayout!Leaves /\ l \in Seq(Nat) /\ Len(u) <= Len(l) /\ SubSeq(l, 1, Len(u)) = u
        BY <1>1 DEF Under, u
    <2>3. Len(u) \in 0..Len(l) /\ Len(s) \in 0..Len(l) /\ Len(s) + 1 \in 1..Len(u)
          /\ \A j \in 1..Len(s) : j \in 1..Len(u)
        BY <1>1, <2>1, <2>2
    <2>4. \A j \in 1..Len(u) : l[j] = u[j]
        BY <2>2, <2>3, Begins
    <2>5. SubSeq(l, 1, Len(s)) = s
        <3>1. /\ SubSeq(l, 1, Len(s)) \in Seq(Nat) /\ Len(SubSeq(l, 1, Len(s))) = Len(s)
              /\ \A j \in 1..Len(s) : SubSeq(l, 1, Len(s))[j] = l[j]
            BY <2>2, <2>3, Begins
        <3>2. \A j \in 1..Len(s) : SubSeq(l, 1, Len(s))[j] = s[j]
            BY <2>1, <2>3, <2>4, <3>1
        <3> QED
            BY <1>1, <3>1, <3>2, SeqEqual
    <2>6. Len(s) <= Len(l)
        BY <2>3
    <2> QED
        BY <2>1, <2>2, <2>3, <2>4, <2>5, <2>6 DEF Under
<1>6. ASSUME s \notin PaneLayout!Leaves, NEW l \in Under(s) PROVE l # s
    BY <1>6 DEF Under
<1> QED
    BY <1>2, <1>3, <1>4, <1>5, <1>6

-----------------------------------------------------------------------------
(* Layout: invariants *)

Spot == Seq(Directions \X {1, 2})

Call == [slot : Places, pane : Nat, split : BOOLEAN]

\* What is to be split has a slot above it, which has a direction.
LayoutTyped ==
    /\ layout \in PaneLayout!Layouts
    /\ at \in {"start", "applying", "done", "failed"}
    /\ regions \in Seq(Spot)
    /\ todo \in Seq(Call)
    /\ \A i \in DOMAIN todo :
          /\ todo[i].pane \in 1..Len(regions)
          /\ todo[i].split => layout[PaneLayout!Parent(todo[i].slot)] \in Directions
    /\ placed \subseteq PaneLayout!Leaves \X (1..Len(regions))

\* Every leaf is placed or below one slot that is to come, not both.
LeavesInv ==
    /\ at \in {"applying", "done"} =>
          \A l \in PaneLayout!Leaves :
             (\E f \in placed : f[1] = l) \/ \E i \in DOMAIN todo : l \in Under(todo[i].slot)
    /\ \A f \in placed : \A i \in DOMAIN todo : f[1] \notin Under(todo[i].slot)
    /\ \A i, j \in DOMAIN todo : \A l :
          l \in Under(todo[i].slot) /\ l \in Under(todo[j].slot) => i = j
    /\ \A f, g \in placed : f[1] = g[1] <=> f[2] = g[2]

\* Every pane is that of a leaf, or the next slot takes it over.
PanesInv ==
    /\ \A i \in DOMAIN todo : i > 1 => todo[i].split
    /\ \A n \in 1..Len(regions) :
          (\E f \in placed : f[2] = n) \/ (todo # <<>> /\ ~todo[1].split /\ todo[1].pane = n)
    /\ todo # <<>> /\ ~todo[1].split => \A f \in placed : f[2] # todo[1].pane

LayoutInv ==
    /\ LayoutTyped /\ LeavesInv /\ PanesInv
    /\ at = "start" => todo = <<>> /\ placed = {} /\ regions = <<>>
    /\ at = "done" => todo = <<>>

-----------------------------------------------------------------------------
(* Layout: steps *)

\* A slot that has pane p is filled.  No other pane is without a leaf.
LEMMA FillStep ==
    ASSUME LayoutInv, at = "applying", at' = "applying", layout' = layout, todo # <<>>,
           regions' \in Seq(Spot), Len(regions) <= Len(regions'),
           NEW p \in 1..Len(regions'),
           \A f \in placed : f[2] # p,
           \A n \in 1..Len(regions') : n = p \/ \E f \in placed : f[2] = n,
           PaneLayout!Fill(todo[1].slot, p)
    PROVE  LayoutInv'
<1> DEFINE s == todo[1].slot
           L == PaneLayout!Leaves
           N == Len(regions')
           m == Len(todo)
<1>1. /\ layout \in PaneLayout!Layouts /\ todo \in Seq(Call) /\ m \in Nat /\ m >= 1 /\ 1 \in DOMAIN todo
      /\ DOMAIN todo = 1..m /\ s \in Places
      /\ \A i \in 1..m : todo[i] \in Call
    <2>1. layout \in PaneLayout!Layouts /\ todo \in Seq(Call)
        BY DEF LayoutInv, LayoutTyped
    <2>2. m \in Nat /\ m >= 1 /\ DOMAIN todo = 1..m /\ 1 \in DOMAIN todo /\ \A i \in 1..m : todo[i] \in Call
        <3>1. Len(todo) \in Nat /\ DOMAIN todo = 1..Len(todo) /\ Len(todo) # 0
            BY <2>1
        <3>2. \A i \in 1..Len(todo) : todo[i] \in Call
            BY <2>1
        <3> QED
            BY <3>1, <3>2
    <2>3. s \in Places
        BY <2>2 DEF Call
    <2> QED
        BY <2>1, <2>2, <2>3
<1>2. /\ Tail(todo) \in Seq(Call) /\ Len(Tail(todo)) = m - 1 /\ DOMAIN Tail(todo) = 1..(m - 1)
      /\ \A i \in 1..(m - 1) : Tail(todo)[i] = todo[i + 1]
    <2>1. /\ Tail(todo) \in Seq(Call) /\ Len(Tail(todo)) = Len(todo) - 1
          /\ \A i \in 1..Len(Tail(todo)) : Tail(todo)[i] = todo[i + 1]
        BY <1>1, HeadTailProperties
    <2> QED
        BY <1>1, <2>1
<1>3. /\ Places' = Places /\ L' = L /\ Call' = Call /\ \A t : Under(t)' = Under(t)
      /\ N \in Nat /\ Len(regions) \in Nat
    BY DEF Places, PaneLayout!Leaves, PaneLayout!Children, PaneLayout!ChildrenIn, Call, Under,
       LayoutInv, LayoutTyped
<1>4. /\ \A i \in 1..m : /\ todo[i].pane \in 1..N
                         /\ todo[i].split => layout[PaneLayout!Parent(todo[i].slot)] \in Directions
                         /\ i > 1 => todo[i].split
      /\ placed \subseteq L \X (1..N)
      /\ \A l \in L : (\E f \in placed : f[1] = l) \/ \E i \in 1..m : l \in Under(todo[i].slot)
      /\ \A f \in placed : \A i \in 1..m : f[1] \notin Under(todo[i].slot)
      /\ \A i, j \in 1..m : \A l : l \in Under(todo[i].slot) /\ l \in Under(todo[j].slot) => i = j
      /\ \A f, g \in placed : f[1] = g[1] <=> f[2] = g[2]
    <2>1. \A n \in 1..Len(regions) : n \in 1..N
        BY <1>3
    <2>2. placed \subseteq L \X (1..Len(regions))
        BY DEF LayoutInv, LayoutTyped
    <2>3. placed \subseteq L \X (1..N)
        BY <2>1, <2>2
    <2> QED
        BY <1>1, <2>1, <2>3 DEF LayoutInv, LayoutTyped, LeavesInv, PanesInv
<1> HIDE DEF L
<1>5. CASE s \in L
    <2>1. placed' = placed \union {<<s, p>>} /\ todo' = Tail(todo)
        BY <1>5 DEF PaneLayout!Fill, L
    <2>2. Under(s) = {s}
        BY <1>1, <1>5, UnderIs DEF L
    <2>3. /\ DOMAIN todo' = 1..(m - 1) /\ \A i \in 1..(m - 1) :
             /\ i + 1 \in 1..m /\ i + 1 > 1 /\ todo'[i] = todo[i + 1] /\ todo'[i].split
        <3>1. DOMAIN todo' = 1..(m - 1)
            BY <1>2, <2>1
        <3>2. ASSUME NEW i \in 1..(m - 1)
              PROVE  i + 1 \in 1..m /\ i + 1 > 1 /\ todo'[i] = todo[i + 1] /\ todo'[i].split
            <4>1. i + 1 \in 1..m /\ i + 1 > 1
                BY <1>1
            <4>2. todo'[i] = todo[i + 1]
                BY <1>2, <2>1
            <4>3. todo[i + 1].split
                BY <1>4, <4>1, Zenon
            <4> QED
                BY <4>1, <4>2, <4>3, Zenon
        <3> QED
            BY <3>1, <3>2, Zenon
    <2>4. LayoutTyped'
        <3>1. placed' \subseteq L \X (1..N)
            BY <1>4, <1>5, <2>1
        <3>2. ASSUME NEW i \in DOMAIN todo'
              PROVE  /\ todo'[i].pane \in 1..N
                     /\ todo'[i].split => layout[PaneLayout!Parent(todo'[i].slot)] \in Directions
            <4>1. i + 1 \in 1..m /\ todo'[i] = todo[i + 1]
                BY <2>3, Zenon
            <4> QED
                BY <1>4, <4>1, Zenon
        <3> QED
            BY <1>1, <1>2, <1>3, <2>1, <3>1, <3>2 DEF LayoutTyped, L
    <2>5. \A f \in placed : f[1] # s
        BY <1>1, <1>4, <2>2
    <2>6. LeavesInv'
        <3>1. ASSUME NEW l \in L
              PROVE  (\E f \in placed' : f[1] = l) \/ \E i \in DOMAIN todo' : l \in Under(todo'[i].slot)
            <4>1. CASE \E f \in placed : f[1] = l
                BY <2>1, <4>1
            <4>2. CASE \E i \in 1..m : l \in Under(todo[i].slot)
                <5>1. PICK i \in 1..m : l \in Under(todo[i].slot)
                    BY <4>2
                <5>2. CASE i = 1
                    <6>1. l = s /\ <<s, p>> \in placed' /\ <<s, p>>[1] = s
                        BY <2>1, <2>2, <5>1, <5>2
                    <6> QED
                        BY <6>1
                <5>3. CASE i # 1
                    <6>1. i - 1 \in 1..(m - 1) /\ (i - 1) + 1 = i
                        BY <1>1, <5>3
                    <6>2. todo'[i - 1] = todo[i]
                        BY <2>3, <6>1
                    <6> QED
                        BY <2>3, <5>1, <6>1, <6>2
                <5> QED
                    BY <5>2, <5>3
            <4> QED
                BY <1>4, <4>1, <4>2
        <3>2. \A f \in placed' : \A i \in DOMAIN todo' : f[1] \notin Under(todo'[i].slot)
            <4> SUFFICES ASSUME NEW f \in placed', NEW i \in 1..(m - 1), f[1] \in Under(todo[i + 1].slot)
                         PROVE  FALSE
                BY <2>3
            <4>1. i + 1 \in 1..m /\ i + 1 # 1
                BY <1>1
            <4>2. CASE f \in placed
                BY <1>4, <4>1, <4>2
            <4>3. CASE f = <<s, p>>
                <5>1. f[1] = s /\ s \in Under(todo[1].slot)
                    BY <2>2, <4>3
                <5> QED
                    BY <1>1, <1>4, <4>1, <5>1
            <4> QED
                BY <2>1, <4>2, <4>3
        <3>3. \A i, j \in DOMAIN todo' : \A l :
                 l \in Under(todo'[i].slot) /\ l \in Under(todo'[j].slot) => i = j
            <4> SUFFICES ASSUME NEW i \in 1..(m - 1), NEW j \in 1..(m - 1), NEW l,
                                l \in Under(todo[i + 1].slot), l \in Under(todo[j + 1].slot)
                         PROVE  i = j
                BY <2>3
            <4>1. i + 1 = j + 1
                BY <1>4, <2>3
            <4> QED
                BY <1>1, <4>1
        <3>4. \A f, g \in placed' : f[1] = g[1] <=> f[2] = g[2]
            <4> SUFFICES ASSUME NEW f \in placed', NEW g \in placed'
                         PROVE  f[1] = g[1] <=> f[2] = g[2]
                OBVIOUS
            <4>1. \A h \in placed : h[1] # s /\ h[2] # p
                BY <2>5
            <4>2. <<s, p>>[1] = s /\ <<s, p>>[2] = p
                OBVIOUS
            <4> QED
                BY <1>4, <2>1, <4>1, <4>2
        <3> QED
            BY <1>3, <3>1, <3>2, <3>3, <3>4 DEF LeavesInv, L
    <2>7. PanesInv'
        <3>1. \A n \in 1..N : \E f \in placed' : f[2] = n
            <4>1. <<s, p>> \in placed' /\ <<s, p>>[2] = p
                BY <2>1
            <4> QED
                BY <2>1, <4>1
        <3>2. \A i \in DOMAIN todo' : todo'[i].split
            BY <2>3
        <3>3. todo' # <<>> => todo'[1].split
            <4>1. todo' # <<>> => 1 \in DOMAIN todo'
                BY <1>2, <2>1
            <4> QED
                BY <3>2, <4>1, Zenon
        <3> QED
            BY <3>1, <3>2, <3>3 DEF PanesInv
    <2> QED
        BY <2>4, <2>6, <2>7 DEF LayoutInv
<1>6. CASE s \notin L
    <2> DEFINE n == PaneLayout!Cardinality(Kids(s))
               C == PaneLayout!Calls(s, p)
               rest == Tail(todo)
    <2>1. placed' = placed /\ todo' = C \o rest
        BY <1>6 DEF PaneLayout!Fill, L
    <2>2. n \in Nat /\ Kids(s) = 1..n /\ n >= 1 /\ layout[s] \in Directions
        <3>1. n \in Nat /\ Kids(s) = 1..n /\ layout[s] \in IF Kids(s) = {} THEN PaneLayout!Roles ELSE Directions
            BY <1>1, LayoutIs
        <3>2. Kids(s) # {}
            BY <1>1, <1>6 DEF L, PaneLayout!Leaves, Kids, Places
        <3> HIDE DEF n
        <3> QED
            BY <3>1, <3>2
    <2>3. /\ DOMAIN C = 1..n
          /\ \A i \in 1..n : C[i] = [slot |-> s \o <<i>>, pane |-> p, split |-> i > 1]
          /\ C = [i \in 1..n |-> [slot |-> s \o <<i>>, pane |-> p, split |-> i > 1]]
        BY DEF PaneLayout!Calls, Kids
    <2> HIDE DEF n, C
    <2>4. ASSUME NEW i \in 1..n
          PROVE  /\ s \o <<i>> \in Places /\ Under(s \o <<i>>) \subseteq Under(s)
                 /\ PaneLayout!Parent(s \o <<i>>) = s
                 /\ C[i] \in Call /\ C[i].slot = s \o <<i>> /\ C[i].pane = p /\ C[i].split = (i > 1)
        <3>1. s \o <<i>> \in Places /\ Under(s \o <<i>>) \subseteq Under(s) /\ i \in Nat
            BY <1>1, <2>2, UnderIs
        <3>2. s \in Seq(Nat)
            BY <1>1, LayoutIs
        <3>3. PaneLayout!Parent(s \o <<i>>) = s
            BY <3>1, <3>2, Extended
        <3>4. p \in Nat /\ (i > 1) \in BOOLEAN
            BY <1>3, <3>1
        <3> QED
            BY <2>3, <3>1, <3>3, <3>4 DEF Call
    <2>5. C \in Seq(Call) /\ Len(C) = n
        <3>1. \A i \in 1..n : C[i] \in Call
            BY <2>4, Zenon
        <3>2. C \in [1..n -> Call]
            BY <2>3, <3>1, Zenon
        <3> QED
            BY <2>2, <3>2
    <2>6. /\ todo' \in Seq(Call) /\ Len(todo') = n + (m - 1) /\ DOMAIN todo' = 1..(n + (m - 1))
          /\ \A i \in 1..(n + (m - 1)) : todo'[i] = IF i <= n THEN C[i] ELSE rest[i - n]
        <3>1. /\ C \o rest \in Seq(Call) /\ Len(C \o rest) = Len(C) + Len(rest)
              /\ \A i \in 1..(Len(C) + Len(rest)) :
                    (C \o rest)[i] = IF i <= Len(C) THEN C[i] ELSE rest[i - Len(C)]
            BY <1>2, <2>5, ConcatProperties, Zenon
        <3> QED
            BY <1>1, <1>2, <2>1, <2>2, <2>5, <3>1
    <2> HIDE DEF rest
    <2>7. ASSUME NEW i \in DOMAIN todo'
          PROVE  \/ i \in 1..n /\ todo'[i] = C[i]
                 \/ i > n /\ i - n + 1 \in 2..m /\ i - n + 1 \in 1..m /\ todo'[i] = todo[i - n + 1]
        <3>1. CASE i <= n
            BY <2>2, <2>6, <3>1
        <3>2. CASE i > n
            <4>1. i - n \in 1..(m - 1) /\ i - n + 1 \in 2..m /\ i - n + 1 \in 1..m /\ ~(i <= n)
                BY <1>1, <2>2, <2>6, <3>2
            <4> QED
                BY <1>2, <2>6, <3>2, <4>1 DEF rest
        <3> QED
            BY <2>2, <2>6, <3>1, <3>2
    <2>8. ASSUME NEW i \in 2..m
          PROVE  n + i - 1 \in DOMAIN todo' /\ todo'[n + i - 1] = todo[i]
        <3> DEFINE k == n + i - 1
        <3>1. /\ k \in 1..(n + (m - 1)) /\ ~(k <= n) /\ k - n = i - 1
              /\ i - 1 \in 1..(m - 1) /\ (i - 1) + 1 = i
            BY <1>1, <2>2
        <3> HIDE DEF k
        <3>2. todo'[k] = rest[k - n]
            BY <2>6, <3>1
        <3>3. rest[i - 1] = todo[(i - 1) + 1]
            BY <1>2, <3>1 DEF rest
        <3>4. k \in DOMAIN todo' /\ todo'[k] = todo[i]
            BY <2>6, <3>1, <3>2, <3>3
        <3> QED
            BY <3>4 DEF k
    <2>9. ASSUME NEW i \in 1..n PROVE i \in DOMAIN todo' /\ todo'[i] = C[i]
        <3>1. i \in 1..(n + (m - 1)) /\ i <= n
            BY <1>1, <2>2
        <3> QED
            BY <2>6, <3>1
    <2>10. LayoutTyped'
        <3>1. ASSUME NEW i \in DOMAIN todo'
              PROVE  /\ todo'[i].pane \in 1..N
                     /\ todo'[i].split => layout[PaneLayout!Parent(todo'[i].slot)] \in Directions
            <4>1. CASE i \in 1..n /\ todo'[i] = C[i]
                <5>1. todo'[i].pane = p /\ layout[PaneLayout!Parent(todo'[i].slot)] = layout[s]
                    BY <2>4, <4>1, Zenon
                <5> QED
                    BY <2>2, <5>1, Zenon
            <4>2. CASE i - n + 1 \in 1..m /\ todo'[i] = todo[i - n + 1]
                BY <1>4, <4>2, Zenon
            <4> QED
                BY <2>7, <4>1, <4>2, Zenon
        <3> QED
            BY <1>1, <1>3, <1>4, <2>1, <2>6, <3>1 DEF LayoutTyped, L
    <2>11. \A l \in Under(s) : \E i \in 1..n : l \in Under(s \o <<i>>)
        BY <1>1, <1>6, <2>2, UnderIs DEF L
    <2>12. \A i, j \in 1..n : \A l : l \in Under(s \o <<i>>) /\ l \in Under(s \o <<j>>) => i = j
        BY <1>1, <2>2, UnderIs
    <2>13. LeavesInv'
        <3>1. ASSUME NEW l \in L
              PROVE  (\E f \in placed' : f[1] = l) \/ \E i \in DOMAIN todo' : l \in Under(todo'[i].slot)
            <4>1. CASE \E f \in placed : f[1] = l
                BY <2>1, <4>1
            <4>2. CASE \E i \in 1..m : l \in Under(todo[i].slot)
                <5>1. PICK i \in 1..m : l \in Under(todo[i].slot)
                    BY <4>2
                <5>2. CASE i = 1
                    <6>1. PICK k \in 1..n : l \in Under(s \o <<k>>)
                        BY <2>11, <5>1, <5>2, Zenon
                    <6>2. k \in DOMAIN todo' /\ todo'[k].slot = s \o <<k>>
                        BY <2>4, <2>9, Zenon
                    <6> QED
                        BY <6>1, <6>2, Zenon
                <5>3. CASE i # 1
                    <6>1. i \in 2..m
                        BY <1>1, <5>3
                    <6> QED
                        BY <2>8, <5>1, <6>1
                <5> QED
                    BY <5>2, <5>3
            <4> QED
                BY <1>4, <4>1, <4>2
        <3>2. \A f \in placed' : \A i \in DOMAIN todo' : f[1] \notin Under(todo'[i].slot)
            <4> SUFFICES ASSUME NEW f \in placed, NEW i \in DOMAIN todo', f[1] \in Under(todo'[i].slot)
                         PROVE  FALSE
                BY <2>1
            <4>1. CASE i \in 1..n /\ todo'[i] = C[i]
                <5>1. f[1] \in Under(todo[1].slot)
                    BY <2>4, <4>1
                <5> QED
                    BY <1>1, <1>4, <5>1
            <4>2. CASE i - n + 1 \in 1..m /\ todo'[i] = todo[i - n + 1]
                BY <1>4, <4>2
            <4> QED
                BY <2>7, <4>1, <4>2
        <3>3. ASSUME NEW i \in DOMAIN todo', NEW j \in DOMAIN todo', NEW l,
                     l \in Under(todo'[i].slot), l \in Under(todo'[j].slot)
              PROVE  i = j
            <4>0. 1 \in 1..m
                BY <1>1
            <4>1. CASE i \in 1..n /\ j \in 1..n
                <5>1. todo'[i].slot = s \o <<i>> /\ todo'[j].slot = s \o <<j>>
                    BY <2>4, <2>9, <4>1, Zenon
                <5>2. l \in Under(s \o <<i>>) /\ l \in Under(s \o <<j>>)
                    BY <3>3, <5>1, Zenon
                <5> QED
                    BY <2>12, <4>1, <5>2, Zenon
            <4>2. CASE i \in 1..n /\ j \notin 1..n
                <5>1. l \in Under(todo[1].slot)
                    BY <2>4, <2>9, <3>3, <4>2
                <5>2. j - n + 1 \in 2..m /\ j - n + 1 \in 1..m /\ l \in Under(todo[j - n + 1].slot)
                    BY <2>7, <3>3, <4>2
                <5>3. 1 = j - n + 1
                    BY <1>4, <4>0, <5>1, <5>2
                <5>4. j - n + 1 # 1
                    BY <5>2
                <5> QED
                    BY <5>3, <5>4
            <4>3. CASE i \notin 1..n /\ j \in 1..n
                <5>1. l \in Under(todo[1].slot)
                    BY <2>4, <2>9, <3>3, <4>3
                <5>2. i - n + 1 \in 2..m /\ i - n + 1 \in 1..m /\ l \in Under(todo[i - n + 1].slot)
                    BY <2>7, <3>3, <4>3
                <5>3. 1 = i - n + 1
                    BY <1>4, <4>0, <5>1, <5>2
                <5>4. i - n + 1 # 1
                    BY <5>2
                <5> QED
                    BY <5>3, <5>4
            <4>4. CASE i \notin 1..n /\ j \notin 1..n
                <5>1. /\ i - n + 1 \in 1..m /\ l \in Under(todo[i - n + 1].slot)
                      /\ j - n + 1 \in 1..m /\ l \in Under(todo[j - n + 1].slot)
                    BY <2>7, <3>3, <4>4
                <5>2. i - n + 1 = j - n + 1
                    BY <1>4, <5>1
                <5>3. i \in Int /\ j \in Int
                    BY <2>6
                <5> QED
                    BY <2>2, <5>2, <5>3
            <4> QED
                BY <4>1, <4>2, <4>3, <4>4
        <3>4. \A f, g \in placed' : f[1] = g[1] <=> f[2] = g[2]
            BY <1>4, <2>1
        <3> QED
            BY <1>3, <3>1, <3>2, <3>3, <3>4 DEF LeavesInv, L
    <2>14. PanesInv'
        <3>1. 1 \in 1..n /\ todo' # <<>>
            <4>1. Len(todo') # 0
                BY <1>1, <2>2, <2>6
            <4> QED
                BY <2>2, <4>1
        <3>2. ~todo'[1].split /\ todo'[1].pane = p
            <4>1. todo'[1] = C[1]
                BY <2>9, <3>1, Zenon
            <4>2. C[1] = [slot |-> s \o <<1>>, pane |-> p, split |-> 1 > 1]
                BY <2>3, <3>1, Zenon
            <4>3. C[1].pane = p /\ C[1].split = (1 > 1) /\ ~(1 > 1)
                BY <4>2
            <4> QED
                BY <4>1, <4>3, Zenon
        <3>3. ASSUME NEW i \in DOMAIN todo', i > 1 PROVE todo'[i].split
            <4>1. CASE i \in 1..n /\ todo'[i] = C[i]
                BY <2>4, <3>3, <4>1
            <4>2. CASE i - n + 1 \in 2..m /\ i - n + 1 \in 1..m /\ todo'[i] = todo[i - n + 1]
                <5>1. i - n + 1 > 1
                    BY <4>2
                <5> QED
                    BY <1>4, <4>2, <5>1, Zenon
            <4> QED
                BY <2>7, <4>1, <4>2
        <3>4. \A k \in 1..N : (\E f \in placed' : f[2] = k) \/ todo'[1].pane = k
            BY <2>1, <3>2
        <3>5. \A f \in placed' : f[2] # todo'[1].pane
            BY <2>1, <3>2
        <3> QED
            BY <3>1, <3>2, <3>3, <3>4, <3>5 DEF PanesInv
    <2> QED
        BY <2>10, <2>13, <2>14 DEF LayoutInv
<1> QED
    BY <1>5, <1>6

LEMMA RegionSplit ==
    ASSUME regions \in Seq(Spot), NEW n \in 1..Len(regions), NEW d \in Directions
    PROVE  LET split == Append([regions EXCEPT ![n] = Append(@, <<d, 1>>)], Append(regions[n], <<d, 2>>))
           IN  split \in Seq(Spot) /\ Len(split) = Len(regions) + 1
<1>1. regions \in [1..Len(regions) -> Spot] /\ Len(regions) \in Nat /\ regions[n] \in Spot
    BY DEF Spot
<1>2. Append(regions[n], <<d, 1>>) \in Spot /\ Append(regions[n], <<d, 2>>) \in Spot
    BY <1>1 DEF Spot
<1> HIDE DEF Spot
<1> DEFINE kept == [regions EXCEPT ![n] = Append(@, <<d, 1>>)]
<1>3. kept \in [1..Len(regions) -> Spot]
    BY <1>1, <1>2
<1>4. kept \in Seq(Spot) /\ Len(kept) = Len(regions)
    BY <1>1, <1>3
<1> HIDE DEF kept
<1>5. Append(kept, Append(regions[n], <<d, 2>>)) \in Seq(Spot)
      /\ Len(Append(kept, Append(regions[n], <<d, 2>>))) = Len(regions) + 1
    BY <1>2, <1>4, AppendProperties
<1> QED
    BY <1>5 DEF kept

LEMMA LayoutStep ==
    ASSUME LayoutInv, [PaneLayout!Next]_slots
    PROVE  LayoutInv'
<1>1. CASE UNCHANGED slots
    <2>1. LayoutTyped'
        BY <1>1 DEF LayoutInv, LayoutTyped, slots, Call, Places, PaneLayout!Leaves, PaneLayout!Children,
           PaneLayout!ChildrenIn
    <2>2. LeavesInv'
        <3>1. /\ PaneLayout!Leaves' = PaneLayout!Leaves /\ \A t : Under(t)' = Under(t)
              /\ todo' = todo /\ placed' = placed
              /\ at' \in {"applying", "done"} => at \in {"applying", "done"}
            BY <1>1 DEF slots, Under, PaneLayout!Leaves, PaneLayout!Children, PaneLayout!ChildrenIn
        <3> QED
            BY <3>1, Zenon DEF LayoutInv, LeavesInv
    <2> QED
        BY <1>1, <2>1, <2>2 DEF LayoutInv, PanesInv, slots
<1>2. CASE PaneLayout!apply_layout
    <2> DEFINE root == [slot |-> <<>>, pane |-> 1, split |-> FALSE]
    <2>1. /\ layout \in PaneLayout!Layouts /\ <<>> \in Places /\ placed = {} /\ placed' = {}
          /\ layout' = layout /\ at' = "applying" /\ regions' = <<(<<>>)>> /\ todo' = <<root>>
        BY <1>2, LayoutIs DEF PaneLayout!apply_layout, LayoutInv, LayoutTyped
    <2>2. Places' = Places /\ Call' = Call /\ PaneLayout!Leaves' = PaneLayout!Leaves /\ \A t : Under(t)' = Under(t)
        BY <2>1 DEF Places, Call, Under, PaneLayout!Leaves, PaneLayout!Children, PaneLayout!ChildrenIn
    <2>3. root \in Call /\ root.pane = 1 /\ root.split = FALSE /\ root.slot = <<>>
        BY <2>1 DEF Call
    <2> HIDE DEF root
    <2>4. /\ todo' \in Seq(Call) /\ DOMAIN todo' = {1} /\ todo'[1] = root /\ todo' # <<>>
          /\ regions' \in Seq(Spot) /\ Len(regions') = 1
        BY <2>1, <2>3 DEF Spot
    <2>5. \A i \in DOMAIN todo' : i = 1
        BY <2>4
    <2>6. LayoutTyped'
        <3>1. 1 \in 1..Len(regions')
            BY <2>4
        <3> QED
            BY <2>1, <2>2, <2>3, <2>4, <2>5, <3>1, Zenon DEF LayoutTyped
    <2>7. LeavesInv'
        <3>1. ASSUME NEW l \in PaneLayout!Leaves PROVE l \in Under(<<>>)
            <4>1. l \in Seq(Nat) /\ 0 \in 0..Len(l)
                BY <2>1, LayoutIs DEF PaneLayout!Leaves, Places
            <4>2. Len(SubSeq(l, 1, 0)) = 0 /\ SubSeq(l, 1, 0) \in Seq(Nat)
                BY <4>1, Begins
            <4>3. Len(<<>>) = 0 /\ Len(<<>>) <= Len(l) /\ SubSeq(l, 1, 0) = <<>>
                BY <4>1, <4>2
            <4> QED
                BY <4>3 DEF Under
        <3> QED
            BY <2>1, <2>2, <2>3, <2>4, <2>5, <3>1, Zenon DEF LeavesInv
    <2>8. PanesInv'
        <3>1. \A n \in 1..Len(regions') : n = 1
            BY <2>4
        <3>2. ~(1 > 1)
            OBVIOUS
        <3> QED
            BY <2>1, <2>3, <2>4, <2>5, <3>1, <3>2, Zenon DEF PanesInv
    <2> QED
        BY <2>1, <2>6, <2>7, <2>8 DEF LayoutInv
<1>3. CASE PaneLayout!apply_slot
    <2> DEFINE call == todo[1]
    <2>1. /\ at = "applying" /\ at' = "applying" /\ layout' = layout /\ todo # <<>>
          /\ Head(todo) = call
        BY <1>3 DEF PaneLayout!apply_slot
    <2>2. /\ regions \in Seq(Spot) /\ Len(regions) \in Nat /\ call.pane \in 1..Len(regions)
          /\ placed \subseteq PaneLayout!Leaves \X (1..Len(regions))
          /\ call.split => layout[PaneLayout!Parent(call.slot)] \in Directions
        <3>1. regions \in Seq(Spot) /\ todo \in Seq(Call)
            BY DEF LayoutInv, LayoutTyped
        <3>2. Len(regions) \in Nat /\ 1 \in DOMAIN todo
            BY <2>1, <3>1
        <3> QED
            BY <3>1, <3>2, Zenon DEF LayoutInv, LayoutTyped
    <2>3. /\ \A n \in 1..Len(regions) :
                (\E f \in placed : f[2] = n) \/ (~call.split /\ call.pane = n)
          /\ ~call.split => \A f \in placed : f[2] # call.pane
        BY <2>1, Zenon DEF LayoutInv, PanesInv
    <2>4. CASE call.split
        <3> DEFINE d == layout[PaneLayout!Parent(call.slot)]
                   p == Len(regions) + 1
        <3>1. /\ regions' = Append([regions EXCEPT ![call.pane] = Append(@, <<d, 1>>)],
                                   Append(regions[call.pane], <<d, 2>>))
              /\ PaneLayout!Fill(call.slot, p)
            BY <1>3, <2>1, <2>4, Zenon DEF PaneLayout!apply_slot
        <3>2. d \in Directions
            BY <2>2, <2>4, Zenon
        <3> HIDE DEF d
        <3>3. regions' \in Seq(Spot) /\ Len(regions') = Len(regions) + 1
            BY <2>2, <3>1, <3>2, RegionSplit
        <3>4. p \in 1..Len(regions') /\ Len(regions) <= Len(regions')
            BY <2>2, <3>3
        <3>5. \A f \in placed : f[2] # p
            BY <2>2
        <3>6. ASSUME NEW n \in 1..Len(regions') PROVE n = p \/ \E f \in placed : f[2] = n
            <4>1. n = p \/ n \in 1..Len(regions)
                BY <2>2, <3>3
            <4> QED
                BY <2>3, <2>4, <4>1, Zenon
        <3> HIDE DEF p
        <3> QED
            BY <2>1, <3>1, <3>3, <3>4, <3>5, <3>6, FillStep
    <2>5. CASE ~call.split
        <3> DEFINE p == call.pane
        <3>1. regions' = regions /\ PaneLayout!Fill(call.slot, p)
            BY <1>3, <2>1, <2>5, Zenon DEF PaneLayout!apply_slot
        <3>2. p \in 1..Len(regions') /\ Len(regions) <= Len(regions')
            BY <2>2, <3>1
        <3>3. /\ \A f \in placed : f[2] # p
              /\ \A n \in 1..Len(regions') : n = p \/ \E f \in placed : f[2] = n
            BY <2>3, <2>5, <3>1, Zenon
        <3> HIDE DEF p
        <3> QED
            BY <2>1, <2>2, <3>1, <3>2, <3>3, FillStep
    <2> QED
        BY <2>4, <2>5
<1>4. ASSUME /\ at' \in {"failed", "done"} /\ UNCHANGED <<layout, regions, todo, placed>>
             /\ at' = "done" => at = "applying" /\ todo = <<>>
      PROVE  LayoutInv'
    <2>1. LayoutTyped'
        BY <1>4 DEF LayoutInv, LayoutTyped, Call, Places, PaneLayout!Leaves, PaneLayout!Children,
           PaneLayout!ChildrenIn
    <2>2. LeavesInv'
        <3>1. /\ PaneLayout!Leaves' = PaneLayout!Leaves /\ \A t : Under(t)' = Under(t)
              /\ todo' = todo /\ placed' = placed
              /\ at' \in {"applying", "done"} => at \in {"applying", "done"}
            BY <1>4 DEF Under, PaneLayout!Leaves, PaneLayout!Children, PaneLayout!ChildrenIn
        <3> QED
            BY <3>1, Zenon DEF LayoutInv, LeavesInv
    <2> QED
        BY <1>4, <2>1, <2>2 DEF LayoutInv, PanesInv
<1>5. CASE PaneLayout!Fail
    BY <1>4, <1>5 DEF PaneLayout!Fail
<1>6. CASE PaneLayout!Return
    BY <1>4, <1>6 DEF PaneLayout!Return
<1> QED
    BY <1>1, <1>2, <1>3, <1>5, <1>6 DEF PaneLayout!Next

\* What is placed pairs the leaves with the panes.
LEMMA LayoutDone ==
    ASSUME LayoutInv
    PROVE  PaneLayout!SlotsFilled
<1> SUFFICES ASSUME at = "done"
             PROVE  /\ {f[1] : f \in placed} = PaneLayout!Leaves /\ {f[2] : f \in placed} = DOMAIN regions
                    /\ PaneLayout!Cardinality(placed) = PaneLayout!Cardinality(PaneLayout!Leaves)
                    /\ Len(regions) = PaneLayout!Cardinality(PaneLayout!Leaves)
    BY DEF PaneLayout!SlotsFilled
<1> DEFINE L == PaneLayout!Leaves
           N == Len(regions)
<1>1. /\ N \in Nat /\ DOMAIN regions = 1..N /\ placed \subseteq L \X (1..N)
      /\ IsFiniteSet(L) /\ DOMAIN todo = {}
    <2>1. layout \in PaneLayout!Layouts /\ regions \in Seq(Spot) /\ todo = <<>>
        BY DEF LayoutInv, LayoutTyped
    <2>2. IsFiniteSet(L)
        <3>1. L \subseteq Places
            BY DEF PaneLayout!Leaves, Places
        <3> QED
            BY <2>1, <3>1, LayoutIs, FS_Subset
    <2> QED
        BY <2>1, <2>2 DEF LayoutInv, LayoutTyped
<1>2. /\ \A l \in L : \E f \in placed : f[1] = l
      /\ \A n \in 1..N : \E f \in placed : f[2] = n
      /\ \A f, g \in placed : f[1] = g[1] <=> f[2] = g[2]
    <2>1. todo = <<>>
        BY DEF LayoutInv
    <2> QED
        BY <1>1, <2>1 DEF LayoutInv, LeavesInv, PanesInv
<1> HIDE DEF L, N
<1>3. \A f \in placed : f[1] \in L /\ f[2] \in 1..N /\ f = <<f[1], f[2]>>
    BY <1>1
<1>4. {f[1] : f \in placed} = L /\ {f[2] : f \in placed} = 1..N
    BY <1>2, <1>3
<1>5. \A f, g \in placed : f[1] = g[1] => f = g
    BY <1>2, <1>3
<1> DEFINE first == [f \in placed |-> f[1]]
           second == [f \in placed |-> f[2]]
<1>6. first \in Bijection(placed, L)
    BY <1>2, <1>3, <1>5 DEF Bijection, Injection, Surjection, IsInjective
<1>7. second \in Bijection(placed, 1..N)
    BY <1>2, <1>3, <1>5 DEF Bijection, Injection, Surjection, IsInjective
<1> HIDE DEF first, second
<1>8. IsFiniteSet(1..N) /\ Cardinality(1..N) = N
    BY <1>1, FS_Interval
<1>9. IsFiniteSet(placed) /\ Cardinality(placed) = Cardinality(L)
    <2>1. ExistsBijection(placed, L)
        BY <1>6 DEF ExistsBijection
    <2> QED
        BY <1>1, <2>1, FS_Bijection, Fun_ExistsBijSymmetric
<1>10. Cardinality(placed) = N
    <2>1. ExistsBijection(placed, 1..N)
        BY <1>7 DEF ExistsBijection
    <2> QED
        BY <1>8, <1>9, <2>1, FS_Bijection
<1> QED
    BY <1>1, <1>4, <1>9, <1>10, CountsAgree DEF L, N

\* What holds before a layout is applied.
LEMMA LayoutStarts == PaneLayout!Init => LayoutInv
<1> SUFFICES ASSUME PaneLayout!Init PROVE LayoutInv
    OBVIOUS
<1>1. layout \in PaneLayout!Layouts /\ regions = <<>> /\ todo = <<>> /\ placed = {} /\ at = "start"
    BY DEF PaneLayout!Init
<1>2. DOMAIN todo = {} /\ Len(regions) = 0 /\ regions \in Seq(Spot) /\ todo \in Seq(Call)
    BY <1>1
<1>3. 1..Len(regions) = {}
    BY <1>2
<1> QED
    BY <1>1, <1>2, <1>3 DEF LayoutInv, LayoutTyped, LeavesInv, PanesInv

LEMMA LayoutHolds == Spec => [](area = "layout" => LayoutInv)
<1> DEFINE Inv == area = "layout" => LayoutInv
<1>1. Init => Inv
    BY LayoutStarts DEF Init
<1>2. Inv /\ [Next]_vars => Inv'
    <2> SUFFICES ASSUME Inv, [Next]_vars, area' = "layout" PROVE LayoutInv'
        OBVIOUS
    <2>1. area = "layout" /\ [PaneLayout!Next]_slots
        BY DEF Next, vars
    <2> QED
        BY <2>1, LayoutStep
<1> QED
    BY <1>1, <1>2, PTL DEF Spec

\* layout: when atm layout is done every leaf of the layout has a pane of its own
\* and there are no other panes, whatever the tree of slots is.
THEOREM SlotsAreFilled == Spec => []SlotsFilled
<1>1. (area = "layout" => LayoutInv) => SlotsFilled
    BY LayoutDone DEF SlotsFilled
<1> QED
    BY <1>1, LayoutHolds, PTL

-----------------------------------------------------------------------------
(* Setup, workspace and layout: types *)

LEMMA SetupTypes ==
    ASSUME SetupInv
    PROVE  Setup!TypeOK
<1>1. command.name = "none" <=> command = Setup!Idle
    <2>1. Setup!Idle.name = "none"
        BY DEF Setup!Idle
    <2> QED
        BY <2>1 DEF SetupInv, SetupTyped, CommandTyped, Doing
<1> QED
    BY <1>1 DEF SetupInv, SetupTyped, FilesTyped, Setup!TypeOK, Setup!FileStates, Setup!Atm, Setup!Own

LEMMA LayoutTypes ==
    ASSUME LayoutInv
    PROVE  PaneLayout!TypeOK
<1>1. layout \in PaneLayout!Layouts /\ LayoutTyped
    BY DEF LayoutInv, LayoutTyped
<1>2. ASSUME NEW slot \in DOMAIN layout
      PROVE  slot \in PaneLayout!Leaves <=> layout[slot] \in PaneLayout!Roles
    <2>1. layout[slot] \in IF Kids(slot) = {} THEN PaneLayout!Roles ELSE Directions
        BY <1>1, LayoutIs DEF Places
    <2>2. \A d \in Directions : d \notin PaneLayout!Roles
        BY DEF Directions, PaneLayout!Roles, PaneLayout!Horizontal, PaneLayout!Vertical
    <2> QED
        BY <2>1, <2>2 DEF PaneLayout!Leaves, Kids
<1>3. /\ DOMAIN regions = 1..Len(regions)
      /\ \A i \in DOMAIN todo : todo[i] \in Call /\ todo[i].slot \in DOMAIN layout
    <2>1. regions \in Seq(Spot) /\ todo \in Seq(Call)
        BY <1>1 DEF LayoutTyped
    <2>2. \A i \in DOMAIN todo : todo[i] \in Call
        BY <2>1
    <2> QED
        BY <2>1, <2>2 DEF Call, Places
<1> QED
    BY <1>1, <1>2, <1>3 DEF LayoutTyped, Spot, Directions, PaneLayout!TypeOK

\* The types that hold in the areas above.
LEMMA TypesHold ==
    Spec => [](/\ area = "setup" => Setup!TypeOK
               /\ area = "workspace" => Workspace!TypeOK
               /\ area = "layout" => PaneLayout!TypeOK)
<1>1. (area = "setup" => SetupInv) => (area = "setup" => Setup!TypeOK)
    BY SetupTypes
<1>2. (area = "workspace" => WorkspaceInv) => (area = "workspace" => Workspace!TypeOK)
    BY DEF WorkspaceInv
<1>3. (area = "layout" => LayoutInv) => (area = "layout" => PaneLayout!TypeOK)
    BY LayoutTypes
<1> QED
    BY <1>1, <1>2, <1>3, SetupHolds, WorkspaceHolds, LayoutHolds, PTL

=============================================================================
