------------------------------ MODULE Settings ------------------------------
(***************************************************************************)
(* The settings file, ~/.iolrc, and the programs that share it: the wizard *)
(* (src/iolwizard/ui.c), which shows the settings, saves them and forks    *)
(* runs of iolsucker, and those runs (src/src/main.c), which load the file *)
(* over their command line.  save_config_file writes ~/.iolrc_ and renames *)
(* it; any of its calls may fail and the wizard may be killed between two. *)
(*                                                                         *)
(* A field is Unset or has one of a few values: On for a flag; for a text  *)
(* Plain, Raw (a proxy without its port, a user name with spaces: what the *)
(* window rewrites when it shows it) or Markup (a text with < or &, which  *)
(* save_config_file writes as it is and libxml does not read back).        *)
(***************************************************************************)
EXTENDS SequencesExt

CONSTANTS
    Runs,       \* the runs of iolsucker at any one time
    Edited,     \* the fields of the window the user changes
    Typed,      \* the values he types in a text field
    Given,      \* the settings the programs are given on the command line
    Unset, On, Plain, Raw, Markup, Absent, None

\* save_config_file writes the fields that are set, in this order.
SavedOrder ==
    << "username", "password", "repository", "fancy", "forum", "verbose",
       "wait", "xenofobe", "no_cache", "ask", "server", "proxy_type",
       "proxy", "proxy_user" >>

Saved == Range(SavedOrder)

\* The tags parse_login and parse_proxy know.
Loaded == {"username", "password", "repository", "fancy", "wait", "xenofobe",
           "no_cache", "ask", "dump", "server", "proxy", "proxy_user",
           "proxy_type"}

Flags == {"dry", "verbose", "fancy", "forum", "wait", "xenofobe", "no_cache",
          "ask"}

\* The texts of the window: sync_data copies them to opt, the flags and the
\* type of the proxy are copied when they change.
Texts == {"username", "password", "repository", "server", "proxy_type",
          "proxy", "proxy_user"}
AtOnce == Flags \cup {"proxy_type"}

Fields == Saved \cup Loaded \cup Flags \cup Texts

Secrets == {"username", "password", "proxy", "proxy_user"}

Remembered == Saved \cap Loaded

Settings == [Fields -> {Unset, On, Plain, Raw, Markup}]
Nothing == [f \in Fields |-> Unset]

ASSUME ConstantsAssumption ==
    /\ Edited \subseteq Fields
    /\ Typed \subseteq {Plain, Raw, Markup}
    /\ Given \subseteq Settings
    /\ Raw \notin {Unset, Plain}
    /\ None \notin {"fork", "clear", "quit"}

VARIABLES
    file,       \* ~/.iolrc: Absent, or what was written
    temp,       \* ~/.iolrc_
    wizard,     \* where the wizard is: off, idle, or in a step of a save
    after,      \* what the callback that saves does next: fork, clear, quit
    opt,        \* the wizard's struct opt
    shown,      \* its window
    run,        \* run[r]: none, forked or ran, and its struct opt
    asked,      \* asked[r]: what the window showed when r was forked, or None
    left,       \* what the window showed when the wizard was left, or None
    cleared,    \* the settings were cleared, and no secret given since
    failed      \* a write to the disk has failed

disk == <<file, temp>>
window == <<wizard, after, opt, shown>>
history == <<left, cleared, failed>>
vars == <<disk, window, run, asked, history>>

-----------------------------------------------------------------------------
\* A document: what is set in it, and whether it was written to its end.  The
\* documents save_config_file leaves, cut after any line or complete.
Document(o, n, whole) ==
    LET written == {SavedOrder[i] : i \in 1 .. n}
    IN  [whole |-> whole,
         has |-> [f \in Fields |-> IF f \in written THEN o[f] ELSE Unset]]

Complete(o) == Document(o, Len(SavedOrder), TRUE)
Cut(o) == {Document(o, n, FALSE) : n \in 0 .. Len(SavedOrder)}

Parses(d) ==
    /\ d # Absent
    /\ d.whole
    /\ \A f \in Fields : d.has[f] # Markup

\* load_config_file: what the document sets replaces what opt has; a document
\* that does not parse changes nothing.
Load(d, o) ==
    IF Parses(d)
    THEN [f \in Fields |-> IF f \in Loaded /\ d.has[f] # Unset
                           THEN d.has[f] ELSE o[f]]
    ELSE o

\* What the window makes of a setting: it drops the spaces of the users, and
\* has a number for the port of the proxy.
Entry(f, v) ==
    IF f \in {"username", "proxy_user", "proxy"} /\ v = Raw THEN Plain ELSE v

\* Mutant: create_ui fills the entry of the password with nothing.
DisplayNoPassword(o) == [f \in Fields |-> IF f = "password" THEN Unset ELSE o[f]]

Display(o) == [f \in Fields |-> Entry(f, o[f])]

\* Mutant: sync_data forgets an entry.
SyncedNoPassword ==
    [f \in Fields |-> IF f \in Texts \ {"password"} THEN shown[f] ELSE opt[f]]

\* sync_data.
Synced == [f \in Fields |-> IF f \in Texts THEN shown[f] ELSE opt[f]]

Idle == [pc |-> "none", opt |-> Nothing]

Init ==
    /\ file = Absent
    /\ temp = Absent
    /\ wizard = "off"
    /\ after = None
    /\ opt = Nothing
    /\ shown = Nothing
    /\ run = [r \in Runs |-> Idle]
    /\ asked = [r \in Runs |-> None]
    /\ left = None
    /\ cleared = FALSE
    /\ failed = FALSE

-----------------------------------------------------------------------------
\* main() of the wizard: the command line, the file over it, the window.
StartWizard(o) ==
    /\ wizard = "off"
    /\ wizard' = "idle"
    /\ opt' = Load(file, o)
    /\ shown' = Display(opt')
    /\ left' = IF o = Nothing THEN left ELSE None
    /\ cleared' = (cleared /\ \A f \in Secrets : o[f] = Unset)
    /\ UNCHANGED <<disk, after, run, asked, failed>>

\* Mutant: a box without its "toggled" callback.
EditLate(f, v) ==
    /\ wizard = "idle"
    /\ shown[f] # v
    /\ shown' = [shown EXCEPT ![f] = v]
    /\ left' = None
    /\ cleared' = (cleared /\ (f \in Secrets => v = Unset))
    /\ UNCHANGED <<disk, wizard, after, opt, run, asked, failed>>

\* The user types in an entry, or toggles a box.
Edit(f, v) ==
    /\ wizard = "idle"
    /\ shown[f] # v
    /\ shown' = [shown EXCEPT ![f] = v]
    /\ opt' = IF f \in AtOnce THEN [opt EXCEPT ![f] = v] ELSE opt
    /\ left' = None
    /\ cleared' = (cleared /\ (f \in Secrets => v = Unset))
    /\ UNCHANGED <<disk, wizard, after, run, asked, failed>>

Save(next) ==
    /\ wizard' = "open"
    /\ after' = next
    /\ left' = None

\* resync_fnc: the fields are copied even when the press is refused for a
\* repository that cannot be written or for want of a user.
PressResync ==
    /\ wizard = "idle"
    /\ opt' = Synced
    /\ \/ UNCHANGED <<wizard, after, left>>
       \/ /\ opt'["repository"] # Unset
          /\ opt'["username"] # Unset
          /\ Save("fork")
    /\ UNCHANGED <<disk, shown, run, asked, cleared, failed>>

\* Mutant: clear_fnc clears the password only in opt, the users in the window.
ClearWindowOnly ==
    /\ wizard = "idle"
    /\ opt' = [opt EXCEPT !["password"] = Unset, !["dry"] = Unset]
    /\ Save("clear")
    /\ UNCHANGED <<disk, shown, run, asked, cleared, failed>>

\* clear_fnc, up to its save.
PressClear ==
    /\ wizard = "idle"
    /\ opt' = [f \in Fields |->
                  IF f \in Secrets \cup {"dry"} THEN Unset ELSE opt[f]]
    /\ Save("clear")
    /\ UNCHANGED <<disk, shown, run, asked, cleared, failed>>

\* hwndMain_quit.
Quit ==
    /\ wizard = "idle"
    /\ opt' = Synced
    /\ Save("quit")
    /\ UNCHANGED <<disk, shown, run, asked, cleared, failed>>

\* What a wizard that has ended had in memory.
Gone == opt' = Nothing /\ shown' = Nothing

\* The runs that have not read yet will not read what they were to read.
Superseded ==
    [r \in Runs |-> IF run[r].pc = "forked" THEN None ELSE asked[r]]

\* The callback goes on after its save: ok is the result of save_config_file,
\* replaced whether there is a new file.  fork() may fail.
Return(ok, replaced) ==
    LET kept == replaced /\ Parses(file')
        base == IF replaced THEN Superseded ELSE asked
    IN
    /\ after' = None
    /\ \/ /\ after = "fork"
          /\ wizard' = "idle"
          /\ \/ /\ run' = run
                /\ asked' = base
             \/ \E r \in Runs :
                   /\ ok
                   /\ run[r].pc = "none"
                   /\ run' = [run EXCEPT ![r] = [pc |-> "forked", opt |-> Nothing]]
                   /\ asked' = [base EXCEPT ![r] = IF kept THEN shown ELSE None]
          /\ UNCHANGED <<opt, shown, left, cleared>>
       \/ /\ after = "clear"
          /\ wizard' = "idle"
          /\ opt' = [f \in Fields |-> IF f \in Flags THEN Unset ELSE opt[f]]
          /\ shown' = [Nothing EXCEPT !["proxy_type"] = shown["proxy_type"]]
          /\ asked' = base
          /\ cleared' = (cleared \/ replaced)
          /\ UNCHANGED <<run, left>>
       \/ /\ after = "quit"
          /\ wizard' = "off"
          /\ Gone
          /\ left' = IF kept THEN shown ELSE None
          /\ asked' = base
          /\ UNCHANGED <<run, cleared>>

\* Mutant: the file itself is opened and truncated.
OpenInPlace ==
    /\ wizard = "open"
    /\ \/ /\ wizard' = "write"
          /\ file' = Document(opt, 0, FALSE)
          /\ temp' = file'
          /\ UNCHANGED <<after, opt, shown, run, asked, history>>
       \/ /\ Return(FALSE, FALSE)
          /\ failed' = TRUE
          /\ UNCHANGED disk

\* save_config_file: open() ...
SaveOpen ==
    /\ wizard = "open"
    /\ \/ /\ wizard' = "write"
          /\ temp' = Document(opt, 0, FALSE)
          /\ UNCHANGED <<file, after, opt, shown, run, asked, history>>
       \/ /\ Return(FALSE, FALSE)
          /\ failed' = TRUE
          /\ UNCHANGED disk

\* ... the lines, up to the first that cannot be written ...
SaveWrite ==
    /\ wizard = "write"
    /\ wizard' = "close"
    /\ \/ temp' = Complete(opt) /\ failed' = failed
       \/ temp' \in Cut(opt) /\ failed' = TRUE
    /\ UNCHANGED <<file, after, opt, shown, run, asked, left, cleared>>

\* ... and close() and rename(): not even a write that failed is reported.
SaveClose ==
    /\ wizard = "close"
    /\ temp' = Absent
    /\ \/ file' = temp /\ failed' = failed /\ Return(TRUE, TRUE)
       \/ file' = file /\ failed' = TRUE /\ Return(TRUE, FALSE)

\* The wizard is killed, half way through the lines perhaps.
Kill ==
    /\ wizard # "off"
    /\ wizard' = "off"
    /\ after' = None
    /\ temp' \in IF wizard = "write" THEN Cut(opt) ELSE {temp}
    /\ Gone
    /\ left' = None
    /\ UNCHANGED <<file, run, asked, cleared, failed>>

-----------------------------------------------------------------------------
\* A run started from a shell, with options.
StartRun(r, o) ==
    /\ run[r].pc = "none"
    /\ run' = [run EXCEPT ![r] = [pc |-> "forked", opt |-> o]]
    /\ UNCHANGED <<disk, window, asked, history>>

\* main() of iolsucker: the command line, the file over it.
ReadFile(r) ==
    /\ run[r].pc = "forked"
    /\ run' = [run EXCEPT ![r] =
                  [pc |-> "ran", opt |-> Load(file, run[r].opt)]]
    /\ UNCHANGED <<disk, window, asked, history>>

EndRun(r) ==
    /\ run[r].pc = "ran"
    /\ run' = [run EXCEPT ![r] = Idle]
    /\ asked' = [asked EXCEPT ![r] = None]
    /\ UNCHANGED <<disk, window, history>>

Values(f) == {Unset} \cup IF f \in Flags THEN {On} ELSE {Entry(f, v) : v \in Typed}

Next ==
    \/ \E o \in Given : StartWizard(o)
    \/ \E f \in Edited : \E v \in Values(f) : Edit(f, v)
    \/ PressResync
    \/ PressClear
    \/ Quit
    \/ SaveOpen
    \/ SaveWrite
    \/ SaveClose
    \/ Kill
    \/ \E r \in Runs :
          \/ \E o \in Given : StartRun(r, o)
          \/ ReadFile(r)
          \/ EndRun(r)

Spec == Init /\ [][Next]_vars

-----------------------------------------------------------------------------
\* The types of the variables; and the flags and the type of the proxy are in
\* opt what the window shows, which is what lets sync_data leave them alone
\* (the "toggled" and "changed" callbacks, src/iolwizard/ui.c:265-333).
TypeOK ==
    /\ \A d \in {file, temp} \ {Absent} : d.whole \in BOOLEAN /\ d.has \in Settings
    /\ wizard \in {"off", "idle", "open", "write", "close"}
    /\ after \in {None, "fork", "clear", "quit"}
    /\ (after = None) <=> wizard \in {"off", "idle"}
    /\ opt \in Settings /\ shown \in Settings
    /\ wizard = "idle" => \A f \in AtOnce : opt[f] = shown[f]
    /\ run \in [Runs -> [pc : {"none", "forked", "ran"}, opt : Settings]]
    /\ asked \in [Runs -> Settings \cup {None}]
    /\ left \in Settings \cup {None}
    /\ cleared \in BOOLEAN /\ failed \in BOOLEAN

\* A run the button of the wizard forked works with what the window showed when
\* the button was pressed, for the settings that are both saved and loaded:
\* unless the file could not be written, does not parse, or has been saved
\* again before the run read it (ui.c:147-172, config.c:166-211).
RunUsesShown ==
    \A r \in Runs :
        run[r].pc = "ran" /\ asked[r] # None =>
            \A f \in Remembered : run[r].opt[f] = asked[r][f]

\* The wizard comes up as it was left, but for the settings that are not
\* remembered (ui.c:118-133 and 434-687).
WizardRemembers ==
    wizard = "idle" /\ left # None =>
        \A f \in Remembered : shown[f] = left[f]

\* A wizard killed in the middle of a save leaves the file it found: only a
\* disk that failed has a run load half a document (config.c:267-277, 345).
KillKeepsFile == ~failed /\ file # Absent => file.whole

\* Once the clear button has replaced the file, no user name, password or proxy
\* is found in it or in what a killed save has left, however the wizard is
\* left, until one is given again (ui.c:178-205).
Forgotten ==
    cleared => \A d \in {file, temp} \ {Absent} :
                   \A f \in Secrets : d.has[f] = Unset

\* The manual: the options of the command line have priority over the file
\* (doc/iolsucker.1.in:111).  main() loads the file over the options.
CommandLinePrevails ==
    [][\A r \in Runs : ReadFile(r) =>
          \A f \in Fields : run[r].opt[f] # Unset =>
              run'[r].opt[f] = run[r].opt[f]]_vars

=============================================================================
