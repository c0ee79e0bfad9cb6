--------------------------- MODULE SettingsProofs ---------------------------
(***************************************************************************)
(* Proofs about Settings, for any runs, fields edited and command lines:   *)
(* a killed wizard leaves the file whole (KillKeepsFile), a clear leaves   *)
(* no secret (Forgotten), a run the wizard forks works with what the       *)
(* window showed (RunUsesShown), and the wizard comes up as it was left    *)
(* (WizardRemembers).                                                      *)
(*                                                                         *)
(* Forgotten needs more than the two files: while the clear stands, struct *)
(* opt and the window hold no secret either (Blank), or the next save      *)
(* would write it back; and what is written is never more than what opt    *)
(* had when the save began (Written), which during a clear is no secret.   *)
(*                                                                         *)
(* The last two rest on one fact: a file that parses and was not replaced  *)
(* since has, for every setting that is saved and loaded, what the window  *)
(* showed when the save began (Faithful).  It holds because sync_data and  *)
(* the callbacks bring opt to what is shown (InStep), because a document   *)
(* that was written to its end has all of opt (Saving), and because what   *)
(* the window shows once it shows again unchanged (Normal).                *)
(***************************************************************************)
EXTENDS Settings, TLAPS

NoSecret(o) == \A f \in Secrets : o[f] = Unset
NoSecretIn(d) == d # Absent => NoSecret(d.has)

\* The document of a save is complete unless the disk failed, and so is the file.
Whole ==
    ~failed => /\ wizard = "close" => temp.whole
               /\ file # Absent => file.whole

\* The document of a save has nothing opt does not have.
Written ==
    wizard = "close" => \A f \in Fields : temp.has[f] \in {Unset, opt[f]}

\* Where a clear shows.
Blank ==
    /\ after = "clear" => NoSecret(opt)
    /\ cleared => /\ NoSecretIn(file) /\ NoSecretIn(temp)
                  /\ NoSecret(opt) /\ NoSecret(shown)

\* What the window shows at once is in opt, also while a save goes on.
Agree ==
    /\ wizard # "off" => opt["proxy_type"] = shown["proxy_type"]
    /\ after = "fork" => \A f \in AtOnce : opt[f] = shown[f]

IInv == TypeOK /\ Whole /\ Written /\ Blank /\ Agree

-----------------------------------------------------------------------------
(* The operators.                                                          *)

LEMMA SecretsAreFields == Secrets \subseteq Fields
BY DEF Secrets, Fields, Texts

LEMMA NothingType == Nothing \in Settings /\ NoSecret(Nothing)
BY SecretsAreFields DEF Nothing, Settings, NoSecret

\* A document has what it was given or nothing.
LEMMA DocumentHas ==
    ASSUME NEW o \in Settings, NEW n, NEW whole \in BOOLEAN
    PROVE  /\ Document(o, n, whole).whole = whole
           /\ Document(o, n, whole).has \in Settings
           /\ \A f \in Fields : Document(o, n, whole).has[f] \in {Unset, o[f]}
BY DEF Document, Settings

LEMMA CutHas ==
    ASSUME NEW o \in Settings, NEW d \in Cut(o)
    PROVE  /\ d.whole = FALSE
           /\ d.has \in Settings
           /\ \A f \in Fields : d.has[f] \in {Unset, o[f]}
<1>1. PICK n \in 0 .. Len(SavedOrder) : d = Document(o, n, FALSE)
  BY DEF Cut
<1> QED BY <1>1, DocumentHas

LEMMA CompleteHas ==
    ASSUME NEW o \in Settings
    PROVE  /\ Complete(o).whole = TRUE
           /\ Complete(o).has \in Settings
           /\ \A f \in Fields : Complete(o).has[f] \in {Unset, o[f]}
BY DocumentHas DEF Complete

\* Loading gives settings, and no secret where neither side has one.
LEMMA LoadType ==
    ASSUME NEW d, d = Absent \/ d.has \in Settings, NEW o \in Settings
    PROVE  /\ Load(d, o) \in Settings
           /\ NoSecretIn(d) /\ NoSecret(o) => NoSecret(Load(d, o))
BY SecretsAreFields DEF Load, Parses, Settings, NoSecret, NoSecretIn

\* The window shows settings, and at once those that are in opt.
LEMMA DisplayType ==
    ASSUME NEW o \in Settings
    PROVE  /\ Display(o) \in Settings
           /\ NoSecret(o) => NoSecret(Display(o))
           /\ \A f \in AtOnce : f \in Fields /\ Display(o)[f] = o[f]
<1>1. AtOnce \subseteq Fields
  BY DEF AtOnce, Fields, Texts
<1>2. \A f \in AtOnce : f \notin {"username", "proxy_user", "proxy"}
  BY DEF AtOnce, Flags
<1>3. \A f \in Fields : Display(o)[f] = Entry(f, o[f])
  BY DEF Display
<1>4. \A f \in AtOnce : Display(o)[f] = o[f]
  BY <1>1, <1>2, <1>3 DEF Entry
<1>5. Display(o) \in Settings
  BY DEF Display, Entry, Settings
<1>6. NoSecret(o) => NoSecret(Display(o))
  BY <1>3, SecretsAreFields, ConstantsAssumption DEF NoSecret, Entry
<1> QED BY <1>1, <1>4, <1>5, <1>6

\* sync_data gives settings that agree with the window.
LEMMA SyncedType ==
    ASSUME opt \in Settings, shown \in Settings
    PROVE  /\ Synced \in Settings
           /\ NoSecret(shown) => NoSecret(Synced)
           /\ \A f \in AtOnce : opt[f] = shown[f] => Synced[f] = shown[f]
           /\ Synced["proxy_type"] = shown["proxy_type"]
<1>1. AtOnce \subseteq Fields /\ Secrets \subseteq Texts /\ "proxy_type" \in Texts
  BY DEF AtOnce, Fields, Texts, Secrets
<1>2. Texts \subseteq Fields
  BY DEF Fields
<1> QED BY <1>1, <1>2 DEF Synced, Settings, NoSecret

\* A change in the window gives settings.
LEMMA ValuesType ==
    ASSUME NEW f \in Edited, NEW v \in Values(f), NEW o \in Settings
    PROVE  /\ f \in Fields
           /\ [o EXCEPT ![f] = v] \in Settings
           /\ NoSecret(o) /\ (f \in Secrets => v = Unset)
                 => NoSecret([o EXCEPT ![f] = v])
<1>1. f \in Fields /\ v \in {Unset, On, Plain, Raw, Markup}
  BY ConstantsAssumption DEF Values, Entry
<1> QED BY <1>1, SecretsAreFields DEF Settings, NoSecret

-----------------------------------------------------------------------------
(* The steps that do not end a save.                                       *)

LEMMA InitIInv == Init => IInv
<1> SUFFICES ASSUME Init PROVE IInv
  OBVIOUS
<1>1. TypeOK
  BY NothingType, ConstantsAssumption DEF Init, TypeOK, Idle
<1> QED BY <1>1, ConstantsAssumption
        DEF Init, IInv, Whole, Written, Blank, Agree

LEMMA StartWizardIInv ==
    ASSUME IInv, NEW o \in Given, StartWizard(o)
    PROVE  IInv'
<1>1. o \in Settings
  BY ConstantsAssumption
<1>2. file = Absent \/ file.has \in Settings
  BY DEF IInv, TypeOK
<1>3. opt' \in Settings /\ (NoSecretIn(file) /\ NoSecret(o) => NoSecret(opt'))
  BY <1>1, <1>2, LoadType DEF StartWizard
<1>4. /\ shown' \in Settings
      /\ NoSecret(opt') => NoSecret(shown')
      /\ \A f \in AtOnce : shown'[f] = opt'[f]
  BY <1>3, DisplayType DEF StartWizard
<1>5. TypeOK'
  BY <1>3, <1>4 DEF StartWizard, IInv, TypeOK, disk
<1>6. Whole' /\ Written'
  BY DEF StartWizard, IInv, Whole, Written, disk
<1>7. Blank'
  <2>1. (after = None)' /\ (after = "clear")' = FALSE
    BY ConstantsAssumption DEF StartWizard, IInv, TypeOK
  <2>2. ASSUME cleared' PROVE NoSecret(o) /\ NoSecretIn(file) /\ NoSecretIn(temp)
    BY <2>2 DEF StartWizard, IInv, Blank, NoSecret
  <2> QED BY <2>1, <2>2, <1>3, <1>4 DEF StartWizard, Blank, disk, NoSecretIn
<1>8. Agree'
  <2>1. "proxy_type" \in AtOnce
    BY DEF AtOnce
  <2> QED BY <2>1, <1>4 DEF Agree
<1> QED BY <1>5, <1>6, <1>7, <1>8 DEF IInv

LEMMA EditIInv ==
    ASSUME IInv, NEW f \in Edited, NEW v \in Values(f), Edit(f, v)
    PROVE  IInv'
<1>1. /\ opt \in Settings /\ shown \in Settings
      /\ wizard = "idle" /\ wizard' = "idle"
      /\ \A g \in AtOnce : opt[g] = shown[g]
      /\ after' = None
  BY DEF Edit, IInv, TypeOK
<1>2. /\ f \in Fields
      /\ shown' = [shown EXCEPT ![f] = v]
      /\ opt' = opt \/ opt' = [opt EXCEPT ![f] = v]
      /\ f \in AtOnce => opt' = [opt EXCEPT ![f] = v]
      /\ f \notin AtOnce => opt' = opt
  BY <1>1, ValuesType DEF Edit
<1>3. shown' \in Settings /\ opt' \in Settings
  BY <1>1, <1>2, ValuesType
<1>4. \A g \in AtOnce : opt'[g] = shown'[g]
  <2>1. AtOnce \subseteq Fields
    BY DEF AtOnce, Fields, Texts
  <2> QED BY <2>1, <1>1, <1>2 DEF Settings
<1>5. TypeOK'
  BY <1>1, <1>3, <1>4 DEF Edit, IInv, TypeOK, disk
<1>6. Whole' /\ Written'
  BY <1>1 DEF Edit, IInv, Whole, Written, disk
<1>7. Blank'
  <2>1. ASSUME cleared' PROVE NoSecret(opt') /\ NoSecret(shown')
    <3>1. cleared /\ (f \in Secrets => v = Unset)
      BY <2>1 DEF Edit
    <3>2. NoSecret(opt) /\ NoSecret(shown)
      BY <3>1 DEF IInv, Blank
    <3>3. NoSecret([opt EXCEPT ![f] = v]) /\ NoSecret([shown EXCEPT ![f] = v])
      BY <1>1, <3>1, <3>2, ValuesType
    <3> QED BY <1>2, <3>2, <3>3
  <2> QED BY <2>1, <1>1, ConstantsAssumption
          DEF Edit, IInv, Blank, disk, NoSecretIn
<1>8. Agree'
  BY <1>1, <1>4, ConstantsAssumption DEF Agree, AtOnce
<1> QED BY <1>5, <1>6, <1>7, <1>8 DEF IInv

LEMMA PressResyncIInv == ASSUME IInv, PressResync PROVE IInv'
<1>1. /\ opt \in Settings /\ shown \in Settings /\ shown' = shown
      /\ wizard = "idle" /\ after = None /\ opt' = Synced
      /\ \A g \in AtOnce : opt[g] = shown[g]
  BY DEF PressResync, IInv, TypeOK
<1>2. /\ opt' \in Settings
      /\ NoSecret(shown) => NoSecret(opt')
      /\ \A g \in AtOnce : opt'[g] = shown'[g]
  BY <1>1, SyncedType
<1>3. \/ wizard' = "idle" /\ after' = None /\ left' = left
      \/ wizard' = "open" /\ after' = "fork" /\ left' = None
  BY <1>1 DEF PressResync, Save
<1>4. TypeOK'
  BY <1>1, <1>2, <1>3, ConstantsAssumption DEF PressResync, IInv, TypeOK, disk
<1>5. Whole' /\ Written' /\ Blank'
  BY <1>1, <1>2, <1>3, ConstantsAssumption
  DEF PressResync, IInv, Whole, Written, Blank, disk, NoSecretIn
<1>6. Agree'
  BY <1>2 DEF Agree, AtOnce
<1> QED BY <1>4, <1>5, <1>6 DEF IInv

LEMMA PressClearIInv == ASSUME IInv, PressClear PROVE IInv'
<1>1. /\ opt \in Settings /\ shown \in Settings /\ shown' = shown
      /\ wizard' = "open" /\ after' = "clear" /\ left' = None
      /\ opt["proxy_type"] = shown["proxy_type"]
  BY DEF PressClear, Save, IInv, TypeOK, AtOnce
<1>2. /\ opt' \in Settings
      /\ opt'["proxy_type"] = opt["proxy_type"]
  BY <1>1 DEF PressClear, Settings, Fields, Texts, Secrets
<1>3. NoSecret(opt')
  BY SecretsAreFields DEF PressClear, NoSecret
<1>4. TypeOK'
  BY <1>1, <1>2, ConstantsAssumption DEF PressClear, IInv, TypeOK, disk
<1>5. Whole' /\ Written' /\ Blank'
  BY <1>1, <1>3 DEF PressClear, IInv, Whole, Written, Blank, disk, NoSecretIn
<1>6. Agree'
  BY <1>1, <1>2 DEF Agree
<1> QED BY <1>4, <1>5, <1>6 DEF IInv

LEMMA QuitIInv == ASSUME IInv, Quit PROVE IInv'
<1>1. /\ opt \in Settings /\ shown \in Settings /\ shown' = shown
      /\ wizard' = "open" /\ after' = "quit" /\ left' = None
      /\ opt' = Synced
  BY DEF Quit, Save, IInv, TypeOK
<1>2. /\ opt' \in Settings
      /\ NoSecret(shown) => NoSecret(opt')
      /\ opt'["proxy_type"] = shown'["proxy_type"]
  BY <1>1, SyncedType
<1>3. TypeOK'
  BY <1>1, <1>2, ConstantsAssumption DEF Quit, IInv, TypeOK, disk
<1>4. Whole' /\ Written' /\ Blank'
  BY <1>1, <1>2 DEF Quit, IInv, Whole, Written, Blank, disk, NoSecretIn
<1>5. Agree'
  BY <1>1, <1>2 DEF Agree
<1> QED BY <1>3, <1>4, <1>5 DEF IInv

LEMMA SaveWriteIInv == ASSUME IInv, SaveWrite PROVE IInv'
<1>1. /\ opt \in Settings /\ wizard = "write" /\ wizard' = "close"
      /\ opt' = opt /\ shown' = shown /\ after' = after /\ file' = file
      /\ cleared' = cleared
  BY DEF SaveWrite, IInv, TypeOK
<1>2. /\ temp'.has \in Settings
      /\ temp'.whole \in BOOLEAN
      /\ \A f \in Fields : temp'.has[f] \in {Unset, opt[f]}
      /\ failed' \in BOOLEAN
      /\ ~failed' => temp'.whole /\ ~failed
  BY <1>1, CompleteHas, CutHas DEF SaveWrite, IInv, TypeOK
<1>3. TypeOK'
  BY <1>1, <1>2 DEF SaveWrite, IInv, TypeOK
<1>4. Whole' /\ Written'
  BY <1>1, <1>2 DEF IInv, Whole, Written
<1>5. Blank'
  <2>1. NoSecret(opt) => NoSecretIn(temp')
    BY <1>2, SecretsAreFields DEF NoSecret, NoSecretIn
  <2> QED BY <1>1, <2>1 DEF IInv, Blank
<1>6. Agree'
  BY <1>1 DEF IInv, Agree
<1> QED BY <1>3, <1>4, <1>5, <1>6 DEF IInv

LEMMA KillIInv == ASSUME IInv, Kill PROVE IInv'
<1>1. /\ opt \in Settings /\ wizard' = "off" /\ after' = None
      /\ opt' = Nothing /\ shown' = Nothing /\ left' = None
      /\ temp' = temp \/ temp' \in Cut(opt)
  BY DEF Kill, Gone, IInv, TypeOK
<1>2. \/ temp' = temp
      \/ /\ temp'.has \in Settings
         /\ temp'.whole \in BOOLEAN
         /\ \A f \in Fields : temp'.has[f] \in {Unset, opt[f]}
  BY <1>1, CutHas
<1>3. TypeOK'
  BY <1>1, <1>2, NothingType DEF Kill, IInv, TypeOK
<1>4. Whole' /\ Written'
  BY <1>1 DEF Kill, IInv, Whole, Written
<1>5. Blank'
  <2>1. NoSecret(opt) /\ NoSecretIn(temp) => NoSecretIn(temp')
    BY <1>2, SecretsAreFields DEF NoSecret, NoSecretIn
  <2> QED BY <1>1, <2>1, NothingType, ConstantsAssumption DEF Kill, IInv, Blank
<1>6. Agree'
  BY <1>1, ConstantsAssumption DEF Agree
<1> QED BY <1>3, <1>4, <1>5, <1>6 DEF IInv

-----------------------------------------------------------------------------
(* The steps that end a save, and those of the runs.                       *)

\* Going on after a save: the clear stands only if it stood, or if this save
\* was the clear's and there is a new file.
LEMMA ReturnGives ==
    ASSUME IInv, wizard \notin {"off", "idle"},
           NEW ok \in BOOLEAN, NEW replaced \in BOOLEAN, Return(ok, replaced)
    PROVE  /\ wizard' \in {"off", "idle"} /\ after' = None
           /\ opt' \in Settings /\ shown' \in Settings
           /\ wizard' = "idle" => \A f \in AtOnce : opt'[f] = shown'[f]
           /\ run' \in [Runs -> [pc : {"none", "forked", "ran"}, opt : Settings]]
           /\ asked' \in [Runs -> Settings \cup {None}]
           /\ left' \in Settings \cup {None}
           /\ cleared' \in BOOLEAN
           /\ cleared' => /\ cleared \/ (after = "clear" /\ replaced)
                          /\ NoSecret(opt) /\ NoSecret(opt') /\ NoSecret(shown')
<1> DEFINE base == IF replaced THEN Superseded ELSE asked
           kept == replaced /\ Parses(file')
<1>1. /\ opt \in Settings /\ shown \in Settings /\ cleared \in BOOLEAN
      /\ left \in Settings \cup {None}
      /\ run \in [Runs -> [pc : {"none", "forked", "ran"}, opt : Settings]]
      /\ asked \in [Runs -> Settings \cup {None}]
      /\ after # "clear" /\ cleared => NoSecret(opt) /\ NoSecret(shown)
      /\ after = "clear" => NoSecret(opt)
  BY DEF IInv, TypeOK, Blank
<1>2. base \in [Runs -> Settings \cup {None}]
  BY <1>1 DEF Superseded
<1>3. CASE after = "fork"
  <2>1. /\ after' = None /\ wizard' = "idle"
        /\ opt' = opt /\ shown' = shown /\ left' = left /\ cleared' = cleared
        /\ \/ run' = run /\ asked' = base
           \/ \E r \in Runs :
                 /\ run' = [run EXCEPT ![r] = [pc |-> "forked", opt |-> Nothing]]
                 /\ asked' = [base EXCEPT ![r] = IF kept THEN shown ELSE None]
    BY <1>3 DEF Return
  <2>3. run' \in [Runs -> [pc : {"none", "forked", "ran"}, opt : Settings]]
    BY <1>1, <2>1, NothingType
  <2>4. asked' \in [Runs -> Settings \cup {None}]
    BY <1>1, <1>2, <2>1
  <2>5. \A f \in AtOnce : opt'[f] = shown'[f]
    BY <1>3, <2>1 DEF IInv, Agree
  <2> QED BY <1>1, <1>3, <2>1, <2>3, <2>4, <2>5
<1>4. CASE after = "clear"
  <2>1. /\ after' = None /\ wizard' = "idle" /\ run' = run /\ left' = left
        /\ opt' = [f \in Fields |-> IF f \in Flags THEN Unset ELSE opt[f]]
        /\ shown' = [Nothing EXCEPT !["proxy_type"] = shown["proxy_type"]]
        /\ asked' = base
        /\ cleared' = (cleared \/ replaced)
    BY <1>4 DEF Return
  <2>2. opt["proxy_type"] = shown["proxy_type"]
    BY DEF IInv, Agree
  <2>3. "proxy_type" \notin Flags /\ "proxy_type" \notin Secrets
        /\ "proxy_type" \in Fields /\ Flags \subseteq Fields
    BY DEF Flags, Secrets, Fields, Texts
  <2>4. opt' \in Settings /\ shown' \in Settings
    BY <1>1, <2>1, <2>3, NothingType DEF Settings
  <2>5. \A f \in AtOnce : opt'[f] = shown'[f]
    BY <2>1, <2>2, <2>3 DEF AtOnce, Nothing
  <2>6. NoSecret(opt') /\ NoSecret(shown')
    BY <1>1, <1>4, <2>1, <2>3, SecretsAreFields DEF NoSecret, Nothing
  <2> QED BY <1>1, <1>2, <1>4, <2>1, <2>4, <2>5, <2>6
<1>5. CASE after = "quit"
  <2>1. /\ after' = None /\ wizard' = "off" /\ run' = run /\ cleared' = cleared
        /\ opt' = Nothing /\ shown' = Nothing /\ asked' = base
        /\ left' = IF kept THEN shown ELSE None
    BY <1>5 DEF Return, Gone
  <2> QED BY <1>1, <1>2, <1>5, <2>1, NothingType
<1> QED BY <1>3, <1>4, <1>5 DEF Return

LEMMA SaveOpenIInv == ASSUME IInv, SaveOpen PROVE IInv'
<1>1. CASE wizard' = "write" /\ temp' = Document(opt, 0, FALSE)
           /\ UNCHANGED <<file, after, opt, shown, run, asked, history>>
  <2>1. /\ temp'.has \in Settings
        /\ temp'.whole = FALSE
        /\ \A f \in Fields : temp'.has[f] \in {Unset, opt[f]}
    BY <1>1, DocumentHas DEF IInv, TypeOK
  <2>2. TypeOK'
    BY <1>1, <2>1 DEF SaveOpen, IInv, TypeOK, history
  <2>3. Whole' /\ Written'
    BY <1>1 DEF IInv, Whole, Written, history
  <2>4. Blank'
    <3>1. NoSecret(opt) => NoSecretIn(temp')
      BY <2>1, SecretsAreFields DEF NoSecret, NoSecretIn
    <3> QED BY <1>1, <3>1 DEF IInv, Blank, history
  <2>5. Agree'
    BY <1>1 DEF SaveOpen, IInv, Agree
  <2> QED BY <2>2, <2>3, <2>4, <2>5 DEF IInv
<1>2. CASE Return(FALSE, FALSE) /\ failed' = TRUE /\ UNCHANGED disk
  <2>1. wizard \notin {"off", "idle"}
    BY DEF SaveOpen
  <2>2. /\ wizard' \in {"off", "idle"} /\ after' = None
        /\ opt' \in Settings /\ shown' \in Settings
        /\ wizard' = "idle" => \A f \in AtOnce : opt'[f] = shown'[f]
        /\ run' \in [Runs -> [pc : {"none", "forked", "ran"}, opt : Settings]]
        /\ asked' \in [Runs -> Settings \cup {None}]
        /\ left' \in Settings \cup {None}
        /\ cleared' \in BOOLEAN
        /\ cleared' => cleared /\ NoSecret(opt') /\ NoSecret(shown')
    BY <1>2, <2>1, ReturnGives
  <2>3. TypeOK'
    BY <1>2, <2>2 DEF IInv, TypeOK, disk
  <2>4. Whole' /\ Written'
    BY <1>2, <2>2 DEF Whole, Written
  <2>5. Blank'
    BY <1>2, <2>2, ConstantsAssumption DEF IInv, Blank, disk, NoSecretIn
  <2>6. Agree'
    BY <2>2, ConstantsAssumption DEF Agree, AtOnce
  <2> QED BY <2>3, <2>4, <2>5, <2>6 DEF IInv
<1> QED BY <1>1, <1>2 DEF SaveOpen

LEMMA SaveCloseIInv == ASSUME IInv, SaveClose PROVE IInv'
<1>1. PICK replaced \in BOOLEAN :
          /\ Return(TRUE, replaced)
          /\ IF replaced THEN file' = temp /\ failed' = failed
                         ELSE file' = file /\ failed' = TRUE
  BY DEF SaveClose
<1>2. wizard = "close" /\ temp' = Absent
  BY DEF SaveClose
<1>3. /\ wizard' \in {"off", "idle"} /\ after' = None
      /\ opt' \in Settings /\ shown' \in Settings
      /\ wizard' = "idle" => \A f \in AtOnce : opt'[f] = shown'[f]
      /\ run' \in [Runs -> [pc : {"none", "forked", "ran"}, opt : Settings]]
      /\ asked' \in [Runs -> Settings \cup {None}]
      /\ left' \in Settings \cup {None}
      /\ cleared' \in BOOLEAN
      /\ cleared' => /\ cleared \/ (after = "clear" /\ replaced)
                     /\ NoSecret(opt) /\ NoSecret(opt') /\ NoSecret(shown')
  BY <1>1, <1>2, ReturnGives
<1>4. TypeOK'
  BY <1>1, <1>2, <1>3 DEF IInv, TypeOK
<1>5. Whole' /\ Written'
  BY <1>1, <1>2, <1>3 DEF IInv, TypeOK, Whole, Written
<1>6. Blank'
  <2>1. NoSecret(opt) => NoSecretIn(temp)
    BY <1>2, SecretsAreFields DEF IInv, Written, NoSecret, NoSecretIn
  <2>2. cleared' => NoSecretIn(file')
    BY <1>1, <1>3, <2>1 DEF IInv, Blank
  <2> QED BY <1>2, <1>3, <2>2, ConstantsAssumption DEF Blank, NoSecretIn
<1>7. Agree'
  BY <1>3, ConstantsAssumption DEF Agree, AtOnce
<1> QED BY <1>4, <1>5, <1>6, <1>7 DEF IInv

LEMMA RunsIInv ==
    ASSUME IInv, NEW r \in Runs,
           (\E o \in Given : StartRun(r, o)) \/ ReadFile(r) \/ EndRun(r)
    PROVE  IInv'
<1>1. /\ UNCHANGED <<disk, window, history>>
      /\ asked' = asked \/ asked' = [asked EXCEPT ![r] = None]
  BY DEF StartRun, ReadFile, EndRun
<1>2. \E new \in [pc : {"none", "forked", "ran"}, opt : Settings] :
          run' = [run EXCEPT ![r] = new]
  <2>1. run[r].opt \in Settings /\ (file = Absent \/ file.has \in Settings)
    BY DEF IInv, TypeOK
  <2>2. Load(file, run[r].opt) \in Settings
    BY <2>1, LoadType
  <2>3. CASE \E o \in Given : StartRun(r, o)
    BY <2>3, ConstantsAssumption DEF StartRun
  <2>4. CASE ReadFile(r)
    BY <2>4, <2>2 DEF ReadFile
  <2>5. CASE EndRun(r)
    BY <2>5, NothingType DEF EndRun, Idle
  <2> QED BY <2>3, <2>4, <2>5
<1>3. TypeOK'
  BY <1>1, <1>2 DEF IInv, TypeOK, disk, window, history
<1> QED BY <1>1, <1>3
        DEF IInv, Whole, Written, Blank, Agree, disk, window, history, NoSecretIn

LEMMA NextIInv == IInv /\ [Next]_vars => IInv'
<1> SUFFICES ASSUME IInv, [Next]_vars PROVE IInv'
  OBVIOUS
<1>1. CASE UNCHANGED vars
  BY <1>1 DEF vars, disk, window, history, IInv, TypeOK, Whole, Written, Blank,
              Agree, NoSecretIn
<1>2. CASE Next
  BY <1>2, StartWizardIInv, EditIInv, PressResyncIInv, PressClearIInv, QuitIInv,
     SaveOpenIInv, SaveWriteIInv, SaveCloseIInv, KillIInv, RunsIInv DEF Next
<1> QED BY <1>1, <1>2

-----------------------------------------------------------------------------
\* The inductive invariant holds.
THEOREM Invariance == Spec => []IInv
BY InitIInv, NextIInv, PTL DEF Spec

\* The variables have their types, and the flags of struct opt are what the
\* window shows whenever the user may press a button (ui.c:265-333).
THEOREM TypeCorrect == Spec => []TypeOK
<1>1. IInv => TypeOK
  BY DEF IInv
<1> QED BY <1>1, Invariance, PTL

\* A wizard killed in the middle of a save leaves the file it found
\* (config.c:267-277, 345).
THEOREM KillIsHarmless == Spec => []KillKeepsFile
<1>1. IInv => KillKeepsFile
  BY DEF IInv, Whole, KillKeepsFile
<1> QED BY <1>1, Invariance, PTL

\* After a clear that replaced the file no secret is on the disk until one is
\* given again, however the wizard is left (ui.c:178-205).
THEOREM ClearForgets == Spec => []Forgotten
<1>1. IInv => Forgotten
  BY DEF IInv, Blank, Forgotten, NoSecret, NoSecretIn
<1> QED BY <1>1, Invariance, PTL

-----------------------------------------------------------------------------
(* What is remembered of the window.                                       *)


Faithful(d, o) == Parses(d) /\ \A f \in Remembered : d.has[f] = o[f]

Saving ==
    wizard = "close" /\ temp # Absent /\ temp.whole =>
        \A f \in Saved : temp.has[f] = opt[f]

InStep == after \in {"fork", "quit"} => \A f \in Remembered : opt[f] = shown[f]

Shows(o) == \A f \in Fields : Entry(f, o[f]) = o[f]

Normal == Shows(shown)

\* A run that is to read the file and the file it will find; a run that has.
Pending ==
    \A r \in Runs :
        asked[r] # None =>
            \/ /\ run[r] = [pc |-> "forked", opt |-> Nothing]
               /\ Faithful(file, asked[r])
            \/ /\ run[r].pc = "ran"
               /\ \A f \in Remembered : run[r].opt[f] = asked[r][f]

LeftBehind ==
    left # None =>
        /\ Faithful(file, left)
        /\ Shows(left)
        /\ \/ wizard = "off"
           \/ wizard = "idle" /\ \A f \in Remembered : shown[f] = left[f]

RInv == Saving /\ InStep /\ Normal /\ Pending /\ LeftBehind

-----------------------------------------------------------------------------
(* The operators.                                                          *)

LEMMA RememberedAreShown ==
    /\ Remembered \subseteq Saved /\ Saved \subseteq Fields
    /\ Remembered \subseteq Loaded /\ Remembered \subseteq Fields
    /\ \A f \in Remembered : f \in Texts \cup AtOnce
<1>1. Saved = {"username", "password", "repository", "fancy", "forum",
               "verbose", "wait", "xenofobe", "no_cache", "ask", "server",
               "proxy_type", "proxy", "proxy_user"}
  <2>1. Len(SavedOrder) = 14
    BY DEF SavedOrder
  <2>2. DOMAIN SavedOrder = 1 .. 14
    BY DEF SavedOrder
  <2> QED BY <2>2 DEF Saved, Range, SavedOrder
<1> QED BY <1>1 DEF Remembered, Loaded, Texts, AtOnce, Flags, Fields

LEMMA EntryTwice ==
    ASSUME NEW f, NEW v PROVE Entry(f, Entry(f, v)) = Entry(f, v)
BY ConstantsAssumption DEF Entry

LEMMA DisplayShows == ASSUME NEW o PROVE Shows(Display(o))
BY EntryTwice DEF Shows, Display

LEMMA NothingShows == Shows(Nothing)
BY ConstantsAssumption DEF Shows, Nothing, Entry

\* A complete document has every field that is saved.
LEMMA CompleteHasAll ==
    ASSUME NEW o PROVE \A f \in Saved : Complete(o).has[f] = o[f]
<1>1. DOMAIN SavedOrder = 1 .. Len(SavedOrder)
  BY DEF SavedOrder
<1>2. Saved = {SavedOrder[i] : i \in 1 .. Len(SavedOrder)}
  BY <1>1 DEF Saved, Range
<1> QED BY <1>2, RememberedAreShown DEF Complete, Document

\* What is loaded over nothing is what the document has.
LEMMA LoadFaithful ==
    ASSUME NEW d, NEW o, Faithful(d, o)
    PROVE  \A f \in Remembered : Load(d, Nothing)[f] = o[f]
BY RememberedAreShown DEF Faithful, Load, Nothing

-----------------------------------------------------------------------------
(* The steps.                                                              *)

LEMMA InitRInv == Init => RInv
<1> SUFFICES ASSUME Init PROVE RInv
  OBVIOUS
<1>1. Normal
  BY NothingShows DEF Init, Normal
<1>2. Saving /\ InStep /\ Pending /\ LeftBehind
  BY ConstantsAssumption DEF Init, Saving, InStep, Pending, LeftBehind
<1> QED BY <1>1, <1>2 DEF RInv

LEMMA StartWizardRInv ==
    ASSUME IInv, RInv, NEW o \in Given, StartWizard(o)
    PROVE  RInv'
<1>1. /\ wizard = "off" /\ wizard' = "idle" /\ after' = None
      /\ UNCHANGED <<file, temp, run, asked>>
      /\ shown' = Display(Load(file, o))
  BY DEF StartWizard, disk, IInv, TypeOK
<1>2. Normal'
  BY <1>1, DisplayShows DEF Normal
<1>3. LeftBehind'
  <2> SUFFICES ASSUME left' # None PROVE LeftBehind'
    BY DEF LeftBehind
  <2>1. o = Nothing /\ left' = left
    BY DEF StartWizard
  <2>2. Faithful(file, left) /\ Shows(left)
    BY <2>1 DEF RInv, LeftBehind
  <2>3. ASSUME NEW f \in Remembered PROVE shown'[f] = left[f]
    <3>1. Load(file, Nothing)[f] = left[f]
      BY <2>2, LoadFaithful
    <3>2. shown'[f] = Entry(f, left[f])
      BY <1>1, <2>1, <3>1, RememberedAreShown DEF Display
    <3> QED BY <2>2, <3>2, RememberedAreShown DEF Shows
  <2> QED BY <1>1, <2>1, <2>2, <2>3 DEF LeftBehind, Faithful
<1> QED BY <1>1, <1>2, <1>3, ConstantsAssumption
        DEF RInv, Saving, InStep, Pending, Faithful

LEMMA EditRInv ==
    ASSUME IInv, RInv, NEW f \in Edited, NEW v \in Values(f), Edit(f, v)
    PROVE  RInv'
<1>1. /\ wizard' = "idle" /\ after' = None /\ left' = None
      /\ UNCHANGED <<file, run, asked>>
      /\ shown' = [shown EXCEPT ![f] = v]
  BY DEF Edit, disk, IInv, TypeOK
<1>2. Normal'
  <2>1. Entry(f, v) = v
    BY EntryTwice, ConstantsAssumption DEF Values, Entry, Flags
  <2>2. shown \in Settings
    BY DEF IInv, TypeOK
  <2> QED BY <1>1, <2>1, <2>2 DEF RInv, Normal, Shows, Settings
<1> QED BY <1>1, <1>2, ConstantsAssumption
        DEF RInv, Saving, InStep, Pending, LeftBehind, Faithful

\* sync_data brings opt to what the window shows, the callbacks having done
\* what it leaves alone.
LEMMA SyncedInStep ==
    ASSUME IInv, wizard = "idle"
    PROVE  \A f \in Remembered : Synced[f] = shown[f]
<1>1. \A f \in AtOnce : opt[f] = shown[f]
  BY DEF IInv, TypeOK
<1> QED BY <1>1, RememberedAreShown DEF Synced

LEMMA PressRInv ==
    ASSUME IInv, RInv, PressResync \/ PressClear \/ Quit
    PROVE  RInv'
<1>1. /\ wizard = "idle" /\ wizard' \in {"idle", "open"}
      /\ UNCHANGED <<file, shown, run, asked>>
      /\ \/ wizard' = wizard /\ left' = left
         \/ left' = None
      /\ \/ after' \in {"clear", None}
         \/ opt' = Synced
  BY DEF PressResync, PressClear, Quit, Save, disk, IInv, TypeOK
<1>2. InStep'
  BY <1>1, SyncedInStep, ConstantsAssumption DEF InStep
<1>3. LeftBehind'
  BY <1>1 DEF RInv, LeftBehind, Faithful
<1> QED BY <1>1, <1>2, <1>3 DEF RInv, Saving, Normal, Pending, Faithful

LEMMA SaveWriteRInv == ASSUME IInv, RInv, SaveWrite PROVE RInv'
<1>1. /\ wizard = "write" /\ wizard' = "close"
      /\ UNCHANGED <<file, after, opt, shown, run, asked, left>>
      /\ opt \in Settings
      /\ temp' = Complete(opt) \/ temp' \in Cut(opt)
  BY DEF SaveWrite, IInv, TypeOK
<1>2. Saving'
  <2>1. CASE temp' = Complete(opt)
    BY <1>1, <2>1, CompleteHasAll DEF Saving
  <2>2. CASE temp' \in Cut(opt)
    <3>1. temp'.whole = FALSE
      BY <1>1, <2>2, CutHas
    <3> QED BY <3>1 DEF Saving
  <2> QED BY <1>1, <2>1, <2>2
<1>3. left' = None
  BY <1>1 DEF RInv, LeftBehind
<1> QED BY <1>1, <1>2, <1>3
        DEF RInv, InStep, Normal, Pending, LeftBehind, Faithful

LEMMA KillRInv == ASSUME IInv, RInv, Kill PROVE RInv'
<1>1. /\ wizard' = "off" /\ after' = None /\ left' = None
      /\ UNCHANGED <<file, run, asked>>
      /\ shown' = Nothing
  BY DEF Kill, Gone
<1> QED BY <1>1, NothingShows, ConstantsAssumption
        DEF RInv, Saving, InStep, Normal, Pending, LeftBehind, Faithful

\* Going on after a save, the file that is there now faithful to the window if
\* it was replaced and parses.
LEMMA ReturnRInv ==
    ASSUME IInv, RInv, wizard \notin {"off", "idle"},
           NEW ok \in BOOLEAN, NEW replaced \in BOOLEAN, Return(ok, replaced),
           ~replaced => file' = file,
           replaced /\ after \in {"fork", "quit"} /\ Parses(file')
               => Faithful(file', shown)
    PROVE  RInv'
<1> DEFINE base == IF replaced THEN Superseded ELSE asked
           kept == replaced /\ Parses(file')
<1>1. /\ after' = None /\ wizard' \in {"off", "idle"}
      /\ left = None
      /\ run \in [Runs -> [pc : {"none", "forked", "ran"}, opt : Settings]]
      /\ asked \in [Runs -> Settings \cup {None}]
  BY DEF Return, RInv, LeftBehind, IInv, TypeOK
<1>2. ASSUME NEW r \in Runs, base[r] # None
      PROVE  /\ base[r] = asked[r]
             /\ \/ /\ run[r] = [pc |-> "forked", opt |-> Nothing]
                   /\ Faithful(file', base[r])
                \/ /\ run[r].pc = "ran"
                   /\ \A f \in Remembered : run[r].opt[f] = base[r][f]
  BY <1>2, <1>1 DEF Superseded, RInv, Pending
<1>3. CASE after = "fork"
  <2>1. wizard' = "idle" /\ UNCHANGED <<opt, shown, left>>
    BY <1>3 DEF Return
  <2>2. CASE run' = run /\ asked' = base
    <3>1. Pending'
      BY <2>2, <1>2 DEF Pending
    <3> QED BY <1>1, <2>1, <3>1, ConstantsAssumption
            DEF RInv, Saving, InStep, Normal, LeftBehind
  <2>3. CASE \E r \in Runs :
                /\ run[r].pc = "none"
                /\ run' = [run EXCEPT ![r] = [pc |-> "forked", opt |-> Nothing]]
                /\ asked' = [base EXCEPT ![r] = IF kept THEN shown ELSE None]
    <3>1. PICK r \in Runs :
             /\ run' = [run EXCEPT ![r] = [pc |-> "forked", opt |-> Nothing]]
             /\ asked' = [base EXCEPT ![r] = IF kept THEN shown ELSE None]
      BY <2>3
    <3>2. DOMAIN base = Runs /\ DOMAIN run = Runs
      BY <1>1 DEF Superseded
    <3>3. /\ run'[r] = [pc |-> "forked", opt |-> Nothing]
          /\ asked'[r] = IF kept THEN shown ELSE None
          /\ \A q \in Runs \ {r} : run'[q] = run[q] /\ asked'[q] = base[q]
      BY <3>1, <3>2
    <3>4. asked'[r] # None => Faithful(file', asked'[r])
      BY <3>3, <1>3
    <3>5. Pending'
      BY <3>3, <3>4, <1>2 DEF Pending
    <3> QED BY <1>1, <2>1, <3>5, ConstantsAssumption
            DEF RInv, Saving, InStep, Normal, LeftBehind
  <2> QED BY <1>3, <2>2, <2>3 DEF Return
<1>4. CASE after = "clear"
  <2>1. /\ wizard' = "idle" /\ run' = run /\ left' = left /\ asked' = base
        /\ shown' = [Nothing EXCEPT !["proxy_type"] = shown["proxy_type"]]
    BY <1>4 DEF Return
  <2>2. Normal'
    BY <2>1, NothingShows DEF RInv, Normal, Shows, Nothing, Entry
  <2>3. Pending'
    BY <2>1, <1>2 DEF Pending
  <2> QED BY <1>1, <2>1, <2>2, <2>3, ConstantsAssumption
          DEF RInv, Saving, InStep, LeftBehind
<1>5. CASE after = "quit"
  <2>1. /\ wizard' = "off" /\ run' = run /\ asked' = base /\ shown' = Nothing
        /\ left' = IF kept THEN shown ELSE None
    BY <1>5 DEF Return, Gone
  <2>2. Pending'
    BY <2>1, <1>2 DEF Pending
  <2>3. LeftBehind'
    BY <2>1, <1>5 DEF LeftBehind, RInv, Normal
  <2> QED BY <1>1, <2>1, <2>2, <2>3, NothingShows, ConstantsAssumption
          DEF RInv, Saving, InStep, Normal
<1> QED BY <1>3, <1>4, <1>5 DEF Return

LEMMA SaveOpenRInv == ASSUME IInv, RInv, SaveOpen PROVE RInv'
<1>1. CASE wizard' = "write"
           /\ UNCHANGED <<file, after, opt, shown, run, asked, history>>
  <2>1. left = None /\ left' = None
    BY <1>1 DEF SaveOpen, RInv, LeftBehind, history
  <2> QED BY <1>1, <2>1
          DEF RInv, Saving, InStep, Normal, Pending, LeftBehind, Faithful
<1>2. CASE Return(FALSE, FALSE) /\ UNCHANGED disk
  <2>1. wizard \notin {"off", "idle"} /\ file' = file
    BY <1>2 DEF SaveOpen, disk
  <2> QED BY <1>2, <2>1, ReturnRInv
<1> QED BY <1>1, <1>2 DEF SaveOpen

LEMMA SaveCloseRInv == ASSUME IInv, RInv, SaveClose PROVE RInv'
<1>1. PICK replaced \in BOOLEAN :
          /\ Return(TRUE, replaced)
          /\ file' = IF replaced THEN temp ELSE file
  BY DEF SaveClose
<1>2. wizard = "close"
  BY DEF SaveClose
<1>3. ASSUME replaced, after \in {"fork", "quit"}, Parses(file')
      PROVE  Faithful(file', shown)
  <2>1. file' = temp /\ temp # Absent /\ temp.whole
    BY <1>1, <1>3 DEF Parses
  <2>2. \A f \in Remembered : temp.has[f] = shown[f]
    BY <1>2, <1>3, <2>1, RememberedAreShown DEF RInv, Saving, InStep
  <2> QED BY <1>3, <2>1, <2>2 DEF Faithful
<1> QED BY <1>1, <1>2, <1>3, ReturnRInv

LEMMA RunsRInv ==
    ASSUME IInv, RInv, NEW r \in Runs,
           (\E o \in Given : StartRun(r, o)) \/ ReadFile(r) \/ EndRun(r)
    PROVE  RInv'
<1>1. /\ UNCHANGED <<disk, window, history>>
      /\ DOMAIN run = Runs /\ DOMAIN asked = Runs
  BY DEF StartRun, ReadFile, EndRun, IInv, TypeOK
<1>2. Pending'
  <2>1. \A q \in Runs \ {r} : run'[q] = run[q] /\ asked'[q] = asked[q]
    BY <1>1 DEF StartRun, ReadFile, EndRun
  <2>2. CASE \E o \in Given : StartRun(r, o)
    <3>1. asked'[r] = None
      BY <2>2 DEF StartRun, RInv, Pending
    <3> QED BY <1>1, <2>1, <3>1 DEF RInv, Pending, disk, Faithful
  <2>3. CASE ReadFile(r)
    <3>1. /\ run[r].pc = "forked" /\ asked' = asked
          /\ run'[r] = [pc |-> "ran", opt |-> Load(file, run[r].opt)]
      BY <1>1, <2>3 DEF ReadFile
    <3>2. asked[r] # None =>
              \A f \in Remembered : run'[r].opt[f] = asked[r][f]
      BY <3>1, LoadFaithful DEF RInv, Pending
    <3> QED BY <1>1, <2>1, <3>1, <3>2 DEF RInv, Pending, disk, Faithful
  <2>4. CASE EndRun(r)
    <3>1. asked'[r] = None
      BY <1>1, <2>4 DEF EndRun
    <3> QED BY <1>1, <2>1, <3>1 DEF RInv, Pending, disk, Faithful
  <2> QED BY <2>2, <2>3, <2>4
<1> QED BY <1>1, <1>2
        DEF RInv, Saving, InStep, Normal, LeftBehind, disk, window, history, Faithful

LEMMA NextRInv == IInv /\ RInv /\ [Next]_vars => RInv'
<1> SUFFICES ASSUME IInv, RInv, [Next]_vars PROVE RInv'
  OBVIOUS
<1>1. CASE UNCHANGED vars
  BY <1>1 DEF vars, disk, window, history, RInv, Saving, InStep, Normal, Pending,
              LeftBehind, Faithful
<1>2. CASE Next
  BY <1>2, StartWizardRInv, EditRInv, PressRInv, SaveOpenRInv, SaveWriteRInv,
     SaveCloseRInv, KillRInv, RunsRInv DEF Next
<1> QED BY <1>1, <1>2

-----------------------------------------------------------------------------
\* The strengthened invariant holds.
THEOREM Recall == Spec => []RInv
BY InitRInv, NextRInv, Invariance, PTL DEF Spec

\* A run the button forked works with what the window showed, for the settings
\* that are saved and loaded, unless the file could not be written, does not
\* parse, or was saved again before it read it (ui.c:147-172, config.c:166-211).
THEOREM RunsUseWhatIsShown == Spec => []RunUsesShown
<1>1. RInv => RunUsesShown
  BY DEF RInv, Pending, RunUsesShown
<1> QED BY <1>1, Recall, PTL

\* The wizard comes up as it was left (ui.c:118-133 and 434-687).
THEOREM WizardRecalls == Spec => []WizardRemembers
<1>1. RInv => WizardRemembers
  BY DEF RInv, LeftBehind, WizardRemembers
<1> QED BY <1>1, Recall, PTL

=============================================================================
